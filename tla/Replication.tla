---------------------------- MODULE Replication ----------------------------
(***************************************************************************)
(* Replication of cluster.yaml: internal/config/cluster.go (Mutate,        *)
(* Replace, LoadClusterConfig), internal/replicate/replicator.go and the   *)
(* version exchange of internal/quorum/manager.go.                         *)
(*                                                                         *)
(* A configuration is its version and the set of mutations it contains.    *)
(* Each operator command is one mutation o of Op, issued once.             *)
(*                                                                         *)
(* Who believes to be master comes from the election (module Election) and *)
(* is arbitrary here: any node of Writers may become master or stop being  *)
(* it, at most MaxMasters at a time.  MaxMasters = 1 is an election that   *)
(* never errs.  Quorum is arbitrary too.  Nobody holds a lock between the  *)
(* look at them and the write, so the write may come when both are gone.   *)
(*                                                                         *)
(* A snapshot of a configuration on its way to a node, pushed by a         *)
(* broadcast or fetched by a pull, may be lost, overtaken, or arrive after *)
(* its sender has died.  Processes crash, restart from disk, and writing   *)
(* cluster.yaml may fail.                                                  *)
(***************************************************************************)
EXTENDS Integers, Sequences, FiniteSets

CONSTANTS
    Node,
    Op,                \* mutations issued by operators
    Writers,           \* nodes that may believe to be master
    MaxMasters,        \* how many may believe it at the same time
    MaxCrashes,        \* bound on crashes
    MaxWriteFailures   \* bound on failing writes of cluster.yaml

ASSUME NodeAssumption == IsFiniteSet(Node)
ASSUME WritersAssumption == Writers \subseteq Node
ASSUME BoundsAssumption ==
    MaxMasters \in Nat /\ MaxCrashes \in Nat /\ MaxWriteFailures \in Nat

VARIABLES
    up,
    cfg,         \* the ClusterConfig in memory
    disk,        \* cluster.yaml
    masters,     \* nodes for which IsMaster() holds
    owed,        \* nodes whose broadcast goroutine has not taken its snapshot
    snapshots,   \* configurations on their way to a node
    proposals,   \* ProposeMutation calls on their way to a node
    admitted,    \* mutations a node has found itself master for, not yet applied
    status,      \* the answer to whoever issued a mutation
    crashes, writeFailures,
    forked,      \* history: a node has committed without holding the newest version
    log          \* history: the content of every version, until then

vars == <<up, cfg, disk, masters, owed, snapshots, proposals, admitted, status,
          crashes, writeFailures, forked, log>>

Config == [ver : Nat \ {0}, ops : SUBSET Op]
Status == {"new", "pending", "applied", "rejected", "failed", "unknown"}

TypeOK ==
    /\ up \subseteq Node
    /\ cfg \in [Node -> Config]
    /\ disk \in [Node -> Config]
    /\ masters \subseteq Writers
    /\ owed \subseteq Node
    /\ snapshots \subseteq [to : Node, cfg : Config]
    /\ proposals \subseteq [to : Node, op : Op]
    /\ admitted \subseteq [at : Node, op : Op]
    /\ status \in [Op -> Status]
    /\ crashes \in 0 .. MaxCrashes
    /\ writeFailures \in 0 .. MaxWriteFailures
    /\ forked \in BOOLEAN
    /\ log \in Seq(SUBSET Op)

FirstConfig == [ver |-> 1, ops |-> {}]

\* Every node has caught up with the same first configuration.
Init ==
    /\ up = Node
    /\ cfg = [n \in Node |-> FirstConfig]
    /\ disk = cfg
    /\ masters = {}
    /\ owed = {}
    /\ snapshots = {}
    /\ proposals = {}
    /\ admitted = {}
    /\ status = [o \in Op |-> "new"]
    /\ crashes = 0
    /\ writeFailures = 0
    /\ forked = FALSE
    /\ log = <<{}>>

\* ------------------------------------------------- the view of the master
BecomeMaster(n) ==
    /\ n \in (Writers \intersect up) \ masters
    /\ Cardinality(masters) < MaxMasters
    /\ masters' = masters \union {n}
    /\ UNCHANGED <<up, cfg, disk, owed, snapshots, proposals, admitted, status,
                   crashes, writeFailures, forked, log>>

LoseMaster(n) ==
    /\ n \in masters
    /\ masters' = masters \ {n}
    /\ UNCHANGED <<up, cfg, disk, owed, snapshots, proposals, admitted, status,
                   crashes, writeFailures, forked, log>>

\* ------------------------------------------------------------- mutations
\* Every configuration held by somebody, on a disk or on its way.
Held == {cfg[n] : n \in up} \union {disk[n] : n \in Node}
            \union {s.cfg : s \in snapshots}

\* Nothing held anywhere is newer than what n holds.
NewestAt(n) == \A c \in Held : c.ver <= cfg[n].ver

\* Whoever issued o learns its outcome, if it still waits for it.
Answered(o, outcome) ==
    status' = [status EXCEPT ![o] = IF @ = "pending" THEN outcome ELSE @]

\* LocalMutate, first half, on the master: there is a quorum, and IsMaster says
\* that the mutation is for this node to apply.
MutateHere(n, o) ==
    /\ n \in up \intersect masters
    /\ status[o] = "new"
    /\ status' = [status EXCEPT ![o] = "pending"]
    /\ admitted' = admitted \union {[at |-> n, op |-> o]}
    /\ UNCHANGED <<up, cfg, disk, masters, owed, snapshots, proposals, crashes,
                   writeFailures, forked, log>>

\* LocalMutate on a follower: the mutation is sent to the node it takes for
\* the master, which need not be one (any more).
Propose(n, m, o) ==
    /\ n \in up \ masters /\ m \in Writers \ {n}
    /\ status[o] = "new"
    /\ status' = [status EXCEPT ![o] = "pending"]
    /\ proposals' = proposals \union {[to |-> m, op |-> o]}
    /\ UNCHANGED <<up, cfg, disk, masters, owed, snapshots, admitted, crashes,
                   writeFailures, forked, log>>

\* LocalMutate without a quorum, or without a master to send to.
Refuse(o) ==
    /\ up # {}
    /\ status[o] = "new"
    /\ status' = [status EXCEPT ![o] = "rejected"]
    /\ UNCHANGED <<up, cfg, disk, masters, owed, snapshots, proposals, admitted,
                   crashes, writeFailures, forked, log>>

\* HandleProposeMutation, first half: the node is master and has a quorum.
\* The proposer may have given up.
HandlePropose(p) ==
    /\ p \in proposals /\ p.to \in up \intersect masters
    /\ proposals' = proposals \ {p}
    /\ admitted' = admitted \union {[at |-> p.to, op |-> p.op]}
    /\ UNCHANGED <<up, cfg, disk, masters, owed, snapshots, status, crashes,
                   writeFailures, forked, log>>

\* Mutant of RejectProposal: the refused proposal stays with the node.
RejectAndKeep(p) ==
    /\ p \in proposals /\ p.to \in up
    /\ Answered(p.op, "rejected")
    /\ UNCHANGED <<up, cfg, disk, masters, owed, snapshots, proposals, admitted,
                   crashes, writeFailures, forked, log>>

\* HandleProposeMutation, not master or master without a quorum: the proposer
\* is told so.
RejectProposal(p) ==
    /\ p \in proposals /\ p.to \in up
    /\ proposals' = proposals \ {p}
    /\ Answered(p.op, "rejected")
    /\ UNCHANGED <<up, cfg, disk, masters, owed, snapshots, admitted, crashes,
                   writeFailures, forked, log>>

\* Mutant of Mutated: the version is not bumped.
MutatedInPlace(n, o) == [ver |-> cfg[n].ver, ops |-> cfg[n].ops \union {o}]

Mutated(n, o) == [ver |-> cfg[n].ver + 1, ops |-> cfg[n].ops \union {o}]

\* The histories of a commit at n: it is a fork if something newer is held
\* somewhere; a tail of the log that is held nowhere any more is overwritten.
Chronicled(n, o) ==
    /\ forked' = (forked \/ ~NewestAt(n))
    /\ log' = IF forked' THEN log
              ELSE Append(SubSeq(log, 1, cfg[n].ver), Mutated(n, o).ops)

\* Mutant of Apply: the file is never written.
ApplyUnsaved(n, o) ==
    /\ cfg' = [cfg EXCEPT ![n] = Mutated(n, o)]
    /\ owed' = owed \union {n}
    /\ Answered(o, "applied")
    /\ Chronicled(n, o)
    /\ UNCHANGED <<disk, writeFailures>>

\* Mutate, run by applyLocally: the change and the new version are in memory
\* first.  If the file cannot be written they stay there, and the caller is
\* told of an error.
Apply(n, o) ==
    /\ cfg' = [cfg EXCEPT ![n] = Mutated(n, o)]
    /\ \/ /\ disk' = [disk EXCEPT ![n] = Mutated(n, o)]
          /\ owed' = owed \union {n}
          /\ Answered(o, "applied")
          /\ UNCHANGED writeFailures
       \/ /\ writeFailures < MaxWriteFailures
          /\ writeFailures' = writeFailures + 1
          /\ Answered(o, "failed")
          /\ UNCHANGED <<disk, owed>>
    /\ Chronicled(n, o)

\* applyLocally, second half of both: the node that was found to be master
\* commits, whether or not it still is.
ApplyLocally(a) ==
    /\ a \in admitted
    /\ admitted' = admitted \ {a}
    /\ Apply(a.at, a.op)
    /\ UNCHANGED <<up, masters, snapshots, proposals, crashes>>

\* The call fails on the issuer's side, whether or not it was delivered
\* or is still going to be.  An answer that is lost on the way is not told
\* apart from one that arrives.
ProposeFails(o) ==
    /\ status[o] = "pending"
    /\ status' = [status EXCEPT ![o] = "unknown"]
    /\ UNCHANGED <<up, cfg, disk, masters, owed, snapshots, proposals, admitted,
                   crashes, writeFailures, forked, log>>

\* The request never reaches the handler.
LoseProposal(p) ==
    /\ p \in proposals
    /\ proposals' = proposals \ {p}
    /\ UNCHANGED <<up, cfg, disk, masters, owed, snapshots, admitted, status, crashes,
                   writeFailures, forked, log>>

\* ----------------------------------------------------------- replication
\* broadcast: the configuration as it is now goes to every other node.
Broadcast(n) ==
    /\ n \in owed
    /\ owed' = owed \ {n}
    /\ snapshots' = snapshots \union {[to |-> m, cfg |-> cfg[n]] : m \in Node \ {n}}
    /\ UNCHANGED <<up, cfg, disk, masters, proposals, admitted, status, crashes,
                   writeFailures, forked, log>>

\* Mutant of Pull: one version behind does not count.
PullLate(n, p) ==
    /\ n \in up /\ p \in up
    /\ cfg[p].ver > cfg[n].ver + 1
    /\ snapshots' = snapshots \union {[to |-> n, cfg |-> cfg[p]]}
    /\ UNCHANGED <<up, cfg, disk, masters, owed, proposals, admitted, status,
                   crashes, writeFailures, forked, log>>

\* A heartbeat shows n that p has a greater version, and PullFrom fetches
\* p's configuration (maybeNotifyVersion, HandleGetClusterCfg).
Pull(n, p) ==
    /\ n \in up /\ p \in up
    /\ cfg[p].ver > cfg[n].ver
    /\ snapshots' = snapshots \union {[to |-> n, cfg |-> cfg[p]]}
    /\ UNCHANGED <<up, cfg, disk, masters, owed, proposals, admitted, status,
                   crashes, writeFailures, forked, log>>

\* Mutant of Replace: no version gate.
ReplaceAny(s) ==
    /\ s \in snapshots /\ s.to \in up
    /\ snapshots' = snapshots \ {s}
    /\ cfg' = [cfg EXCEPT ![s.to] = s.cfg]
    /\ disk' = [disk EXCEPT ![s.to] = s.cfg]
    /\ UNCHANGED <<up, masters, owed, proposals, admitted, status, crashes,
                   writeFailures, forked, log>>

\* Replace, from HandleApplyClusterCfg or PullFrom: a snapshot that is not
\* strictly newer is dropped.  A failing write leaves it in memory only.
Replace(s) ==
    /\ s \in snapshots /\ s.to \in up
    /\ snapshots' = snapshots \ {s}
    /\ IF s.cfg.ver <= cfg[s.to].ver
       THEN UNCHANGED <<cfg, disk, writeFailures>>
       ELSE /\ cfg' = [cfg EXCEPT ![s.to] = s.cfg]
            /\ \/ /\ disk' = [disk EXCEPT ![s.to] = s.cfg]
                  /\ UNCHANGED writeFailures
               \/ /\ writeFailures < MaxWriteFailures
                  /\ writeFailures' = writeFailures + 1
                  /\ UNCHANGED disk
    /\ UNCHANGED <<up, masters, owed, proposals, admitted, status, crashes,
                   forked, log>>

\* A push or a pull fails on the way; nobody retries this snapshot.
LoseSnapshot(s) ==
    /\ s \in snapshots
    /\ snapshots' = snapshots \ {s}
    /\ UNCHANGED <<up, cfg, disk, masters, owed, proposals, admitted, status,
                   crashes, writeFailures, forked, log>>

\* ------------------------------------------------------ crash and restart
\* The process dies; only cluster.yaml survives it.
Crash(n) ==
    /\ n \in up
    /\ crashes < MaxCrashes
    /\ crashes' = crashes + 1
    /\ up' = up \ {n}
    /\ masters' = masters \ {n}
    /\ owed' = owed \ {n}
    /\ admitted' = {a \in admitted : a.at # n}
    /\ UNCHANGED <<cfg, disk, snapshots, proposals, status, writeFailures, forked, log>>

\* Mutant of Restart: the file is missing, so the configuration is empty.
RestartEmpty(n) ==
    /\ n \in Node \ up
    /\ up' = up \union {n}
    /\ cfg' = [cfg EXCEPT ![n] = [ver |-> 0, ops |-> {}]]
    /\ UNCHANGED <<disk, masters, owed, snapshots, proposals, admitted, status,
                   crashes, writeFailures, forked, log>>

\* LoadClusterConfig.
Restart(n) ==
    /\ n \in Node \ up
    /\ up' = up \union {n}
    /\ cfg' = [cfg EXCEPT ![n] = disk[n]]
    /\ UNCHANGED <<disk, masters, owed, snapshots, proposals, admitted, status,
                   crashes, writeFailures, forked, log>>

Next ==
    \/ \E n \in Node : BecomeMaster(n) \/ LoseMaster(n) \/ Broadcast(n)
                       \/ Crash(n) \/ Restart(n)
    \/ \E n \in Node, o \in Op : MutateHere(n, o)
    \/ \E n, m \in Node, o \in Op : Propose(n, m, o)
    \/ \E p \in proposals : RejectProposal(p) \/ HandlePropose(p) \/ LoseProposal(p)
    \/ \E a \in admitted : ApplyLocally(a)
    \/ \E o \in Op : Refuse(o) \/ ProposeFails(o)
    \/ \E n, p \in Node : Pull(n, p)
    \/ \E s \in snapshots : Replace(s) \/ LoseSnapshot(s)

\* Heartbeats never stop, so a newer version keeps being noticed; of the
\* pulls that follow, not all are lost.  A process that died is restarted.
Deliver(n) == \E s \in snapshots : s.to = n /\ Replace(s)
Fairness ==
    \A n \in Node : /\ SF_vars(Deliver(n))
                   /\ WF_vars(\E p \in Node : Pull(n, p))
                   /\ WF_vars(Restart(n))

Spec == Init /\ [][Next]_vars
FairSpec == Spec /\ Fairness
----------------------------------------------------------------------------
(* Properties *)

\* docs/architecture.md, catch-up: two nodes at the same version never have
\* different content; here also on disk and on the way (Mutate, Replace).
OneContentPerVersion ==
    \A c, d \in Held : c.ver = d.ver => c.ops = d.ops

\* A fork is the only thing that breaks it: as long as no node has committed
\* while something newer was held, no crash, no write that failed after the
\* memory was changed and no late snapshot gives a version two contents, even
\* where the number of a version that was lost is used again.
OneContentUnlessForked == ~forked => OneContentPerVersion

\* Without a fork a mutation reported as applied is in the newest configuration
\* there is, in memory, on disk or on its way: no crash, no failed write and no
\* catching up takes it back (Mutate's order of saving and answering).
AcknowledgedSurvives ==
    ~forked =>
        \A o \in Op : status[o] = "applied" =>
            \A c \in Held : (\A d \in Held : d.ver <= c.ver) => o \in c.ops

\* A mutation that was refused, for want of a master or a quorum, is in
\* nobody's configuration, unlike one whose write failed
\* (HandleProposeMutation, LocalMutate).
RejectedNeverApplied ==
    \A o \in Op : status[o] = "rejected" => \A c \in Held : o \notin c.ops

\* Once mutations and crashes have stopped, every node ends with the same
\* version, and without a fork with the same configuration, however many
\* broadcasts and pulls were lost.
Converged ==
    \A m, n \in Node : cfg[m].ver = cfg[n].ver /\ (~forked => cfg[m] = cfg[n])
EventuallyConverged == <>[]Converged

\* Until a fork, replication implements the single history of ConfigLog
\* (Mutate, Replace, LoadClusterConfig), failing writes and crashes included.
Abstract == INSTANCE ConfigLog WITH
                mem  <- [n \in Node |-> IF n \in up THEN cfg[n].ver ELSE disk[n].ver],
                file <- [n \in Node |-> disk[n].ver]
ImplementsConfigLog ==
    Abstract!Init /\ [][~forked' => Abstract!Next]_(Abstract!vars)
============================================================================
