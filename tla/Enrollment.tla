----------------------------- MODULE Enrollment -----------------------------
(***************************************************************************)
(* How a host becomes a peer, and who trusts it: the enrollment requests   *)
(* of internal/daemon (handlers.go, control.go), the mutations they make   *)
(* (internal/replicate/replicator.go), the mirror of the peer list in      *)
(* every trust store (daemon.go), and the joiner's own side                *)
(* (internal/cli/enroll.go).                                               *)
(*                                                                         *)
(* A request is served by any node, from that node's own copy of the       *)
(* configuration, and makes one or two mutations at the master; requests   *)
(* of several joiners, the operators' approvals, revocations and removals, *)
(* replication and the mirroring interleave in between.  Replication is    *)
(* the promise of ConfigLog, with one master (module Replication says what *)
(* becomes of it under failovers).                                         *)
(***************************************************************************)
EXTENDS Integers, Sequences, FiniteSets

CONSTANTS
    Node,        \* the nodes of the cluster, which trust each other
    Master,      \* the one that commits
    Joiner,      \* identities that hosts bootstrap in order to join
    Token,       \* token IDs
    None,        \* no claim, no server, no token
    Absent,      \* no such entry in PendingEnrollments
    MaxVersion   \* bound on the committed configurations

ASSUME MasterAssumption == Master \in Node
ASSUME NoneAssumption == /\ None \notin Joiner \union Node \union Token
                         /\ Absent \notin Joiner \union {None}
ASSUME BoundsAssumption == MaxVersion \in Nat \ {0}

VARIABLES
    log,       \* the committed configurations: joiners in Peers, and the
               \* PendingJoin of every token in PendingEnrollments
    view,      \* the version each node holds
    minted,    \* tokens issued so far
    automatic, \* those issued with AutoApprove
    expired,   \* tokens past ExpiresAt
    request,   \* of each joiner: its token, its server, how far the server is
    answer,    \* what the joiner was told
    dirty,     \* nodes that changed their configuration since they mirrored it
    mirror,    \* the peers a node's mirroring has read and not yet added
    trust,     \* the joiners each node trusts
    removing,  \* of each node: the joiner whose trust entry it is to drop
    seeded,    \* joiners whose cluster.yaml is what they made of the answer
    joined,    \* joiners that hold a configuration they are in
    distrusted,\* history: whom an operator has taken from each trust store
               \* and nothing has added again
    admitted   \* history: the token each joiner was admitted by

tokens == <<minted, automatic, expired>>
requests == <<request, answer>>
copies == <<log, view, dirty>>
stores == <<mirror, trust, distrusted, removing>>
hosts == <<seeded, joined>>
vars == <<tokens, requests, copies, stores, hosts, admitted>>

Config == [peers : SUBSET Joiner, claim : [Token -> Joiner \union {None, Absent}]]
Stage == {"none", "check", "record", "approve", "trust", "done"}
Request == [token : Token \union {None}, server : Node \union {None}, stage : Stage]
Answer == {"none", "pending", "accepted", "error"}

TypeOK ==
    /\ log \in Seq(Config) /\ Len(log) \in 1 .. MaxVersion
    /\ view \in [Node -> 1 .. Len(log)] /\ view[Master] = Len(log)
    /\ minted \subseteq Token
    /\ automatic \subseteq minted
    /\ expired \subseteq minted
    /\ request \in [Joiner -> Request]
    /\ answer \in [Joiner -> Answer]
    /\ dirty \subseteq Node
    /\ mirror \in [Node -> SUBSET Joiner]
    /\ trust \in [Node -> SUBSET Joiner]
    /\ removing \in [Node -> Joiner \union {None}]
    /\ seeded \subseteq Joiner
    /\ joined \subseteq Joiner
    /\ distrusted \in [Node -> SUBSET Joiner]
    /\ admitted \in [Joiner -> Token \union {None}]

Init ==
    /\ log = <<[peers |-> {}, claim |-> [t \in Token |-> Absent]]>>
    /\ view = [n \in Node |-> 1]
    /\ minted = {} /\ automatic = {} /\ expired = {}
    /\ request = [j \in Joiner |-> [token |-> None, server |-> None, stage |-> "none"]]
    /\ answer = [j \in Joiner |-> "none"]
    /\ dirty = {}
    /\ mirror = [n \in Node |-> {}]
    /\ trust = [n \in Node |-> {}]
    /\ removing = [n \in Node |-> None]
    /\ seeded = {}
    /\ joined = {}
    /\ distrusted = [n \in Node |-> {}]
    /\ admitted = [j \in Joiner |-> None]

Newest == log[Len(log)]
Copy(n) == log[view[n]]

\* ------------------------------------------------------------- mutations
\* applyLocally and Mutate at the master: a new version, and the mirroring
\* of its peers.
Commit(config) ==
    /\ Len(log) < MaxVersion
    /\ log' = Append(log, config)
    /\ view' = [view EXCEPT ![Master] = Len(log) + 1]
    /\ dirty' = dirty \union {Master}

Refused == UNCHANGED <<log, view, dirty>>

\* add_enrollment.
AddEnrollment(t) == Commit([Newest EXCEPT !.claim[t] = None])

\* Mutant of RecordPending: an entry that is gone is created again.
RecordPendingAnyway(t, j) == Commit([Newest EXCEPT !.claim[t] = j])

\* record_enroll_pending: the last joiner to submit holds the claim.
RecordPending(t, j) ==
    /\ Newest.claim[t] # Absent
    /\ Commit([Newest EXCEPT !.claim[t] = j])

\* Mutant of Approve: whether a joiner has submitted is not asked.
ApproveUnclaimed(t) ==
    LET j == Newest.claim[t] IN
    /\ j # Absent
    /\ Commit([peers |-> Newest.peers \union {j},
               claim |-> [Newest.claim EXCEPT ![t] = Absent]])
    /\ admitted' = IF j \in Joiner THEN [admitted EXCEPT ![j] = t] ELSE admitted

\* approve_enrollment: the joiner that holds the claim becomes a peer and
\* the enrollment goes.
Approve(t) ==
    LET j == Newest.claim[t] IN
    /\ j \in Joiner
    /\ Commit([peers |-> Newest.peers \union {j},
               claim |-> [Newest.claim EXCEPT ![t] = Absent]])
    /\ admitted' = [admitted EXCEPT ![j] = t]

\* remove_enrollment.
RemoveEnrollment(t) ==
    /\ Newest.claim[t] # Absent
    /\ Commit([Newest EXCEPT !.claim[t] = Absent])

\* remove_peer.
RemovePeer(j) ==
    /\ j \in Newest.peers
    /\ Commit([Newest EXCEPT !.peers = @ \ {j}])

\* ------------------------------------------------------------- operators
\* qu enroll create.
EnrollCreate(t) ==
    /\ t \notin minted
    /\ AddEnrollment(t)
    /\ minted' = minted \union {t}
    /\ automatic' \in {automatic, automatic \union {t}}
    /\ UNCHANGED <<expired, requests, stores, hosts, admitted>>

\* qu enroll approve.
EnrollApprove(t) ==
    /\ Approve(t)
    /\ UNCHANGED <<tokens, requests, stores, hosts>>

\* qu enroll revoke.
EnrollRevoke(t) ==
    /\ RemoveEnrollment(t)
    /\ UNCHANGED <<tokens, requests, stores, hosts, admitted>>

\* qu node remove, served by n: the peer goes from the configuration, then
\* from the trust store of n and of no other node.
NodeRemove(n, j) ==
    /\ removing[n] = None
    /\ RemovePeer(j)
    /\ removing' = [removing EXCEPT ![n] = j]
    /\ UNCHANGED <<tokens, requests, mirror, trust, distrusted, hosts, admitted>>

TrustRemove(n) ==
    /\ removing[n] # None
    /\ trust' = [trust EXCEPT ![n] = @ \ {removing[n]}]
    /\ removing' = [removing EXCEPT ![n] = None]
    /\ UNCHANGED <<tokens, requests, copies, mirror, distrusted, hosts, admitted>>

\* qu trust remove, served by n: a standing peer goes from the trust store of n,
\* to which only a later change of the configuration adds it again.
CtrlTrustRemove(n, j) ==
    /\ j \in trust[n]
    /\ trust' = [trust EXCEPT ![n] = @ \ {j}]
    /\ distrusted' = [distrusted EXCEPT ![n] = @ \union {j}]
    /\ UNCHANGED <<tokens, requests, copies, mirror, removing, hosts, admitted>>

\* --------------------------------------------- replication and mirroring
\* Mutant of CatchUp: a replaced configuration is not mirrored.
CatchUpQuietly(n) ==
    /\ \E v \in (view[n] + 1) .. Len(log) : view' = [view EXCEPT ![n] = v]
    /\ UNCHANGED <<tokens, requests, log, dirty, stores, hosts, admitted>>

\* A node takes over a newer configuration.
CatchUp(n) ==
    /\ \E v \in (view[n] + 1) .. Len(log) : view' = [view EXCEPT ![n] = v]
    /\ dirty' = dirty \union {n}
    /\ UNCHANGED <<tokens, requests, log, stores, hosts, admitted>>

\* syncTrustFromCluster reads the peer list ...
SyncRead(n) ==
    /\ n \in dirty /\ mirror[n] = {}
    /\ dirty' = dirty \ {n}
    /\ mirror' = [mirror EXCEPT ![n] = Copy(n).peers]
    /\ UNCHANGED <<tokens, requests, log, view, trust, distrusted, removing, hosts,
                   admitted>>

\* Trust.Add, by n for the joiners of a set.
Trusts(n, set) ==
    /\ trust' = [trust EXCEPT ![n] = @ \union set]
    /\ distrusted' = [distrusted EXCEPT ![n] = @ \ set]

\* ... and adds each peer it does not trust yet; it never removes.
SyncAdd(n) ==
    /\ mirror[n] # {}
    /\ Trusts(n, mirror[n])
    /\ mirror' = [mirror EXCEPT ![n] = {}]
    /\ UNCHANGED <<tokens, requests, copies, removing, hosts, admitted>>

\* --------------------------------------------------------- the enrollment
At(j, stage) == request[j].stage = stage
Goes(j, stage) == request' = [request EXCEPT ![j].stage = stage]

\* The server is done with j, and what it says reaches j if j still waits.
Says(j, word) ==
    /\ Goes(j, "done")
    /\ answer' = IF answer[j] = "none" THEN [answer EXCEPT ![j] = word] ELSE answer

\* qu enroll join: a fresh identity presents a token to one of its endpoints,
\* unless it knows the token to be past its time.
EnrollJoin(j, n, t) ==
    /\ At(j, "none") /\ t \in minted \ expired
    /\ request' = [request EXCEPT ![j] = [token |-> t, server |-> n, stage |-> "check"]]
    /\ UNCHANGED <<tokens, answer, copies, stores, hosts, admitted>>

\* handleEnroll looks the token up in its own copy.
Check(j) ==
    LET t == request[j].token IN
    /\ At(j, "check")
    /\ IF Copy(request[j].server).claim[t] = Absent \/ t \in expired
       THEN Says(j, "error")
       ELSE Goes(j, "record") /\ UNCHANGED answer
    /\ UNCHANGED <<tokens, copies, stores, hosts, admitted>>

\* Mutant of Record: the joiner is trusted before its token is approved.
RecordAndTrust(j) ==
    LET t == request[j].token IN
    /\ At(j, "record")
    /\ \/ RecordPending(t, j) /\ Goes(j, "trust") /\ UNCHANGED answer
       \/ Newest.claim[t] = Absent /\ Refused /\ Says(j, "error")
    /\ UNCHANGED <<tokens, stores, hosts, admitted>>

\* handleEnroll records the joiner under the token ...
Record(j) ==
    LET t == request[j].token IN
    /\ At(j, "record")
    /\ \/ /\ RecordPending(t, j)
          /\ IF t \in automatic THEN Goes(j, "approve") /\ UNCHANGED answer
                               ELSE Says(j, "pending")
       \/ /\ Newest.claim[t] = Absent
          /\ Refused
          /\ Says(j, "error")
    /\ UNCHANGED <<tokens, stores, hosts, admitted>>

\* ... and, if that is automatic, approves the token, whoever holds it ...
AutoApprove(j) ==
    LET t == request[j].token IN
    /\ At(j, "approve")
    /\ \/ Approve(t) /\ Goes(j, "trust") /\ UNCHANGED answer
       \/ /\ Newest.claim[t] \notin Joiner
          /\ Refused
          /\ Says(j, "error")
          /\ UNCHANGED admitted
    /\ UNCHANGED <<tokens, stores, hosts>>

\* ... and trusts the joiner at once and tells it so.
EagerTrust(j) ==
    LET n == request[j].server IN
    /\ At(j, "trust")
    /\ Trusts(n, {j})
    /\ Says(j, "accepted")
    /\ UNCHANGED <<tokens, copies, mirror, removing, hosts, admitted>>

\* A mutation of the request fails, without or in spite of having been
\* applied: there is no quorum, or the master does not answer in time.
MutationFails(j) ==
    LET t == request[j].token IN
    /\ At(j, "record") \/ At(j, "approve")
    /\ \/ Refused /\ UNCHANGED admitted
       \/ At(j, "record") /\ RecordPending(t, j) /\ UNCHANGED admitted
       \/ At(j, "approve") /\ Approve(t)
    /\ Says(j, "error")
    /\ UNCHANGED <<tokens, stores, hosts>>

\* The joiner's call fails; the server goes on.
LoseAnswer(j) ==
    /\ request[j].stage \notin {"none", "done"} /\ answer[j] = "none"
    /\ answer' = [answer EXCEPT ![j] = "error"]
    /\ UNCHANGED <<tokens, request, copies, stores, hosts, admitted>>

\* seedJoinerClusterYaml: the cluster.yaml of a joiner that was told pending or
\* accepted gets its server and what peers it was told.  If that fails, a warning
\* is all that is left of it.
Seed(j) ==
    /\ answer[j] \in {"pending", "accepted"} /\ j \notin seeded \union joined
    /\ seeded' = seeded \union {j}
    /\ UNCHANGED <<tokens, requests, copies, stores, joined, admitted>>

\* j and n trust each other: before it asks, a joiner trusts the server that it
\* asks, and accepted, every peer it was told.
Linked(j, n) ==
    /\ n = request[j].server \/ answer[j] = "accepted"
    /\ j \in trust[n]

\* j serves, having been told pending or accepted; it has seen a newer version in
\* a heartbeat and pulls n's copy.
Pull(j, n) ==
    /\ answer[j] \in {"pending", "accepted"}
    /\ Linked(j, n) /\ j \in Copy(n).peers
    /\ joined' = joined \union {j}
    /\ seeded' = seeded \ {j}
    /\ UNCHANGED <<tokens, requests, copies, stores, admitted>>

\* tick at j: its own heartbeat, to a node its cluster.yaml names.
PullAfterOwn(j) == j \in seeded /\ \E n \in Node : Pull(j, n)


\* tick at n, HandleHeartbeat at j: the heartbeat of a node whose copy has j as a
\* peer carries that node's address.  It arrives even if the seeding has failed.
PullAfterOther(j) == \E n \in Node : Pull(j, n)

\* The token's time runs out.
Expire(t) ==
    /\ t \in minted \ expired
    /\ expired' = expired \union {t}
    /\ UNCHANGED <<minted, automatic, requests, copies, stores, hosts, admitted>>

Handle(j) == Check(j) \/ Record(j) \/ AutoApprove(j) \/ EagerTrust(j)

Next ==
    \/ \E t \in Token :
         \/ EnrollCreate(t) \/ EnrollApprove(t) \/ EnrollRevoke(t) \/ Expire(t)
         \/ \E j \in Joiner, n \in Node : EnrollJoin(j, n, t)
    \/ \E j \in Joiner :
         \/ Handle(j) \/ MutationFails(j) \/ LoseAnswer(j)
         \/ Seed(j) \/ PullAfterOwn(j) \/ PullAfterOther(j)
         \/ \E n \in Node : NodeRemove(n, j) \/ CtrlTrustRemove(n, j)
    \/ \E n \in Node : TrustRemove(n) \/ CatchUp(n) \/ SyncRead(n) \/ SyncAdd(n)

\* Handlers go on; heartbeats bring every node, and the joiners, the newest
\* configuration; a changed configuration is mirrored.  Nothing is assumed
\* of the operators, of the joiners' requests and of the seeding.
Fairness ==
    /\ \A n \in Node : WF_vars(TrustRemove(n)) /\ WF_vars(CatchUp(n))
                       /\ WF_vars(SyncRead(n)) /\ WF_vars(SyncAdd(n))
    /\ \A j \in Joiner : WF_vars(Handle(j))
                         /\ WF_vars(PullAfterOwn(j)) /\ WF_vars(PullAfterOther(j))

Spec == Init /\ [][Next]_vars
FairSpec == Spec /\ Fairness
----------------------------------------------------------------------------
(* Properties *)

\* A node trusts nobody who did not earn it: whoever is in a trust store was
\* admitted by a token, or was served by that very node with an automatic token
\* that has admitted somebody (handleEnroll, syncTrustFromCluster).  A token
\* that an operator has to approve never gives trust before that.
TrustIsEarned ==
    \A n \in Node : \A j \in trust[n] :
        \/ admitted[j] # None
        \/ /\ request[j].server = n /\ request[j].token \in automatic
           /\ \E k \in Joiner : admitted[k] = request[j].token

\* Enrollment implements Admission: however requests served from old copies,
\* approvals, failures and removals overlap, a host becomes a peer by the one
\* step that consumes the token it presented (applyLocally, handleEnroll).
Abstract == INSTANCE Admission WITH
    issued <- minted,
    valid <- {t \in Token : Newest.claim[t] # Absent},
    presented <- [j \in Joiner |-> request[j].token],
    peers <- Newest.peers
ImplementsAdmission == Abstract!Spec

\* Every node ends up trusting every peer, however many versions it skipped,
\* except those that an operator has taken from its store since it last mirrored
\* them (syncTrustFromCluster, CtrlTrustRemove).
PeersGetTrusted ==
    <>[](\A n \in Node : Newest.peers \ distrusted[n] \subseteq trust[n])


\* docs/security.md: with --auto-approve the cluster adds the joiner to the
\* peers before it tells it that it is accepted (handleEnroll).  The code does
\* not keep this: another joiner's claim may be what the approval admits.
AcceptedIsPeer == \A j \in Joiner : answer[j] = "accepted" => admitted[j] # None

\* trust/store.go: replication cannot grant trust on behalf of a node that has
\* not yet trusted the peer.  The code does not keep this: the mirroring of the
\* peer list trusts joiners that no operator of the node has confirmed.
TrustIsLocal ==
    [][\A n \in Node : \A j \in trust'[n] \ trust[n] : request[j].server = n]_vars
=============================================================================
