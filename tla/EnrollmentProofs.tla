-------------------------- MODULE EnrollmentProofs --------------------------
(***************************************************************************)
(* What Enrollment promises for any number of nodes, joiners and tokens:   *)
(* the types; that a token admits one joiner at most, and never comes back *)
(* to life; that it implements Admission; and who may be trusted.  In the  *)
(* end, that a trust store keeps what it is given (TrustStore).            *)
(***************************************************************************)
EXTENDS Enrollment, TLAPS

\* The variables, by whom they belong to.
USE DEF requests, copies, stores, hosts

\* The part of the types the argument needs.
Typed ==
    /\ log \in Seq(Config) /\ Len(log) \in Nat /\ Len(log) > 0
    /\ Newest \in Config
    /\ minted \subseteq Token
    /\ request \in [Joiner -> Request]
    /\ \A j \in Joiner : request[j].stage # "none" => request[j].token \in Token
    /\ admitted \in [Joiner -> Token \union {None}]

\* A token that admitted somebody was issued, and is gone.
Spent ==
    \A j \in Joiner : admitted[j] # None
                        => admitted[j] \in minted /\ Newest.claim[admitted[j]] = Absent

\* An entry is there only for a token that was issued.
Issued == \A t \in Token : Newest.claim[t] # Absent => t \in minted

\* docs/security.md: a token is single-use.  It admits one joiner at most,
\* whatever requests, approvals and failures overlap (applyLocally's
\* approve_enrollment, handleEnroll).
SingleUse ==
    \A j, k \in Joiner : admitted[j] = admitted[k] /\ admitted[j] # None => j = k

IInv == Typed /\ Spent /\ Issued /\ SingleUse

\* What a commit makes the newest configuration.
LEMMA CommitFacts ==
    ASSUME Typed, NEW config \in Config, Commit(config)
    PROVE  /\ log' \in Seq(Config) /\ Len(log') \in Nat /\ Len(log') > 0
           /\ Newest' = config
           /\ log' = Append(log, config)
<1>1. log' = Append(log, config)
  BY DEF Commit
<1>2. Len(log') = Len(log) + 1 /\ log' \in Seq(Config)
  BY <1>1 DEF Typed
<1>3. log'[Len(log')] = config
  BY <1>1, <1>2 DEF Typed
<1> QED
  BY <1>1, <1>2, <1>3 DEF Typed, Newest

\* What each mutation changes, and what it leaves (applyLocally).
LEMMA AddEnrollmentFacts ==
    ASSUME IInv, NEW t \in Token, AddEnrollment(t)
    PROVE  /\ log' \in Seq(Config) /\ Len(log') \in Nat /\ Len(log') > 0
           /\ Newest' \in Config
           /\ \A u \in Token : u # t => Newest'.claim[u] = Newest.claim[u]
           /\ Newest'.claim[t] = None /\ Newest'.peers = Newest.peers
<1> DEFINE c == [Newest EXCEPT !.claim[t] = None]
<1>1. c \in Config
  BY DEF IInv, Typed, Config
<1>2. /\ \A u \in Token : u # t => c.claim[u] = Newest.claim[u]
      /\ c.claim[t] = None /\ c.peers = Newest.peers
  BY DEF IInv, Typed, Config
<1>3. Commit(c)
  BY DEF AddEnrollment
<1> HIDE DEF c
<1> QED
  BY <1>1, <1>2, <1>3, CommitFacts DEF IInv

LEMMA RecordFacts ==
    ASSUME IInv, NEW t \in Token, NEW j \in Joiner, RecordPending(t, j)
    PROVE  /\ log' \in Seq(Config) /\ Len(log') \in Nat /\ Len(log') > 0
           /\ Newest' \in Config
           /\ \A u \in Token : Newest.claim[u] = Absent => Newest'.claim[u] = Absent
           /\ Newest.claim[t] # Absent
           /\ \A u \in Token : Newest'.claim[u] = IF u = t THEN j ELSE Newest.claim[u]
           /\ Newest'.peers = Newest.peers
<1> DEFINE c == [Newest EXCEPT !.claim[t] = j]
<1>1. c \in Config
  BY DEF IInv, Typed, Config
<1>2. /\ \A u \in Token : c.claim[u] = IF u = t THEN j ELSE Newest.claim[u]
      /\ c.peers = Newest.peers
  BY DEF IInv, Typed, Config
<1>3. Commit(c) /\ Newest.claim[t] # Absent
  BY DEF RecordPending
<1> HIDE DEF c
<1> QED
  BY <1>1, <1>2, <1>3, CommitFacts DEF IInv

LEMMA ApproveFacts ==
    ASSUME IInv, NEW t \in Token, Approve(t)
    PROVE  /\ log' \in Seq(Config) /\ Len(log') \in Nat /\ Len(log') > 0
           /\ Newest' \in Config
           /\ \A u \in Token : Newest.claim[u] = Absent => Newest'.claim[u] = Absent
           /\ Newest.claim[t] # Absent /\ Newest'.claim[t] = Absent
           /\ Newest.claim[t] \in Joiner
           /\ admitted' = [admitted EXCEPT ![Newest.claim[t]] = t]
           /\ \A u \in Token : u # t => Newest'.claim[u] = Newest.claim[u]
           /\ Newest'.peers = Newest.peers \union {Newest.claim[t]}
<1> DEFINE j == Newest.claim[t]
           c == [peers |-> Newest.peers \union {j}, claim |-> [Newest.claim EXCEPT ![t] = Absent]]
<1>0. j \in Joiner /\ j # Absent
  BY NoneAssumption DEF Approve
<1>1. c \in Config
  BY <1>0 DEF IInv, Typed, Config
<1>2. /\ c.claim[t] = Absent
      /\ \A u \in Token : u # t => c.claim[u] = Newest.claim[u]
      /\ c.peers = Newest.peers \union {j}
  BY DEF IInv, Typed, Config
<1>3. Commit(c) /\ admitted' = [admitted EXCEPT ![j] = t]
  BY DEF Approve
<1>4. Newest' = c /\ log' \in Seq(Config) /\ Len(log') \in Nat /\ Len(log') > 0
  <2> HIDE DEF c, j
  <2> QED BY <1>1, <1>3, CommitFacts DEF IInv
<1> QED
  BY <1>0, <1>1, <1>2, <1>3, <1>4

LEMMA RemoveFacts ==
    ASSUME IInv, NEW t \in Token, RemoveEnrollment(t)
    PROVE  /\ log' \in Seq(Config) /\ Len(log') \in Nat /\ Len(log') > 0
           /\ Newest' \in Config
           /\ \A u \in Token : Newest.claim[u] = Absent => Newest'.claim[u] = Absent
           /\ Newest.claim[t] # Absent
           /\ \A u \in Token : Newest'.claim[u] = IF u = t THEN Absent ELSE Newest.claim[u]
           /\ Newest'.peers = Newest.peers
<1> DEFINE c == [Newest EXCEPT !.claim[t] = Absent]
<1>1. c \in Config
  BY DEF IInv, Typed, Config
<1>2. /\ \A u \in Token : c.claim[u] = IF u = t THEN Absent ELSE Newest.claim[u]
      /\ c.peers = Newest.peers
  BY DEF IInv, Typed, Config
<1>3. Commit(c) /\ Newest.claim[t] # Absent
  BY DEF RemoveEnrollment
<1> HIDE DEF c
<1> QED
  BY <1>1, <1>2, <1>3, CommitFacts DEF IInv

LEMMA RemovePeerFacts ==
    ASSUME IInv, NEW j \in Joiner, RemovePeer(j)
    PROVE  /\ log' \in Seq(Config) /\ Len(log') \in Nat /\ Len(log') > 0
           /\ Newest' \in Config
           /\ Newest'.claim = Newest.claim
           /\ j \in Newest.peers /\ Newest'.peers = Newest.peers \ {j}
<1> DEFINE c == [Newest EXCEPT !.peers = @ \ {j}]
<1>1. c \in Config /\ c.claim = Newest.claim /\ c.peers = Newest.peers \ {j}
  BY DEF IInv, Typed, Config
<1>2. Commit(c) /\ j \in Newest.peers
  BY DEF RemovePeer
<1> HIDE DEF c
<1> QED
  BY <1>1, <1>2, CommitFacts DEF IInv

-----------------------------------------------------------------------------
LEMMA InitIInv == Init => IInv
<1> SUFFICES ASSUME Init PROVE IInv
  OBVIOUS
<1> DEFINE c == [peers |-> {}, claim |-> [t \in Token |-> Absent]]
<1>1. c \in Config
  BY DEF Config
<1>2. log = <<c>>
  BY DEF Init
<1>3. log \in Seq(Config) /\ Len(log) = 1 /\ log[1] = c
  <2> HIDE DEF c
  <2> QED BY <1>1, <1>2
<1>4. Typed
  <2> HIDE DEF c
  <2>1. Newest = c
    BY <1>3 DEF Newest
  <2>2. request \in [Joiner -> Request]
    BY DEF Init, Request, Stage
  <2> QED
    BY <1>1, <1>3, <2>1, <2>2 DEF Typed, Init
<1> QED
  BY <1>1, <1>3, <1>4 DEF IInv, Spent, Issued, SingleUse, Init, Newest

\* The request table: whoever is being served named a token.
Served == /\ request \in [Joiner -> Request]
          /\ \A j \in Joiner : request[j].stage # "none" => request[j].token \in Token

LEMMA ServedStep ==
    ASSUME Served, [Next]_vars
    PROVE  Served'
<1>1. ASSUME NEW j \in Joiner, NEW stage \in Stage, Goes(j, stage),
             request[j].stage # "none"
      PROVE  Served'
  <2>1. /\ request[j].token \in Token /\ request[j] \in Request
        /\ request' = [request EXCEPT ![j] = [request[j] EXCEPT !.stage = stage]]
    BY <1>1 DEF Served, Goes
  <2>2. /\ [request[j] EXCEPT !.stage = stage] \in Request
        /\ [request[j] EXCEPT !.stage = stage].token \in Token
    BY <2>1 DEF Request
  <2> QED
    BY <2>1, <2>2 DEF Served
<1>2. ASSUME NEW t \in Token, NEW j \in Joiner, NEW n \in Node, EnrollJoin(j, n, t)
      PROVE  Served'
  BY <1>2 DEF Served, EnrollJoin, Request, Stage
<1>3. ASSUME NEW j \in Joiner, Handle(j) \/ MutationFails(j)
      PROVE  Served'
  <2>1. request[j].stage # "none"
    BY <1>3 DEF Handle, MutationFails, Check, Record, AutoApprove, EagerTrust, At
  <2>2. \E stage \in Stage : Goes(j, stage)
    BY <1>3 DEF Handle, MutationFails, Check, Record, AutoApprove, EagerTrust, Says,
       Stage
  <2> QED
    BY <1>1, <2>1, <2>2
<1>4. CASE UNCHANGED request
  BY <1>4 DEF Served
<1> QED
  BY <1>2, <1>3, <1>4
  DEF Next, EnrollCreate, EnrollApprove, EnrollRevoke, Expire, LoseAnswer, Pull,
      PullAfterOwn, PullAfterOther, Seed, CtrlTrustRemove, NodeRemove, TrustRemove,
      CatchUp, SyncRead, SyncAdd, vars

-----------------------------------------------------------------------------
\* What a step may not do: revive a token that was issued and is gone.
NoRevival == \A t \in minted : Newest.claim[t] = Absent => Newest'.claim[t] = Absent

\* The steps that admit nobody and create no entry.
LEMMA QuietStep ==
    ASSUME IInv, [Next]_vars,
           log' \in Seq(Config) /\ Len(log') \in Nat /\ Len(log') > 0,
           Newest' \in Config,
           \A u \in Token : Newest.claim[u] = Absent => Newest'.claim[u] = Absent,
           UNCHANGED <<minted, admitted>>
    PROVE  IInv' /\ NoRevival
<1>1. Typed'
  BY ServedStep DEF IInv, Typed, Served
<1> QED
  BY <1>1 DEF IInv, Typed, Spent, Issued, SingleUse, NoRevival

\* The steps that leave the configurations alone.
LEMMA IdleStep ==
    ASSUME IInv, [Next]_vars, UNCHANGED <<log, minted, admitted>>
    PROVE  IInv' /\ NoRevival
<1>1. Newest' = Newest
  BY DEF Newest
<1> QED
  BY <1>1, QuietStep DEF IInv, Typed

\* The steps that admit the joiner that holds the claim.
LEMMA AdmittingStep ==
    ASSUME IInv, [Next]_vars, NEW t \in Token, Approve(t), UNCHANGED minted
    PROVE  IInv' /\ NoRevival
<1> DEFINE j == Newest.claim[t]
<1>1. /\ log' \in Seq(Config) /\ Len(log') \in Nat /\ Len(log') > 0 /\ Newest' \in Config
      /\ \A u \in Token : Newest.claim[u] = Absent => Newest'.claim[u] = Absent
      /\ j # Absent /\ Newest'.claim[t] = Absent /\ j \in Joiner
      /\ admitted' = [admitted EXCEPT ![j] = t]
  BY ApproveFacts
<1> HIDE DEF j
<1>2. Typed'
  BY <1>1, ServedStep DEF IInv, Typed, Served
<1>3. t \in minted /\ \A k \in Joiner : admitted[k] # t
  <2>1. t # None
    BY NoneAssumption
  <2> QED
    BY <1>1, <2>1 DEF IInv, Issued, Spent, j
<1>4. Spent' /\ SingleUse'
  BY <1>1, <1>3 DEF IInv, Typed, Spent, SingleUse
<1>5. Issued' /\ NoRevival
  BY <1>1 DEF IInv, Typed, Issued, NoRevival
<1> QED
  BY <1>2, <1>4, <1>5 DEF IInv

LEMMA CreatingStep ==
    ASSUME IInv, [Next]_vars, NEW t \in Token, EnrollCreate(t)
    PROVE  IInv' /\ NoRevival
<1>1. /\ log' \in Seq(Config) /\ Len(log') \in Nat /\ Len(log') > 0 /\ Newest' \in Config
      /\ \A u \in Token : u # t => Newest'.claim[u] = Newest.claim[u]
  BY AddEnrollmentFacts DEF EnrollCreate
<1>2. t \notin minted /\ minted' = minted \union {t} /\ UNCHANGED admitted
  BY DEF EnrollCreate
<1>3. Typed'
  BY <1>1, <1>2, ServedStep DEF IInv, Typed, Served
<1>4. Spent' /\ SingleUse'
  BY <1>1, <1>2 DEF IInv, Typed, Spent, SingleUse
<1>5. Issued' /\ NoRevival
  BY <1>1, <1>2 DEF IInv, Typed, Issued, NoRevival
<1> QED
  BY <1>3, <1>4, <1>5 DEF IInv

LEMMA Step ==
    ASSUME IInv, [Next]_vars
    PROVE  IInv' /\ NoRevival
<1>1. ASSUME NEW t \in Token, EnrollCreate(t)
      PROVE  IInv' /\ NoRevival
  BY <1>1, CreatingStep
<1>2. ASSUME NEW t \in Token, EnrollApprove(t)
      PROVE  IInv' /\ NoRevival
  BY <1>2, AdmittingStep DEF EnrollApprove, tokens
<1>3. ASSUME NEW t \in Token, EnrollRevoke(t)
      PROVE  IInv' /\ NoRevival
  BY <1>3, RemoveFacts, QuietStep DEF EnrollRevoke, tokens
<1>4. ASSUME NEW j \in Joiner, NEW n \in Node, NodeRemove(n, j)
      PROVE  IInv' /\ NoRevival
  BY <1>4, RemovePeerFacts, QuietStep DEF NodeRemove, tokens
<1>5. ASSUME NEW j \in Joiner, Record(j)
      PROVE  IInv' /\ NoRevival
  <2>1. request[j].token \in Token /\ UNCHANGED <<minted, admitted>>
    BY <1>5 DEF Record, At, IInv, Typed, tokens
  <2>2. CASE RecordPending(request[j].token, j)
    BY <2>1, <2>2, RecordFacts, QuietStep
  <2>3. CASE Refused
    BY <2>1, <2>3, IdleStep DEF Refused
  <2> QED
    BY <1>5, <2>2, <2>3 DEF Record
<1>6. ASSUME NEW j \in Joiner, AutoApprove(j)
      PROVE  IInv' /\ NoRevival
  <2>1. request[j].token \in Token /\ UNCHANGED minted
    BY <1>6 DEF AutoApprove, At, IInv, Typed, tokens
  <2>2. CASE Approve(request[j].token)
    BY <2>1, <2>2, AdmittingStep
  <2>3. CASE Refused /\ UNCHANGED admitted
    BY <2>1, <2>3, IdleStep DEF Refused
  <2> QED
    BY <1>6, <2>2, <2>3 DEF AutoApprove
<1>7. ASSUME NEW j \in Joiner, MutationFails(j)
      PROVE  IInv' /\ NoRevival
  <2>1. request[j].token \in Token /\ UNCHANGED minted
    BY <1>7 DEF MutationFails, At, IInv, Typed, tokens
  <2>2. CASE RecordPending(request[j].token, j) /\ UNCHANGED admitted
    BY <2>1, <2>2, RecordFacts, QuietStep
  <2>3. CASE Approve(request[j].token)
    BY <2>1, <2>3, AdmittingStep
  <2>4. CASE Refused /\ UNCHANGED admitted
    BY <2>1, <2>4, IdleStep DEF Refused
  <2> QED
    BY <1>7, <2>2, <2>3, <2>4 DEF MutationFails
<1>8. ASSUME UNCHANGED <<log, minted, admitted>>
      PROVE  IInv' /\ NoRevival
  BY <1>8, IdleStep
<1> QED
  BY <1>1, <1>2, <1>3, <1>4, <1>5, <1>6, <1>7, <1>8
  DEF Next, Handle, Check, EagerTrust, EnrollJoin, Expire, LoseAnswer, Pull,
      PullAfterOwn, PullAfterOther, Seed, CtrlTrustRemove, TrustRemove, CatchUp,
      SyncRead, SyncAdd, vars, tokens

-----------------------------------------------------------------------------
\* A token admits one joiner at most, however requests, approvals, failures
\* and stale copies of the configuration overlap (approve_enrollment).
THEOREM SingleUseTheorem == Spec => []SingleUse
<1>1. IInv => SingleUse
  BY DEF IInv
<1> QED
  BY <1>1, InitIInv, Step, PTL DEF Spec

\* A token that is consumed or revoked never becomes valid again, although
\* requests that found it in an older copy of the configuration are still
\* under way (handleEnroll, record_enroll_pending).
THEOREM DeadTokensTheorem == Spec => [][NoRevival]_vars
<1>1. IInv /\ [Next]_vars => [NoRevival]_vars
  BY Step
<1> QED
  BY <1>1, InitIInv, Step, PTL DEF Spec

-----------------------------------------------------------------------------
(* The types.                                                              *)

\* The copies of the configuration, none of which is ahead of the master's.
Versions ==
    /\ Len(log) \in 1 .. MaxVersion
    /\ view \in [Node -> 1 .. Len(log)]
    /\ view[Master] = Len(log)
    /\ dirty \subseteq Node

\* The rest of the type invariant.
Rest ==
    /\ automatic \subseteq minted
    /\ expired \subseteq minted
    /\ answer \in [Joiner -> Answer]
    /\ mirror \in [Node -> SUBSET Joiner]
    /\ trust \in [Node -> SUBSET Joiner]
    /\ removing \in [Node -> Joiner \union {None}]
    /\ seeded \subseteq Joiner
    /\ joined \subseteq Joiner
    /\ distrusted \in [Node -> SUBSET Joiner]

\* A commit moves the master's copy along with the log.
LEMMA CommitVersions ==
    ASSUME Typed, Versions, NEW config, Commit(config)
    PROVE  Versions'
<1>1. log \in Seq(Config) /\ Len(log) \in Nat
  BY DEF Typed
<1>2. Len(log') = Len(log) + 1 /\ Len(log') \in 1 .. MaxVersion
  BY <1>1, BoundsAssumption DEF Commit, Versions
<1>3. view' \in [Node -> 1 .. Len(log')] /\ view'[Master] = Len(log')
  BY <1>1, <1>2, MasterAssumption DEF Commit, Versions
<1> QED
  BY <1>2, <1>3, MasterAssumption DEF Commit, Versions

\* Every mutation is a commit.
LEMMA MutationCommits ==
    ASSUME NEW t, NEW j,
           \/ AddEnrollment(t) \/ RecordPending(t, j) \/ Approve(t)
           \/ RemoveEnrollment(t) \/ RemovePeer(j)
    PROVE  \E config : Commit(config)
  BY DEF AddEnrollment, RecordPending, Approve, RemoveEnrollment, RemovePeer

LEMMA VersionsStep ==
    ASSUME IInv, Versions, [Next]_vars
    PROVE  Versions'
<1>1. Typed
  BY DEF IInv
<1>2. ASSUME NEW t, NEW j,
             \/ AddEnrollment(t) \/ RecordPending(t, j) \/ Approve(t)
             \/ RemoveEnrollment(t) \/ RemovePeer(j)
      PROVE  Versions'
  BY <1>1, <1>2, MutationCommits, CommitVersions
<1>3. CASE UNCHANGED <<log, view>> /\ dirty' \subseteq dirty
  BY <1>3 DEF Versions
<1>4. ASSUME NEW n \in Node, CatchUp(n)
      PROVE  Versions'
  <2>1. PICK v \in (view[n] + 1) .. Len(log) : view' = [view EXCEPT ![n] = v]
    BY <1>4 DEF CatchUp
  <2>2. view[n] \in 1 .. Len(log) /\ Len(log) \in Nat
    BY <1>1 DEF Versions, Typed
  <2>3. v \in 1 .. Len(log) /\ n # Master
    BY <2>1, <2>2 DEF Versions
  <2>4. log' = log /\ dirty' = dirty \union {n}
    BY <1>4 DEF CatchUp
  <2> QED
    BY <2>1, <2>3, <2>4 DEF Versions
<1>5. ASSUME NEW t \in Token,
             EnrollCreate(t) \/ EnrollApprove(t) \/ EnrollRevoke(t)
      PROVE  Versions'
  BY <1>2, <1>5 DEF EnrollCreate, EnrollApprove, EnrollRevoke
<1>6. ASSUME NEW j \in Joiner, Record(j) \/ AutoApprove(j) \/ MutationFails(j)
      PROVE  Versions'
  BY <1>2, <1>3, <1>6 DEF Record, AutoApprove, MutationFails, Refused
<1>7. ASSUME NEW n \in Node, NEW j \in Joiner, NodeRemove(n, j)
      PROVE  Versions'
  BY <1>2, <1>7 DEF NodeRemove
<1>8. ASSUME NEW n \in Node,
             \/ TrustRemove(n) \/ SyncRead(n) \/ SyncAdd(n)
             \/ \E j \in Joiner : CtrlTrustRemove(n, j)
      PROVE  Versions'
  BY <1>3, <1>8 DEF TrustRemove, SyncRead, SyncAdd, CtrlTrustRemove
<1>9. ASSUME NEW j \in Joiner, Check(j) \/ EagerTrust(j) \/ LoseAnswer(j)
                                   \/ Seed(j) \/ PullAfterOwn(j) \/ PullAfterOther(j)
      PROVE  Versions'
  BY <1>3, <1>9 DEF Check, EagerTrust, LoseAnswer, Pull, PullAfterOwn, PullAfterOther,
     Seed, CtrlTrustRemove
<1>10. ASSUME NEW t \in Token,
              Expire(t) \/ \E j \in Joiner, n \in Node : EnrollJoin(j, n, t)
       PROVE  Versions'
  BY <1>3, <1>10 DEF Expire, EnrollJoin
<1>11. CASE UNCHANGED vars
  BY <1>3, <1>11 DEF vars
<1> QED
  BY <1>4, <1>5, <1>6, <1>7, <1>8, <1>9, <1>10, <1>11 DEF Next, Handle

LEMMA SaysTyped ==
    ASSUME Rest, NEW j \in Joiner, NEW word \in Answer, Says(j, word)
    PROVE  answer' \in [Joiner -> Answer]
  BY DEF Says, Rest

LEMMA RestStep ==
    ASSUME IInv, Versions, Rest, [Next]_vars
    PROVE  Rest'
<1>1. {"none", "pending", "accepted", "error"} = Answer
  BY DEF Answer
<1>2. ASSUME NEW t \in Token,
             EnrollCreate(t) \/ EnrollApprove(t) \/ EnrollRevoke(t) \/ Expire(t)
      PROVE  Rest'
  BY <1>2 DEF EnrollCreate, EnrollApprove, EnrollRevoke, Expire, tokens, Rest
<1>3. ASSUME NEW j \in Joiner, Check(j) \/ Record(j) \/ AutoApprove(j) \/ MutationFails(j)
      PROVE  Rest'
  <2>1. \/ UNCHANGED answer
        \/ \E word \in Answer : Says(j, word)
    BY <1>1, <1>3 DEF Check, Record, AutoApprove, MutationFails
  <2>2. answer' \in [Joiner -> Answer]
    BY <2>1, SaysTyped DEF Rest
  <2> QED
    BY <1>3, <2>2 DEF Check, Record, AutoApprove, MutationFails, tokens, Rest
<1>4. ASSUME NEW j \in Joiner, EagerTrust(j) \/ LoseAnswer(j)
      PROVE  Rest'
  BY <1>1, <1>4, SaysTyped DEF EagerTrust, Trusts, LoseAnswer, tokens, Rest
<1>5. ASSUME NEW j \in Joiner,
             \/ Seed(j) \/ PullAfterOwn(j) \/ PullAfterOther(j)
             \/ \E n \in Node, t \in Token : EnrollJoin(j, n, t)
      PROVE  Rest'
  BY <1>5 DEF Pull, PullAfterOwn, PullAfterOther, Seed, CtrlTrustRemove, EnrollJoin,
     tokens, Rest
<1>6. ASSUME NEW j \in Joiner, NEW n \in Node, NodeRemove(n, j)
      PROVE  Rest'
  BY <1>6 DEF NodeRemove, tokens, Rest
<1>7. ASSUME NEW n \in Node,
             \/ TrustRemove(n) \/ CatchUp(n) \/ SyncAdd(n)
             \/ \E j \in Joiner : CtrlTrustRemove(n, j)
      PROVE  Rest'
  BY <1>7 DEF TrustRemove, CatchUp, SyncAdd, CtrlTrustRemove, Trusts, tokens, Rest
<1>8. ASSUME NEW n \in Node, SyncRead(n)
      PROVE  Rest'
  <2>1. Copy(n) \in Config
    BY DEF Copy, Versions, IInv, Typed
  <2>2. Copy(n).peers \subseteq Joiner
    BY <2>1 DEF Config
  <2> QED
    BY <1>8, <2>2 DEF SyncRead, tokens, Rest
<1>9. CASE UNCHANGED vars
  BY <1>9 DEF vars, tokens, Rest
<1> QED
  BY <1>2, <1>3, <1>4, <1>5, <1>6, <1>7, <1>8, <1>9 DEF Next, Handle

\* Every variable keeps its type; in particular no copy of the configuration
\* is ahead of the master's (applyLocally).
THEOREM TypeCorrect == Spec => []TypeOK
<1>1. Init => Versions /\ Rest
  BY MasterAssumption, BoundsAssumption DEF Init, Versions, Rest, Answer
<1>2. IInv /\ Versions /\ Rest /\ [Next]_vars => Versions' /\ Rest'
  BY VersionsStep, RestStep
<1>3. IInv /\ Versions /\ Rest => TypeOK
  BY DEF IInv, Typed, Versions, Rest, TypeOK
<1> QED
  BY <1>1, <1>2, <1>3, InitIInv, Step, PTL DEF Spec

-----------------------------------------------------------------------------
(* Enrollment implements Admission.                                        *)

\* A claim, and an admission, is of a joiner that presented that very token.
Presented ==
    /\ \A j \in Joiner : request[j].stage = "none" => request[j].token = None
    /\ \A j \in Joiner : admitted[j] # None => request[j].token = admitted[j]
    /\ \A t \in Token, j \in Joiner : Newest.claim[t] = j => request[j].token = t

\* Only qu enroll join gives a request its token.
KeepTokens ==
    \A j \in Joiner : /\ request'[j].token = request[j].token
                      /\ request'[j].stage = "none" => request[j].stage = "none"

LEMMA GoesKeepsTokens ==
    ASSUME Served, NEW j \in Joiner, NEW stage, stage # "none", Goes(j, stage)
    PROVE  KeepTokens
<1>1. request' = [request EXCEPT ![j] = [request[j] EXCEPT !.stage = stage]]
  BY DEF Goes
<1>2. request[j] \in Request
  BY DEF Served
<1>3. /\ [request[j] EXCEPT !.stage = stage].token = request[j].token
      /\ [request[j] EXCEPT !.stage = stage].stage = stage
  BY <1>2 DEF Request
<1> QED
  BY <1>1, <1>3 DEF Served, KeepTokens

LEMMA TokensKept ==
    ASSUME Served, [Next]_vars,
           ~(\E t \in Token, j \in Joiner, n \in Node : EnrollJoin(j, n, t))
    PROVE  KeepTokens
<1>1. ASSUME NEW j \in Joiner, Handle(j) \/ MutationFails(j)
      PROVE  KeepTokens
  <2>1. \E stage : stage # "none" /\ Goes(j, stage)
    BY <1>1 DEF Handle, MutationFails, Check, Record, AutoApprove, EagerTrust, Says
  <2> QED
    BY <2>1, GoesKeepsTokens
<1>2. CASE UNCHANGED request
  BY <1>2 DEF KeepTokens
<1> QED
  BY <1>1, <1>2
  DEF Next, EnrollCreate, EnrollApprove, EnrollRevoke, Expire, LoseAnswer, Pull,
      PullAfterOwn, PullAfterOther, Seed, CtrlTrustRemove, NodeRemove, TrustRemove,
      CatchUp, SyncRead, SyncAdd, vars

\* What the abstract specification sees of a state.
Valid == {t \in Token : Newest.claim[t] # Absent}
Tokens == [j \in Joiner |-> request[j].token]

LEMMA AbstractVars ==
    ASSUME KeepTokens, Valid' = Valid, UNCHANGED <<minted, admitted>>,
           Newest'.peers = Newest.peers
    PROVE  UNCHANGED Abstract!vars
<1>1. Tokens' = Tokens
  BY DEF KeepTokens, Tokens
<1> QED
  BY <1>1 DEF Abstract!vars, Tokens, Valid

\* The steps that leave the configurations alone.
LEMMA IdleAdmission ==
    ASSUME Presented, KeepTokens, UNCHANGED <<log, minted, admitted>>
    PROVE  Presented' /\ [Abstract!Next]_Abstract!vars
<1>1. Newest' = Newest /\ Valid' = Valid
  BY DEF Newest, Valid
<1>2. Presented'
  BY <1>1 DEF Presented, KeepTokens
<1> QED
  BY <1>1, <1>2, AbstractVars

\* record_enroll_pending only moves the claim.
LEMMA RecordAdmission ==
    ASSUME IInv, Presented, KeepTokens, NEW t \in Token, NEW j \in Joiner,
           RecordPending(t, j), request[j].token = t, UNCHANGED <<minted, admitted>>
    PROVE  Presented' /\ [Abstract!Next]_Abstract!vars
<1>1. /\ Newest.claim[t] # Absent /\ Newest'.peers = Newest.peers
      /\ \A u \in Token : Newest'.claim[u] = IF u = t THEN j ELSE Newest.claim[u]
  BY RecordFacts
<1>2. j # Absent
  BY NoneAssumption
<1>3. Valid' = Valid
  BY <1>1, <1>2 DEF Valid
<1>4. Presented'
  BY <1>1 DEF Presented, KeepTokens
<1> QED
  BY <1>1, <1>3, <1>4, AbstractVars

\* approve_enrollment is the abstract admission.
LEMMA ApproveAdmission ==
    ASSUME IInv, Presented, KeepTokens, NEW t \in Token, Approve(t), UNCHANGED minted
    PROVE  Presented' /\ [Abstract!Next]_Abstract!vars
<1> DEFINE j == Newest.claim[t]
<1>1. /\ j \in Joiner /\ j # Absent /\ Newest'.claim[t] = Absent
      /\ \A u \in Token : u # t => Newest'.claim[u] = Newest.claim[u]
      /\ Newest'.peers = Newest.peers \union {j}
      /\ admitted' = [admitted EXCEPT ![j] = t]
  BY ApproveFacts
<1>2. request[j].token = t
  BY <1>1 DEF Presented
<1> HIDE DEF j
<1>3. admitted[j] = None
  <2>1. admitted[j] # None => Newest.claim[t] = Absent
    BY <1>1, <1>2 DEF IInv, Spent, Presented
  <2> QED
    BY <1>1, <2>1 DEF j
<1>4. Presented'
  <2>1. Absent \notin Joiner
    BY NoneAssumption
  <2> QED
    BY <1>1, <1>2, <2>1 DEF Presented, KeepTokens, IInv, Typed
<1>5. t \in Valid /\ Valid' = Valid \ {t}
  BY <1>1 DEF Valid, j
<1>6. Tokens' = Tokens /\ Tokens[j] = t
  BY <1>1, <1>2 DEF Tokens, KeepTokens
<1>7. Abstract!Admit(j, t)
  BY <1>1, <1>3, <1>5, <1>6 DEF Abstract!Admit, Valid, Tokens
<1> QED
  BY <1>1, <1>4, <1>7 DEF Abstract!Next

\* Every step keeps what was presented, and is a step of Admission.
LEMMA AdmissionStep ==
    ASSUME IInv, Presented, [Next]_vars
    PROVE  Presented' /\ [Abstract!Next]_Abstract!vars
<1>1. Served
  BY DEF IInv, Typed, Served
<1>2. ASSUME NEW t \in Token, NEW j \in Joiner, NEW n \in Node, EnrollJoin(j, n, t)
      PROVE  Presented' /\ [Abstract!Next]_Abstract!vars
  <2>1. /\ request[j].stage = "none" /\ t \in minted
        /\ request' = [request EXCEPT ![j] =
                         [token |-> t, server |-> n, stage |-> "check"]]
        /\ UNCHANGED <<log, minted, admitted>>
    BY <1>2 DEF EnrollJoin, At, tokens
  <2>2. Newest' = Newest /\ Valid' = Valid
    BY <2>1 DEF Newest, Valid
  <2>3. request[j].token = None
    BY <2>1 DEF Presented
  <2>4. \A i \in Joiner : request'[i] = IF i = j THEN [token |-> t, server |-> n,
                                                       stage |-> "check"]
                                        ELSE request[i]
    BY <1>1, <2>1 DEF Served
  <2>5. admitted[j] = None /\ \A u \in Token : Newest.claim[u] # j
    <3>1. \A u \in Token : u # None
      BY NoneAssumption
    <3>2. admitted[j] \in Token \union {None}
      BY DEF IInv, Typed
    <3> QED
      BY <2>3, <3>1, <3>2 DEF Presented
  <2>6. Presented'
    BY <2>1, <2>2, <2>4, <2>5 DEF Presented
  <2>7. Tokens' = [Tokens EXCEPT ![j] = t] /\ Tokens[j] = None
    <3>1. \A i \in Joiner : request'[i].token = IF i = j THEN t ELSE request[i].token
      BY <2>4
    <3> QED
      BY <2>3, <3>1 DEF Tokens
  <2>8. Abstract!Present(j, t)
    BY <2>1, <2>2, <2>7 DEF Abstract!Present, Valid, Tokens
  <2> QED
    BY <2>6, <2>8 DEF Abstract!Next
<1>3. CASE ~(\E t \in Token, j \in Joiner, n \in Node : EnrollJoin(j, n, t))
  <2>0. KeepTokens
    BY <1>1, <1>3, TokensKept
  <2>1. ASSUME NEW t \in Token, EnrollCreate(t)
        PROVE  Presented' /\ [Abstract!Next]_Abstract!vars
    <3>1. /\ t \notin minted /\ minted' = minted \union {t} /\ UNCHANGED admitted
          /\ \A u \in Token : u # t => Newest'.claim[u] = Newest.claim[u]
          /\ Newest'.claim[t] = None /\ Newest'.peers = Newest.peers
      BY <2>1, AddEnrollmentFacts DEF EnrollCreate
    <3>2. None # Absent /\ None \notin Joiner
      BY NoneAssumption
    <3>3. Presented'
      BY <2>0, <3>1, <3>2 DEF Presented, KeepTokens
    <3>4. Valid' = Valid \union {t} /\ Tokens' = Tokens
      BY <2>0, <3>1, <3>2 DEF Valid, Tokens, KeepTokens
    <3>5. Abstract!Issue(t)
      BY <3>1, <3>4 DEF Abstract!Issue, Valid, Tokens
    <3> QED
      BY <3>3, <3>5 DEF Abstract!Next
  <2>2. ASSUME NEW t \in Token, EnrollApprove(t)
        PROVE  Presented' /\ [Abstract!Next]_Abstract!vars
    BY <2>0, <2>2, ApproveAdmission DEF EnrollApprove, tokens
  <2>3. ASSUME NEW t \in Token, EnrollRevoke(t)
        PROVE  Presented' /\ [Abstract!Next]_Abstract!vars
    <3>1. /\ UNCHANGED <<minted, admitted>> /\ Newest.claim[t] # Absent
          /\ \A u \in Token : Newest'.claim[u] = IF u = t THEN Absent ELSE Newest.claim[u]
          /\ Newest'.peers = Newest.peers
      BY <2>3, RemoveFacts DEF EnrollRevoke, tokens
    <3>2. Absent \notin Joiner
      BY NoneAssumption
    <3>3. Presented'
      BY <2>0, <3>1, <3>2 DEF Presented, KeepTokens
    <3>4. Valid' = Valid \ {t} /\ t \in Valid /\ Tokens' = Tokens
      BY <2>0, <3>1 DEF Valid, Tokens, KeepTokens
    <3>5. Abstract!Revoke(t)
      BY <3>1, <3>4 DEF Abstract!Revoke, Valid, Tokens
    <3> QED
      BY <3>3, <3>5 DEF Abstract!Next
  <2>4. ASSUME NEW j \in Joiner, NEW n \in Node, NodeRemove(n, j)
        PROVE  Presented' /\ [Abstract!Next]_Abstract!vars
    <3>1. /\ UNCHANGED <<minted, admitted>> /\ Newest'.claim = Newest.claim
          /\ j \in Newest.peers /\ Newest'.peers = Newest.peers \ {j}
      BY <2>4, RemovePeerFacts DEF NodeRemove, tokens
    <3>2. Presented'
      BY <2>0, <3>1 DEF Presented, KeepTokens
    <3>3. Valid' = Valid /\ Tokens' = Tokens
      BY <2>0, <3>1 DEF Valid, Tokens, KeepTokens
    <3>4. Abstract!Expel(j)
      BY <3>1, <3>3 DEF Abstract!Expel, Valid, Tokens
    <3> QED
      BY <3>2, <3>4 DEF Abstract!Next
  <2>5. ASSUME NEW j \in Joiner, Record(j)
        PROVE  Presented' /\ [Abstract!Next]_Abstract!vars
    <3>1. request[j].token \in Token /\ UNCHANGED <<minted, admitted>>
      BY <2>5 DEF Record, At, IInv, Typed, tokens
    <3>2. CASE RecordPending(request[j].token, j)
      BY <2>0, <3>1, <3>2, RecordAdmission
    <3>3. CASE Refused
      BY <2>0, <3>1, <3>3, IdleAdmission DEF Refused
    <3> QED
      BY <2>5, <3>2, <3>3 DEF Record
  <2>6. ASSUME NEW j \in Joiner, AutoApprove(j)
        PROVE  Presented' /\ [Abstract!Next]_Abstract!vars
    <3>1. request[j].token \in Token /\ UNCHANGED minted
      BY <2>6 DEF AutoApprove, At, IInv, Typed, tokens
    <3>2. CASE Approve(request[j].token)
      BY <2>0, <3>1, <3>2, ApproveAdmission
    <3>3. CASE Refused /\ UNCHANGED admitted
      BY <2>0, <3>1, <3>3, IdleAdmission DEF Refused
    <3> QED
      BY <2>6, <3>2, <3>3 DEF AutoApprove
  <2>7. ASSUME NEW j \in Joiner, MutationFails(j)
        PROVE  Presented' /\ [Abstract!Next]_Abstract!vars
    <3>1. request[j].token \in Token /\ UNCHANGED minted
      BY <2>7 DEF MutationFails, At, IInv, Typed, tokens
    <3>2. CASE RecordPending(request[j].token, j) /\ UNCHANGED admitted
      BY <2>0, <3>1, <3>2, RecordAdmission
    <3>3. CASE Approve(request[j].token)
      BY <2>0, <3>1, <3>3, ApproveAdmission
    <3>4. CASE Refused /\ UNCHANGED admitted
      BY <2>0, <3>1, <3>4, IdleAdmission DEF Refused
    <3> QED
      BY <2>7, <3>2, <3>3, <3>4 DEF MutationFails
  <2>8. ASSUME UNCHANGED <<log, minted, admitted>>
        PROVE  Presented' /\ [Abstract!Next]_Abstract!vars
    BY <2>0, <2>8, IdleAdmission
  <2> QED
    BY <1>3, <2>1, <2>2, <2>3, <2>4, <2>5, <2>6, <2>7, <2>8
    DEF Next, Handle, Check, EagerTrust, Expire, LoseAnswer, Pull, PullAfterOwn,
        PullAfterOther, Seed, CtrlTrustRemove, TrustRemove, CatchUp, SyncRead, SyncAdd,
        vars, tokens
<1> QED
  BY <1>2, <1>3

LEMMA InitPresented == Init => Presented /\ Abstract!Init
<1> SUFFICES ASSUME Init PROVE Presented /\ Abstract!Init
  OBVIOUS
<1>1. Newest = [peers |-> {}, claim |-> [t \in Token |-> Absent]]
  BY DEF Init, Newest
<1>2. Absent \notin Joiner
  BY NoneAssumption
<1> QED
  BY <1>1, <1>2 DEF Init, Presented, Abstract!Init

\* Enrollment implements Admission: a host becomes a peer in the one step that
\* consumes the token it presented, whatever overlaps (approve_enrollment).
THEOREM AdmissionTheorem == Spec => ImplementsAdmission
<1>1. IInv /\ Presented /\ [Next]_vars => Presented' /\ [Abstract!Next]_Abstract!vars
  BY AdmissionStep
<1> QED
  BY <1>1, InitPresented, InitIInv, Step, PTL DEF Spec, ImplementsAdmission,
     Abstract!Spec

-----------------------------------------------------------------------------
(* Who is trusted.                                                         *)

\* Who was ever a peer, or is about to be mirrored, was admitted; and a server
\* trusts at once only on an automatic token that has just admitted somebody.
Earning ==
    /\ \A v \in DOMAIN log : \A j \in log[v].peers : admitted[j] # None
    /\ \A n \in Node : \A j \in mirror[n] : admitted[j] # None
    /\ \A j \in Joiner : At(j, "approve") \/ At(j, "trust") => request[j].token \in automatic
    /\ \A j \in Joiner : At(j, "trust") =>
            \E k \in Joiner : admitted[k] = request[j].token

\* An admission is for good, and nobody becomes a peer without one.
AdmissionsStay ==
    /\ \A j \in Joiner : admitted[j] # None => admitted'[j] = admitted[j]
    /\ \A j \in Newest'.peers : j \in Newest.peers \/ admitted'[j] # None

LEMMA AdmissionsStayStep ==
    ASSUME IInv, Presented, [Next]_vars
    PROVE  AdmissionsStay
<1>1. [Abstract!Next]_Abstract!vars
  BY AdmissionStep
<1>2. CASE UNCHANGED Abstract!vars
  BY <1>2 DEF Abstract!vars, AdmissionsStay
<1>3. ASSUME NEW j \in Joiner, NEW t \in Token, Abstract!Admit(j, t)
      PROVE  AdmissionsStay
  <2>1. /\ admitted[j] = None /\ admitted' = [admitted EXCEPT ![j] = t]
        /\ Newest'.peers = Newest.peers \union {j}
    BY <1>3 DEF Abstract!Admit
  <2>2. t # None
    BY NoneAssumption
  <2> QED
    BY <2>1, <2>2 DEF AdmissionsStay, IInv, Typed
<1>4. ASSUME NEW t \in Token, Abstract!Issue(t) \/ Abstract!Revoke(t)
      PROVE  AdmissionsStay
  BY <1>4 DEF Abstract!Issue, Abstract!Revoke, AdmissionsStay
<1>5. ASSUME NEW j \in Joiner, Abstract!Expel(j)
      PROVE  AdmissionsStay
  BY <1>5 DEF Abstract!Expel, AdmissionsStay
<1>6. ASSUME NEW j \in Joiner, NEW t \in Token, Abstract!Present(j, t)
      PROVE  AdmissionsStay
  BY <1>6 DEF Abstract!Present, AdmissionsStay
<1> QED
  BY <1>1, <1>2, <1>3, <1>4, <1>5, <1>6 DEF Abstract!Next

\* The log only grows, by the newest configuration.
LEMMA LogGrows ==
    ASSUME IInv, [Next]_vars
    PROVE  \A v \in DOMAIN log' : \/ v \in DOMAIN log /\ log'[v] = log[v]
                                  \/ log'[v] = Newest'
<1>1. log \in Seq(Config) /\ Len(log) \in Nat /\ log' \in Seq(Config) /\ Len(log') \in Nat
  BY Step DEF IInv, Typed
<1>2. ASSUME NEW config, Commit(config)
      PROVE  \A v \in DOMAIN log' : \/ v \in DOMAIN log /\ log'[v] = log[v]
                                    \/ log'[v] = Newest'
  <2>1. log' = Append(log, config)
    BY <1>2 DEF Commit
  <2>2. Len(log') = Len(log) + 1 /\ \A v \in 1 .. Len(log) : log'[v] = log[v]
    BY <1>1, <2>1
  <2> QED
    BY <1>1, <2>2 DEF Newest
<1>3. log' = log \/ \E config : Commit(config)
  BY DEF Next, Handle, EnrollCreate, EnrollApprove, EnrollRevoke, Expire, EnrollJoin,
         Check, Record, AutoApprove, EagerTrust, MutationFails, Refused, LoseAnswer,
         Pull, PullAfterOwn, PullAfterOther, Seed, CtrlTrustRemove, NodeRemove,
         TrustRemove, CatchUp, SyncRead, SyncAdd, vars, AddEnrollment, RecordPending,
         Approve, RemoveEnrollment, RemovePeer
<1> QED
  BY <1>2, <1>3

\* Who was admitted stays so, in every version and in what a mirroring read.
LEMMA PeersEarned ==
    ASSUME IInv, Presented, TypeOK, Earning, [Next]_vars
    PROVE  /\ \A v \in DOMAIN log' : \A j \in log'[v].peers : admitted'[j] # None
           /\ \A n \in Node : \A j \in mirror'[n] : admitted'[j] # None
<1>1. AdmissionsStay
  BY AdmissionsStayStep
<1>2. ASSUME NEW v \in DOMAIN log, NEW j \in log[v].peers
      PROVE  admitted'[j] # None
  <2>1. log[v] \in Config
    BY DEF IInv, Typed
  <2>2. j \in Joiner /\ admitted[j] # None
    BY <1>2, <2>1 DEF Earning, Config
  <2> QED
    BY <1>1, <2>2 DEF AdmissionsStay
<1>3. ASSUME NEW j \in Newest'.peers
      PROVE  admitted'[j] # None
  <2>1. Len(log) \in DOMAIN log
    BY DEF IInv, Typed
  <2> QED
    BY <1>1, <1>2, <1>3, <2>1 DEF AdmissionsStay, Newest
<1>4. \A v \in DOMAIN log' : \A j \in log'[v].peers : admitted'[j] # None
  BY <1>2, <1>3, LogGrows
<1>5. ASSUME NEW n \in Node, NEW j \in mirror'[n]
      PROVE  admitted'[j] # None
  <2>1. \/ j \in mirror[n]
        \/ \E v \in DOMAIN log : j \in log[v].peers
    <3>1. ASSUME NEW m \in Node, SyncRead(m), m = n
          PROVE  \E v \in DOMAIN log : j \in log[v].peers
      <4>1. mirror'[n] = Copy(n).peers
        BY <3>1 DEF SyncRead, TypeOK
      <4>2. view[n] \in DOMAIN log
        BY DEF TypeOK
      <4> QED
        BY <1>5, <4>1, <4>2 DEF Copy
    <3>2. ASSUME NEW m \in Node, SyncRead(m), m # n
          PROVE  j \in mirror[n]
      BY <1>5, <3>2 DEF SyncRead, TypeOK
    <3>3. ASSUME NEW m \in Node, SyncAdd(m)
          PROVE  j \in mirror[n]
      BY <1>5, <3>3 DEF SyncAdd, Trusts, TypeOK
    <3>4. CASE mirror' = mirror
      BY <1>5, <3>4
    <3> QED
      BY <3>1, <3>2, <3>3, <3>4
      DEF Next, Handle, EnrollCreate, EnrollApprove, EnrollRevoke, Expire, EnrollJoin,
          Check, Record, AutoApprove, EagerTrust, MutationFails, LoseAnswer, Pull,
          PullAfterOwn, PullAfterOther, Seed, CtrlTrustRemove, NodeRemove, TrustRemove,
          CatchUp, vars
  <2>2. CASE j \in mirror[n]
    <3>1. j \in Joiner /\ admitted[j] # None
      BY <2>2 DEF Earning, TypeOK
    <3> QED
      BY <1>1, <3>1 DEF AdmissionsStay
  <2> QED
    BY <1>2, <2>1, <2>2
<1> QED
  BY <1>4, <1>5

\* A request gets to the stages of an automatic approval one by one.
LEMMA StagesEarned ==
    ASSUME IInv, Presented, TypeOK, Earning, [Next]_vars, NEW j \in Joiner
    PROVE  /\ At(j, "approve")' \/ At(j, "trust")' => request'[j].token \in automatic'
           /\ At(j, "trust")' => \E k \in Joiner : admitted'[k] = request'[j].token
<1>1. AdmissionsStay /\ automatic \subseteq automatic'
  <2>1. automatic \subseteq automatic'
    BY DEF Next, Handle, EnrollCreate, EnrollApprove, EnrollRevoke, Expire, EnrollJoin,
           Check, Record, AutoApprove, EagerTrust, MutationFails, LoseAnswer, Pull,
           PullAfterOwn, PullAfterOther, Seed, CtrlTrustRemove, NodeRemove, TrustRemove,
           CatchUp, SyncRead, SyncAdd, vars, tokens
  <2> QED
    BY <2>1, AdmissionsStayStep
<1>2. CASE request'[j] = request[j]
  <2>1. ASSUME At(j, "trust")
        PROVE  \E k \in Joiner : admitted'[k] = request[j].token
    <3>1. PICK k \in Joiner : admitted[k] = request[j].token
      BY <2>1 DEF Earning
    <3>2. request[j].token # None
      BY <2>1, NoneAssumption DEF At, IInv, Typed
    <3> QED
      BY <1>1, <3>1, <3>2 DEF AdmissionsStay
  <2> QED
    BY <1>1, <1>2, <2>1 DEF Earning, At
<1>3. ASSUME NEW stage, Goes(j, stage)
      PROVE  request'[j].stage = stage /\ request'[j].token = request[j].token
  BY <1>3 DEF Goes, TypeOK, Request
<1>4. ASSUME NEW i \in Joiner, NEW stage, Goes(i, stage), i # j
      PROVE  request'[j] = request[j]
  BY <1>4 DEF Goes, TypeOK
<1>5. ASSUME Check(j) \/ EagerTrust(j) \/ MutationFails(j)
      PROVE  request'[j].stage \in {"record", "done"}
  BY <1>3, <1>5 DEF Check, EagerTrust, MutationFails, Says
<1>6. CASE Record(j)
  <2>1. request'[j].stage = "done" \/ (request'[j].stage = "approve"
                                       /\ request'[j].token = request[j].token
                                       /\ request[j].token \in automatic)
    BY <1>3, <1>6 DEF Record, Says
  <2> QED
    BY <1>1, <2>1 DEF At
<1>7. CASE AutoApprove(j)
  <2>1. request[j].token \in automatic /\ request[j].token \in Token
    BY <1>7 DEF AutoApprove, At, Earning, IInv, Typed
  <2>2. request'[j].token = request[j].token
    BY <1>3, <1>7 DEF AutoApprove, Says
  <2>3. CASE Approve(request[j].token)
    <3>1. \E k \in Joiner : admitted'[k] = request[j].token
      BY <2>1, <2>3, ApproveFacts DEF IInv, Typed
    <3> QED
      BY <1>1, <2>1, <2>2, <3>1
  <2>4. CASE ~Approve(request[j].token)
    BY <1>3, <1>7, <2>4 DEF AutoApprove, Says, At
  <2> QED
    BY <2>3, <2>4
<1>8. ASSUME NEW i \in Joiner, i # j, Handle(i) \/ MutationFails(i)
      PROVE  request'[j] = request[j]
  BY <1>4, <1>8 DEF Handle, Check, Record, AutoApprove, EagerTrust, MutationFails, Says
<1>9. ASSUME NEW t \in Token, NEW i \in Joiner, NEW n \in Node, EnrollJoin(i, n, t)
      PROVE  request'[j] = request[j] \/ request'[j].stage = "check"
  BY <1>9 DEF EnrollJoin, TypeOK
<1>10. \/ request' = request
       \/ \E i \in Joiner : Handle(i) \/ MutationFails(i)
       \/ \E t \in Token, i \in Joiner, n \in Node : EnrollJoin(i, n, t)
  BY DEF Next, EnrollCreate, EnrollApprove, EnrollRevoke, Expire, LoseAnswer, Pull,
         PullAfterOwn, PullAfterOther, Seed, CtrlTrustRemove, NodeRemove, TrustRemove,
         CatchUp, SyncRead, SyncAdd, vars
<1>11. CASE request' = request
  BY <1>2, <1>11
<1>12. ASSUME NEW i \in Joiner, Handle(i) \/ MutationFails(i)
       PROVE  \/ request'[j] = request[j]
              \/ Check(j) \/ EagerTrust(j) \/ MutationFails(j) \/ Record(j) \/ AutoApprove(j)
  BY <1>8, <1>12 DEF Handle
<1> QED
  BY <1>2, <1>5, <1>6, <1>7, <1>9, <1>10, <1>11, <1>12 DEF At

\* Trust is given in two places: to who was mirrored, and to who was served.
LEMMA TrustStep ==
    ASSUME IInv, Presented, TypeOK, Earning, TrustIsEarned, [Next]_vars
    PROVE  TrustIsEarned'
<1>1. AdmissionsStay
  BY AdmissionsStayStep
<1>2. automatic \subseteq automatic'
  BY DEF Next, Handle, EnrollCreate, EnrollApprove, EnrollRevoke, Expire, EnrollJoin,
         Check, Record, AutoApprove, EagerTrust, MutationFails, LoseAnswer, Pull,
         PullAfterOwn, PullAfterOther, Seed, CtrlTrustRemove, NodeRemove, TrustRemove,
         CatchUp, SyncRead, SyncAdd, vars, tokens
<1>3. SUFFICES ASSUME NEW n \in Node, NEW j \in trust'[n], admitted'[j] = None
               PROVE  /\ request'[j].server = n /\ request'[j].token \in automatic'
                      /\ \E k \in Joiner : admitted'[k] = request'[j].token
  BY DEF TrustIsEarned
<1>4. \/ j \in trust[n]
      \/ \E m \in Node : SyncAdd(m) /\ m = n /\ j \in mirror[n]
      \/ EagerTrust(j) /\ j \in Joiner /\ request[j].server = n
  <2>1. ASSUME NEW m \in Node, SyncAdd(m)
        PROVE  j \in trust[n] \/ (m = n /\ j \in mirror[n])
    BY <1>3, <2>1 DEF SyncAdd, Trusts, TypeOK
  <2>2. ASSUME NEW m \in Node, NEW i, TrustRemove(m) \/ CtrlTrustRemove(m, i)
        PROVE  j \in trust[n]
    BY <1>3, <2>2 DEF TrustRemove, CtrlTrustRemove, TypeOK
  <2>3. ASSUME NEW i \in Joiner, EagerTrust(i)
        PROVE  j \in trust[n] \/ (i = j /\ request[j].server = n)
    BY <1>3, <2>3 DEF EagerTrust, Trusts, TypeOK
  <2>4. CASE trust' = trust
    BY <1>3, <2>4
  <2> QED
    BY <2>1, <2>2, <2>3, <2>4
    DEF Next, Handle, EnrollCreate, EnrollApprove, EnrollRevoke, Expire, EnrollJoin,
        Check, Record, AutoApprove, MutationFails, LoseAnswer, Pull, PullAfterOwn,
        PullAfterOther, Seed, CtrlTrustRemove, NodeRemove, CatchUp, SyncRead, vars
<1>5. j \in Joiner /\ admitted[j] = None
  <2>1. j \in Joiner
    BY <1>4 DEF TypeOK
  <2> QED
    BY <1>1, <1>3, <2>1 DEF AdmissionsStay
<1>6. /\ request[j].server = n /\ request[j].token \in automatic
      /\ \E k \in Joiner : admitted[k] = request[j].token
  <2>1. CASE j \in trust[n]
    BY <1>5, <2>1 DEF TrustIsEarned
  <2>2. CASE EagerTrust(j) /\ request[j].server = n
    <3>1. At(j, "trust")
      BY <2>2 DEF EagerTrust
    <3>2. request[j].token \in automatic
      BY <1>5, <3>1 DEF Earning
    <3>3. \E k \in Joiner : admitted[k] = request[j].token
      BY <1>5, <3>1 DEF Earning
    <3> QED
      BY <2>2, <3>2, <3>3
  <2>3. ~(\E m \in Node : SyncAdd(m) /\ m = n /\ j \in mirror[n])
    BY <1>5 DEF Earning
  <2> QED
    BY <1>4, <2>1, <2>2, <2>3
<1>7. request[j].stage # "none" /\ request[j].token # None
  <2>1. request[j].token \in Token
    BY <1>6 DEF TypeOK
  <2> QED
    BY <1>5, <2>1, NoneAssumption DEF Presented
<1>8. request'[j].server = request[j].server /\ request'[j].token = request[j].token
  <2>1. ASSUME NEW i \in Joiner, NEW stage, Goes(i, stage)
        PROVE  request'[j].server = request[j].server /\ request'[j].token = request[j].token
    BY <1>5, <2>1 DEF Goes, TypeOK, Request
  <2>2. ASSUME NEW i \in Joiner, Handle(i) \/ MutationFails(i)
        PROVE  \E stage : Goes(i, stage)
    BY <2>2 DEF Handle, Check, Record, AutoApprove, EagerTrust, MutationFails, Says
  <2>3. ASSUME NEW t \in Token, NEW i \in Joiner, NEW m \in Node, EnrollJoin(i, m, t)
        PROVE  request'[j] = request[j]
    BY <1>5, <1>7, <2>3 DEF EnrollJoin, At, TypeOK
  <2>4. CASE request' = request
    BY <2>4
  <2> QED
    BY <2>1, <2>2, <2>3, <2>4
    DEF Next, EnrollCreate, EnrollApprove, EnrollRevoke, Expire, LoseAnswer, Pull,
        PullAfterOwn, PullAfterOther, Seed, CtrlTrustRemove, NodeRemove, TrustRemove,
        CatchUp, SyncRead, SyncAdd, vars
<1> QED
  <2>1. PICK k \in Joiner : admitted[k] = request[j].token
    BY <1>6
  <2>2. admitted'[k] = request'[j].token
    BY <1>1, <1>7, <1>8, <2>1 DEF AdmissionsStay
  <2> QED
    BY <1>2, <1>6, <1>8, <2>2

\* Nobody is trusted who did not earn it, whatever requests, approvals,
\* removals and mirrorings overlap (handleEnroll, syncTrustFromCluster).
THEOREM TrustTheorem == Spec => []TrustIsEarned
<1>1. Init => Earning /\ TrustIsEarned
  <2> SUFFICES ASSUME Init PROVE Earning /\ TrustIsEarned
    OBVIOUS
  <2>1. DOMAIN log = {1} /\ log[1].peers = {}
    BY DEF Init
  <2> QED
    BY <2>1 DEF Init, Earning, TrustIsEarned, At
<1>2. IInv /\ Presented /\ TypeOK /\ Earning /\ TrustIsEarned /\ [Next]_vars
        => Earning' /\ TrustIsEarned'
  <2> SUFFICES ASSUME IInv, Presented, TypeOK, Earning, TrustIsEarned, [Next]_vars
               PROVE  Earning' /\ TrustIsEarned'
    OBVIOUS
  <2>1. Earning'
    BY PeersEarned, StagesEarned DEF Earning
  <2> QED
    BY <2>1, TrustStep
<1>3. IInv /\ Presented /\ [Next]_vars => Presented'
  BY AdmissionStep
<1> QED
  BY <1>1, <1>2, <1>3, InitPresented, InitIInv, Step, TypeCorrect, PTL DEF Spec

-----------------------------------------------------------------------------
(* Enrollment takes what a node trusts as a set that changes in one step   *)
(* and that a restart leaves alone.  The store behind it (module           *)
(* TrustStore) keeps that promise for every change it reports as done.     *)
CONSTANTS Task, Peer, Fingerprint
VARIABLES entries, file, task, failed
Saves == INSTANCE TrustStore

\* The list that is being written is the one in memory.
LEMMA SavesTyped == Saves!Spec => []Saves!TypeOK
<1> USE DEF Saves!TypeOK, Saves!Store, Saves!Resting
<1>1. Saves!Init => Saves!TypeOK
  BY DEF Saves!Init, Saves!Empty
<1>2. ASSUME Saves!TypeOK, [Saves!Next]_Saves!vars
      PROVE  Saves!TypeOK'
  <2>1. ASSUME NEW t \in Task, NEW p \in Peer, NEW f \in Fingerprint \union {None},
               Saves!Changed(t, p, f)
        PROVE  Saves!TypeOK'
    BY <1>2, <2>1 DEF Saves!Changed, Saves!Lockable
  <2>2. ASSUME NEW t \in Task, Saves!BeginSave(t)
        PROVE  Saves!TypeOK'
    BY <1>2, <2>2 DEF Saves!BeginSave
  <2>3. ASSUME NEW t \in Task, Saves!Save(t) \/ Saves!SaveFails(t)
        PROVE  Saves!TypeOK'
    <3>1. task[t].peer \in Peer /\ task[t].list = entries
      BY <1>2, <2>3 DEF Saves!Save, Saves!SaveFails
    <3>2. QED
      BY <1>2, <2>3, <3>1 DEF Saves!Save, Saves!SaveFails
  <2>4. CASE Saves!Restart
    BY <1>2, <2>4 DEF Saves!Restart
  <2>5. CASE UNCHANGED Saves!vars
    BY <1>2, <2>5 DEF Saves!vars
  <2>6. QED
    BY <1>2, <2>1, <2>2, <2>3, <2>4, <2>5 DEF Saves!Next, Saves!Add, Saves!Remove
<1>3. QED
  BY <1>1, <1>2, PTL DEF Saves!Spec

\* Of any number of goroutines that change the trust store at once, none
\* reports a change as done that a restart would take back (Add, Remove and
\* Save of internal/trust/store.go).
THEOREM SavesTheorem == Saves!Spec => []Saves!DoneMeansSaved
<1>1. Saves!Init => Saves!DoneMeansSaved
  BY DEF Saves!Init, Saves!DoneMeansSaved
<1>2. ASSUME Saves!TypeOK, Saves!DoneMeansSaved, [Saves!Next]_Saves!vars
      PROVE  Saves!DoneMeansSaved'
  <2> USE DEF Saves!DoneMeansSaved, Saves!TypeOK, Saves!Resting
  <2>1. ASSUME NEW t \in Task, NEW p \in Peer, NEW f, Saves!Changed(t, p, f)
        PROVE  Saves!DoneMeansSaved'
    <3>1. SUFFICES ASSUME NEW q \in Peer, entries'[q] # file'[q], q \notin failed'
                   PROVE  \E u \in Task : task'[u] # Saves!Resting /\ task'[u].peer = q
      OBVIOUS
    <3>2. CASE q = p
      BY <1>2, <2>1, <3>2 DEF Saves!Changed
    <3>3. CASE q # p
      <4>1. entries[q] # file[q] /\ q \notin failed
        BY <1>2, <2>1, <3>1, <3>3 DEF Saves!Changed, Saves!Store
      <4>2. PICK u \in Task : task[u] # Saves!Resting /\ task[u].peer = q
        BY <1>2, <4>1
      <4>3. task'[u] = task[u]
        BY <1>2, <2>1, <4>2 DEF Saves!Changed
      <4>4. QED
        BY <4>2, <4>3
    <3>4. QED
      BY <3>2, <3>3
  <2>2. ASSUME NEW t \in Task, Saves!BeginSave(t)
        PROVE  Saves!DoneMeansSaved'
    <3>1. /\ task'[t] # Saves!Resting /\ task'[t].peer = task[t].peer
          /\ \A u \in Task : u # t => task'[u] = task[u]
          /\ UNCHANGED <<entries, file, failed>>
      BY <1>2, <2>2 DEF Saves!BeginSave
    <3>2. QED
      BY <1>2, <3>1
  <2>3. ASSUME NEW t \in Task, Saves!Save(t)
        PROVE  Saves!DoneMeansSaved'
    <3>1. file' = entries'
      BY <1>2, <2>3 DEF Saves!Save
    <3>2. QED
      BY <3>1
  <2>4. ASSUME NEW t \in Task, Saves!SaveFails(t)
        PROVE  Saves!DoneMeansSaved'
    <3>1. /\ failed' = failed \union {task[t].peer}
          /\ \A u \in Task : u # t => task'[u] = task[u]
          /\ UNCHANGED <<entries, file>>
      BY <1>2, <2>4 DEF Saves!SaveFails
    <3>2. QED
      BY <1>2, <3>1
  <2>5. CASE Saves!Restart
    BY <2>5 DEF Saves!Restart
  <2>6. CASE UNCHANGED Saves!vars
    BY <1>2, <2>6 DEF Saves!vars
  <2>7. QED
    BY <1>2, <2>1, <2>2, <2>3, <2>4, <2>5, <2>6
    DEF Saves!Next, Saves!Add, Saves!Remove
<1>3. QED
  BY <1>1, <1>2, SavesTyped, PTL DEF Saves!Spec
=============================================================================
