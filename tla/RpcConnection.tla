----------------------------- MODULE RpcConnection -----------------------------
(***************************************************************************)
(* The connections of internal/transport/rpc.go between two nodes.  Each   *)
(* node pools one connection to its peer, and its calls take turns on it   *)
(* under a mutex; the answers carry the ID of their request, which nobody  *)
(* compares.  The peer serves a connection one request after the other.    *)
(*                                                                         *)
(* Of the calls two are here, since one of them waits for the other: a     *)
(* heartbeat, and the pull of a newer configuration, which the version     *)
(* observer of internal/daemon/daemon.go starts in the handler of a        *)
(* heartbeat, before that is answered.                                     *)
(*                                                                         *)
(* The content of requests and answers is left out, but for who waits for  *)
(* it, and so are the trust stores: either side may trust the other or not *)
(* when a connection is made.  crypto/tls is modelled from how it is used: *)
(* a read that timed out leaves the connection as it is, a write that did  *)
(* makes it useless.                                                       *)
(***************************************************************************)
EXTENDS Integers, Sequences, SequencesExt

CONSTANTS
    Node,
    None,      \* nobody
    MaxConns   \* bound on the connections each node opens

Call == {"beat", "pull"}

ASSUME TwoNodes == \E a, b \in Node : a # b /\ Node = {a, b}
ASSUME MaxConnsAssumption == MaxConns \in [Node -> Nat \ {0}]

Peer(n) == CHOOSE p \in Node : p # n
Conns(n) == 1 .. MaxConns[n]

VARIABLES
    pool,    \* the pooled connection of a node; 0 is none
    opened,  \* how many it has opened
    conn,    \* the connections it opened
    call     \* its calls: how far, on which connection

vars == <<pool, opened, conn, call>>

\* What is on a connection belongs to a call or to one that has given up, when
\* it is late; a late answer is nobody's.
Item == [of : Call, late : BOOLEAN]
Handled == [of : Call, late : BOOLEAN, pulling : BOOLEAN]
ASSUME NoneAssumption == None \notin UNION {Call, Item, Handled}

Conn == [open : BOOLEAN, lock : Call \union {None}, sent : Seq(Item),
         at : Handled \union {None}, answers : Seq(Call \union {None})]
Unused == [open |-> FALSE, lock |-> None, sent |-> <<>>, at |-> None, answers |-> <<>>]

\* The mutex is held by the call that reads, and only by it.
TypeOK ==
    /\ DOMAIN pool = Node /\ DOMAIN opened = Node
    /\ DOMAIN conn = Node /\ DOMAIN call = Node
    /\ \A n \in Node :
          /\ pool[n] \in 0 .. opened[n] /\ opened[n] \in 0 .. MaxConns[n]
          /\ conn[n] \in [Conns(n) -> Conn]
          /\ call[n] \in [Call -> [pc : {"idle", "dial", "wait", "read", "failed"},
                                   on : 0 .. opened[n]]]
          /\ \A c \in Call, k \in Conns(n) :
                conn[n][k].lock = c <=> call[n][c] = [pc |-> "read", on |-> k]

Idle == [pc |-> "idle", on |-> 0]

Init ==
    /\ pool = [n \in Node |-> 0]
    /\ opened = [n \in Node |-> 0]
    /\ conn = [n \in Node |-> [k \in Conns(n) |-> Unused]]
    /\ call = [n \in Node |-> [c \in Call |-> Idle]]

\* What was under way is lost; a handler that pulls goes on.
Closed(cn) == [cn EXCEPT !.open = FALSE, !.sent = <<>>, !.answers = <<>>,
                         !.at = IF @ # None /\ @.pulling THEN @ ELSE None]

-----------------------------------------------------------------------------
(* The client: Call, getConn, callOn and dropConn. *)

Goes(n, c, pc, k) == call' = [call EXCEPT ![n][c] = [pc |-> pc, on |-> k]]

\* The pooled connection is taken as it is, usable or not.
Begun(n) == IF pool[n] # 0 THEN [pc |-> "wait", on |-> pool[n]]
                           ELSE [pc |-> "dial", on |-> 0]

\* The ticker sends heartbeats; an answer with a newer version is followed by
\* a pull.
Start(n, c) ==
    /\ call[n][c].pc = "idle"
    /\ call' = [call EXCEPT ![n][c] = Begun(n)]
    /\ UNCHANGED <<pool, opened, conn>>

\* Mutant of Dialed: the pool is not looked at again.
DialedOver(n, c) ==
    LET k == opened[n] + 1
    IN  /\ call[n][c].pc = "dial" /\ k \in Conns(n)
        /\ opened' = [opened EXCEPT ![n] = k]
        /\ pool' = [pool EXCEPT ![n] = k]
        /\ conn' = [conn EXCEPT ![n][k] = [@ EXCEPT !.open = TRUE]]
        /\ Goes(n, c, "wait", k)

\* Of two calls that dial at once the slower one gives its connection up.
Dialed(n, c) ==
    /\ call[n][c].pc = "dial"
    /\ IF pool[n] # 0
       THEN /\ Goes(n, c, "wait", pool[n])
            /\ UNCHANGED <<pool, opened, conn>>
       ELSE LET k == opened[n] + 1
            IN  /\ k \in Conns(n)
                /\ opened' = [opened EXCEPT ![n] = k]
                /\ pool' = [pool EXCEPT ![n] = k]
                /\ conn' = [conn EXCEPT ![n][k] = [@ EXCEPT !.open = TRUE]]
                /\ Goes(n, c, "wait", k)

\* Nobody answers, or the peer is not trusted: there is nothing to drop.
DialFailed(n, c) ==
    /\ call[n][c].pc = "dial"
    /\ Goes(n, c, "idle", 0)
    /\ UNCHANGED <<pool, opened, conn>>

\* The mutex is taken and the request written.
Requested(cn, c) ==
    [cn EXCEPT !.lock = c, !.sent = Append(@, [of |-> c, late |-> FALSE])]

\* Mutant of Write: nobody takes turns.
WriteAtOnce(n, c) ==
    LET k == call[n][c].on
    IN  /\ call[n][c].pc = "wait" /\ conn[n][k].open
        /\ conn' = [conn EXCEPT ![n][k] = Requested(@, c)]
        /\ Goes(n, c, "read", k)
        /\ UNCHANGED <<pool, opened>>

\* The mutex is free.  The time spent waiting for it may have used up the
\* deadline, and then the write fails.
Write(n, c) ==
    LET k == call[n][c].on
    IN  /\ call[n][c].pc = "wait" /\ conn[n][k].lock = None
        /\ \/ /\ conn[n][k].open
              /\ conn' = [conn EXCEPT ![n][k] = Requested(@, c)]
              /\ Goes(n, c, "read", k)
           \/ /\ conn' = [conn EXCEPT ![n][k] = Closed(@)]
              /\ Goes(n, c, "failed", k)
        /\ UNCHANGED <<pool, opened>>

\* Nobody waits any more for what is under way in the name of c.
Forsaken(it, c) == IF it # None /\ it.of = c THEN [it EXCEPT !.late = TRUE] ELSE it
Unlocked(cn, c) ==
    [cn EXCEPT !.lock = None,
               !.sent = [i \in DOMAIN @ |-> Forsaken(@[i], c)],
               !.at = Forsaken(@, c),
               !.answers = [i \in DOMAIN @ |-> IF @[i] = c THEN None ELSE @[i]]]

\* The next answer is taken for the answer to the request.  An error in it
\* fails the call like any other.
ReadAnswer(n, c) ==
    LET k == call[n][c].on
        cn == conn[n][k]
    IN  /\ call[n][c].pc = "read" /\ cn.open /\ cn.answers # <<>>
        /\ conn' = [conn EXCEPT ![n][k] = Unlocked([cn EXCEPT !.answers = Tail(@)], c)]
        /\ Goes(n, c, "idle", 0) \/ Goes(n, c, "failed", k)
        /\ UNCHANGED <<pool, opened>>

\* Mutant of ReadFailed: a connection on which the answer is late is kept.
ReadFailedQuietly(n, c) ==
    LET k == call[n][c].on
    IN  /\ call[n][c].pc = "read"
        /\ conn' = [conn EXCEPT ![n][k] = Unlocked(@, c)]
        /\ Goes(n, c, "idle", 0)
        /\ UNCHANGED <<pool, opened>>

\* Mutant of ReadFailed: the deadline is not put on the connection.
ReadFailedOnClose(n, c) ==
    LET k == call[n][c].on
    IN  /\ call[n][c].pc = "read" /\ ~conn[n][k].open
        /\ conn' = [conn EXCEPT ![n][k] = Unlocked(@, c)]
        /\ Goes(n, c, "failed", k)
        /\ UNCHANGED <<pool, opened>>

\* The deadline of the call passes, or the connection is closed under it.
ReadFailed(n, c) ==
    LET k == call[n][c].on
    IN  /\ call[n][c].pc = "read"
        /\ conn' = [conn EXCEPT ![n][k] = Unlocked(@, c)]
        /\ Goes(n, c, "failed", k)
        /\ UNCHANGED <<pool, opened>>

\* The pooled connection is closed, whether it is the one that failed or not.
\* In between, the mutex was free.
DropConn(n, c) ==
    /\ call[n][c].pc = "failed"
    /\ pool' = [pool EXCEPT ![n] = 0]
    /\ conn' = IF pool[n] = 0 THEN conn ELSE [conn EXCEPT ![n][pool[n]] = Closed(@)]
    /\ Goes(n, c, "idle", 0)
    /\ UNCHANGED opened

-----------------------------------------------------------------------------
(* The server: handleConn, on the connection k that the peer of p opened. *)

Addressee(it) == IF it.late THEN None ELSE it.of

Accepted(cn, it) ==
    [cn EXCEPT !.sent = Tail(@), !.at = [of |-> it.of, late |-> it.late, pulling |-> FALSE]]
Refused(cn, it) ==
    [cn EXCEPT !.sent = Tail(@), !.answers = Append(@, Addressee(it))]
Answered(cn) ==
    [cn EXCEPT !.at = None,
               !.answers = IF cn.open THEN Append(@, Addressee(cn.at)) ELSE @]

\* One request at a time.  A caller that was not trusted when it connected is
\* told so at once.
Receive(n, k) ==
    LET cn == conn[n][k]
        it == Head(cn.sent)
    IN  /\ cn.open /\ cn.at = None /\ cn.sent # <<>>
        /\ conn' \in {[conn EXCEPT ![n][k] = Accepted(cn, it)],
                      [conn EXCEPT ![n][k] = Refused(cn, it)]}
        /\ UNCHANGED <<pool, opened, call>>

\* The heartbeat told of a newer version: its handler pulls it from the sender.
ObserveVersion(n, k) ==
    LET p == Peer(n)
        cn == conn[n][k]
    IN  /\ cn.at # None /\ cn.at.of = "beat" /\ ~cn.at.pulling
        /\ call[p]["pull"].pc = "idle"
        /\ conn' = [conn EXCEPT ![n][k] = [cn EXCEPT !.at.pulling = TRUE]]
        /\ call' = [call EXCEPT ![p]["pull"] = Begun(p)]
        /\ UNCHANGED <<pool, opened>>

\* The handler is done, and its answer or its error is written.
Respond(n, k) ==
    LET cn == conn[n][k]
    IN  /\ cn.at # None
        /\ cn.at.pulling => call[Peer(n)]["pull"].pc = "idle"
        /\ conn' = [conn EXCEPT ![n][k] = Answered(cn)]
        /\ UNCHANGED <<pool, opened, call>>

\* The peer stops or the network breaks: the pool does not know.
Break(n, k) ==
    /\ conn[n][k].open
    /\ conn' = [conn EXCEPT ![n][k] = Closed(@)]
    /\ UNCHANGED <<pool, opened, call>>

\* What a call does by itself or when its deadline passes.
Proceed(n, c) ==
    Dialed(n, c) \/ DialFailed(n, c) \/ ReadAnswer(n, c) \/ ReadFailed(n, c) \/ DropConn(n, c)

Next ==
    \/ \E n \in Node, c \in Call : Start(n, c) \/ Write(n, c) \/ Proceed(n, c)
    \/ \E n \in Node : \E k \in Conns(n) :
          Receive(n, k) \/ ObserveVersion(n, k) \/ Respond(n, k) \/ Break(n, k)

\* Deadlines pass, and the mutex is given to everybody who waits for it in the
\* end (sync.Mutex does not starve a waiter).  No handler is promised to end.
Fairness == \A n \in Node, c \in Call : WF_vars(Proceed(n, c)) /\ SF_vars(Write(n, c))

Spec == Init /\ [][Next]_vars
FairSpec == Spec /\ Fairness

-----------------------------------------------------------------------------
(* Properties. *)

\* An open connection is in the pool, where the next failure closes it: none is
\* left behind with a server that reads from it for ever (rpc.go:286-307).
OpenIsPooled == \A n \in Node : \A k \in Conns(n) : conn[n][k].open => pool[n] = k

\* The answer a call finds is its own, although nobody compares its ID with
\* that of the request (rpc.go:242-261), but for one case: another call has
\* failed on the connection, and before it could drop it this one took the
\* mutex and may find the answer to that other call.
AnswerIsOwn ==
    \A n \in Node, c \in Call :
        LET k == call[n][c].on
        IN  call[n][c].pc = "read" /\ conn[n][k].open /\ conn[n][k].answers # <<>>
               => \/ Head(conn[n][k].answers) = c
                  \/ \E d \in Call \ {c} : call[n][d] = [pc |-> "failed", on |-> k]

\* Every call ends, although it waits for the mutex without a deadline of its
\* own, and the holder may wait for a handler that pulls over a connection
\* whose holder waits for a handler that pulls (rpc.go:232, daemon.go:130).
CallsEnd == \A n \in Node, c \in Call : call[n][c].pc # "idle" ~> call[n][c].pc = "idle"
=============================================================================
