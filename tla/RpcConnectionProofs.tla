------------------------- MODULE RpcConnectionProofs -------------------------
(***************************************************************************)
(* Why no call is answered with what was meant for another one, for as     *)
(* long as a connection stays in the pool: what is on its way on a         *)
(* connection, and not late, is the one request of the call that holds its *)
(* mutex; when that call gives up, it is on its way to drop what is        *)
(* pooled.                                                                 *)
(***************************************************************************)
EXTENDS RpcConnection, SequenceTheorems, TLAPS

\* What somebody waits for belongs to the call that holds the mutex.
Owned(cn) ==
    /\ \A i \in DOMAIN cn.sent : cn.sent[i].late \/ cn.sent[i].of = cn.lock
    /\ cn.at = None \/ cn.at.late \/ cn.at.of = cn.lock
    /\ \A i \in DOMAIN cn.answers : cn.answers[i] = None \/ cn.answers[i] = cn.lock

\* And it is in one place.
Single(cn) ==
    /\ \A i, j \in DOMAIN cn.sent : i = j \/ cn.sent[i].late \/ cn.sent[j].late
    /\ \A i, j \in DOMAIN cn.answers : i = j \/ cn.answers[i] = None \/ cn.answers[j] = None
    /\ \A i \in DOMAIN cn.sent, j \in DOMAIN cn.answers : cn.sent[i].late \/ cn.answers[j] = None
    /\ cn.at = None \/ cn.at.late
         \/ /\ \A i \in DOMAIN cn.sent : cn.sent[i].late
            /\ \A j \in DOMAIN cn.answers : cn.answers[j] = None

Good(cn) == cn \in Conn /\ Owned(cn) /\ Single(cn)

Stages == {"idle", "dial", "wait", "read", "failed"}

\* The parts of the type invariant.  A connection is used after it was opened,
\* and only then.
Ongoing(n) ==
    {x \in [pc : Stages, on : 0 .. opened[n]] : x.pc \in {"wait", "read", "failed"} => x.on # 0}
CallsTyped == DOMAIN call = Node /\ \A n \in Node : call[n] \in [Call -> Ongoing(n)]
Pools ==
    /\ DOMAIN pool = Node /\ DOMAIN opened = Node
    /\ \A n \in Node : pool[n] \in 0 .. opened[n] /\ opened[n] \in 0 .. MaxConns[n]
Locks ==
    \A n \in Node : \A c \in Call, k \in Conns(n) :
        conn[n][k].lock = c <=> call[n][c] = [pc |-> "read", on |-> k]
Connections ==
    /\ DOMAIN conn = Node
    /\ \A n \in Node :
          /\ DOMAIN conn[n] = Conns(n) /\ conn[n] = [k \in Conns(n) |-> conn[n][k]]
          /\ \A k \in Conns(n) :
                Good(conn[n][k]) /\ (k > opened[n] => conn[n][k] = Unused)

\* Somebody else's answer may come next.
OutOfStep(cn) ==
    \/ \E i \in DOMAIN cn.sent : cn.sent[i].late
    \/ cn.at # None /\ cn.at.late
    \/ \E i \in DOMAIN cn.answers : cn.answers[i] = None

\* A pooled connection on which somebody else's answer may come next is on
\* its way out: the call that gave up on it has still to drop what is pooled
\* (rpc.go:213-216).  Calls that find the mutex free before that do read it.
PooledInStep ==
    \A n \in Node :
        pool[n] # 0 /\ conn[n][pool[n]].open /\ OutOfStep(conn[n][pool[n]])
            => \E c \in Call : call[n][c] = [pc |-> "failed", on |-> pool[n]]

IInv == CallsTyped /\ Pools /\ Locks /\ Connections /\ PooledInStep

-----------------------------------------------------------------------------
(* What happens to a connection.                                           *)

\* A connection that nobody has used, or that was just opened.
LEMMA FreshGood ==
    /\ Good(Unused) /\ ~OutOfStep(Unused)
    /\ Good([Unused EXCEPT !.open = TRUE]) /\ ~OutOfStep([Unused EXCEPT !.open = TRUE])
    /\ Unused.lock = None /\ [Unused EXCEPT !.open = TRUE].lock = None
<1>1. <<>> \in Seq(Item) /\ <<>> \in Seq(Call \union {None}) /\ DOMAIN <<>> = {}
  BY EmptySeq
<1>2. QED
  BY <1>1 DEF Good, Unused, Conn, Owned, Single, OutOfStep

LEMMA ClosedGood ==
    ASSUME NEW cn, Good(cn)
    PROVE  Good(Closed(cn)) /\ Closed(cn).lock = cn.lock /\ ~Closed(cn).open
<1>1. <<>> \in Seq(Item) /\ <<>> \in Seq(Call \union {None}) /\ DOMAIN <<>> = {}
  BY EmptySeq
<1>2. cn \in Conn
  BY DEF Good
<1> DEFINE x == Closed(cn)
<1>3. /\ x \in Conn /\ x.lock = cn.lock /\ ~x.open /\ x.sent = <<>> /\ x.answers = <<>>
      /\ x.at = None \/ x.at = cn.at
  BY <1>1, <1>2 DEF Closed, Conn
<1> HIDE DEF x
<1>4. Owned(x) /\ Single(x)
  BY <1>1, <1>3 DEF Good, Owned, Single
<1>5. QED
  BY <1>3, <1>4 DEF Good, x

\* A call that has taken the mutex writes its request.
LEMMA WrittenGood ==
    ASSUME NEW cn, Good(cn), cn.lock = None, NEW c \in Call
    PROVE  LET x == Requested(cn, c)
           IN  /\ Good(x) /\ x.lock = c /\ x.open = cn.open
               /\ OutOfStep(x) => OutOfStep(cn)
<1> DEFINE r == [of |-> c, late |-> FALSE]
           sent == Append(cn.sent, r)
           x == [cn EXCEPT !.lock = c, !.sent = sent]
<1>1. cn \in Conn /\ cn.sent \in Seq(Item) /\ r \in Item
  BY DEF Good, Conn, Item
<1>2. /\ sent \in Seq(Item) /\ Len(cn.sent) \in Nat
      /\ DOMAIN sent = 1 .. Len(cn.sent) + 1 /\ DOMAIN cn.sent = 1 .. Len(cn.sent)
      /\ \A i \in 1 .. Len(cn.sent) : sent[i] = cn.sent[i]
      /\ sent[Len(cn.sent) + 1] = r
  BY <1>1, AppendProperties, LenProperties
<1> HIDE DEF sent
<1>3. /\ x \in Conn /\ x.lock = c /\ x.open = cn.open /\ x.sent = sent
      /\ x.at = cn.at /\ x.answers = cn.answers
  BY <1>1, <1>2 DEF Conn
<1>4. /\ \A i \in DOMAIN cn.sent : cn.sent[i].late
      /\ cn.at = None \/ cn.at.late
      /\ \A i \in DOMAIN cn.answers : cn.answers[i] = None
  <2>1. \A i \in DOMAIN cn.sent : cn.sent[i] \in Item
    BY <1>1, ElementOfSeq, LenProperties
  <2>2. cn.at = None \/ cn.at \in Handled
    BY <1>1 DEF Conn
  <2>3. QED
    BY <2>1, <2>2, NoneAssumption DEF Good, Owned, Item, Handled
<1> HIDE DEF x
<1>5. \A i \in DOMAIN sent : sent[i].late \/ (i = Len(cn.sent) + 1 /\ sent[i] = r)
  BY <1>2, <1>4
<1>6. Owned(x) /\ Single(x)
  BY <1>3, <1>4, <1>5 DEF Owned, Single
<1>7. OutOfStep(x) => OutOfStep(cn)
  BY <1>2, <1>3, <1>5 DEF OutOfStep
<1>8. QED
  BY <1>3, <1>6, <1>7 DEF Good, Requested, x, sent

\* A call that holds the mutex lets go of it, and of what is on its way.
LEMMA UnlockedGood ==
    ASSUME NEW cn, Good(cn), NEW c \in Call, cn.lock = c
    PROVE  LET x == Unlocked(cn, c)
           IN  /\ Good(x) /\ x.lock = None /\ x.open = cn.open
               /\ OutOfStep(x) => \/ DOMAIN cn.sent # {} \/ DOMAIN cn.answers # {}
                                  \/ cn.at # None
<1> DEFINE x == Unlocked(cn, c)
           sent == [i \in DOMAIN cn.sent |-> Forsaken(cn.sent[i], c)]
           at == Forsaken(cn.at, c)
           answers == [i \in DOMAIN cn.answers |-> IF cn.answers[i] = c THEN None ELSE cn.answers[i]]
<1>1. cn \in Conn /\ cn.sent \in Seq(Item) /\ cn.answers \in Seq(Call \union {None})
  BY DEF Good, Conn
<1>2. /\ DOMAIN cn.sent = 1 .. Len(cn.sent) /\ Len(cn.sent) \in Nat
      /\ DOMAIN cn.answers = 1 .. Len(cn.answers) /\ Len(cn.answers) \in Nat
      /\ \A i \in DOMAIN cn.sent : cn.sent[i] \in Item
      /\ \A i \in DOMAIN cn.answers : cn.answers[i] \in Call \union {None}
  BY <1>1, ElementOfSeq, LenProperties
<1>3. ASSUME NEW i \in DOMAIN cn.sent
      PROVE  Forsaken(cn.sent[i], c) \in Item /\ Forsaken(cn.sent[i], c).late
  <2>1. cn.sent[i] \in Item /\ (cn.sent[i].late \/ cn.sent[i].of = c) /\ cn.sent[i] # None
    BY <1>2, NoneAssumption DEF Good, Owned
  <2>2. QED
    BY <2>1 DEF Forsaken, Item
<1>4. at = None \/ (at \in Handled /\ at.late)
  <2>1. cn.at = None \/ (cn.at \in Handled /\ (cn.at.late \/ cn.at.of = c))
    BY <1>1 DEF Good, Owned, Conn
  <2>2. QED
    BY <2>1 DEF Forsaken, Handled
<1>5. /\ sent \in Seq(Item) /\ DOMAIN sent = DOMAIN cn.sent
      /\ \A i \in DOMAIN sent : sent[i].late
  BY <1>2, <1>3, SeqDef
<1>6. /\ answers \in Seq(Call \union {None}) /\ DOMAIN answers = DOMAIN cn.answers
      /\ \A i \in DOMAIN answers : answers[i] = None
  <2>1. \A i \in DOMAIN cn.answers : (IF cn.answers[i] = c THEN None ELSE cn.answers[i]) = None
    BY DEF Good, Owned
  <2>2. QED
    BY <1>2, <2>1, SeqDef
<1>7. /\ x.lock = None /\ x.sent = sent /\ x.at = at /\ x.answers = answers
      /\ x.open = cn.open
  BY <1>1 DEF Unlocked, Conn
<1> HIDE DEF sent, at, answers
<1>8. at \in Handled \union {None}
  BY <1>4
<1>9. x \in Conn
  <2>1. x = [cn EXCEPT !.lock = None, !.sent = sent, !.at = at, !.answers = answers]
    BY DEF Unlocked, sent, at, answers
  <2>2. QED
    BY <1>1, <1>5, <1>6, <1>8, <2>1 DEF Conn
<1>10. cn.at = None => at = None
  BY DEF at, Forsaken
<1> HIDE DEF x
<1>11. Owned(x) /\ Single(x)
  BY <1>4, <1>5, <1>6, <1>7 DEF Owned, Single
<1>12. OutOfStep(x) => DOMAIN cn.sent # {} \/ DOMAIN cn.answers # {} \/ cn.at # None
  BY <1>5, <1>6, <1>7, <1>10 DEF OutOfStep
<1>13. QED
  BY <1>7, <1>9, <1>11, <1>12 DEF Good, x

\* The answer that a call reads was meant for it, unless the connection was
\* out of step before.
LEMMA AnsweredGood ==
    ASSUME NEW cn, Good(cn), NEW c \in Call, cn.lock = c, cn.answers # <<>>
    PROVE  LET x == Unlocked([cn EXCEPT !.answers = Tail(@)], c)
           IN  /\ Good(x) /\ x.lock = None /\ x.open = cn.open
               /\ OutOfStep(x) => OutOfStep(cn)
<1> DEFINE y == [cn EXCEPT !.answers = Tail(@)]
           x == Unlocked(y, c)
           rest == Tail(cn.answers)
<1>1. cn \in Conn /\ cn.answers \in Seq(Call \union {None})
  BY DEF Good, Conn
<1>2. /\ rest \in Seq(Call \union {None})
      /\ Len(cn.answers) \in Nat \ {0} /\ DOMAIN cn.answers = 1 .. Len(cn.answers)
      /\ DOMAIN rest = 1 .. Len(cn.answers) - 1
      /\ \A i \in 1 .. Len(cn.answers) - 1 : rest[i] = cn.answers[i + 1]
  BY <1>1, HeadTailProperties, LenProperties, EmptySeq
<1> HIDE DEF rest
<1>3. /\ y \in Conn /\ y.lock = c /\ y.open = cn.open /\ y.sent = cn.sent
      /\ y.at = cn.at /\ y.answers = rest
  BY <1>1, <1>2 DEF Conn, rest
<1> HIDE DEF y
<1>4. \A i \in DOMAIN rest : i + 1 \in DOMAIN cn.answers /\ rest[i] = cn.answers[i + 1] /\ i \in Int
  BY <1>2
<1>5. Owned(y)
  BY <1>3, <1>4 DEF Good, Owned
<1>6. Single(y)
  <2>1. \A i, j \in DOMAIN rest : i = j \/ rest[i] = None \/ rest[j] = None
    <3>1. SUFFICES ASSUME NEW i \in DOMAIN rest, NEW j \in DOMAIN rest, i # j
                   PROVE  rest[i] = None \/ rest[j] = None
      OBVIOUS
    <3>2. i + 1 \in DOMAIN cn.answers /\ j + 1 \in DOMAIN cn.answers /\ i + 1 # j + 1
      BY <1>4, <3>1
    <3>3. cn.answers[i + 1] = None \/ cn.answers[j + 1] = None
      BY <3>2 DEF Good, Single
    <3>4. QED
      BY <1>4, <3>3
  <2>2. QED
    BY <1>3, <1>4, <2>1 DEF Good, Single
<1>7. Good(y)
  BY <1>3, <1>5, <1>6 DEF Good
<1>8. ASSUME ~OutOfStep(cn)
      PROVE  DOMAIN y.sent = {} /\ DOMAIN y.answers = {} /\ y.at = None
  <2>1. /\ 1 \in DOMAIN cn.answers /\ cn.answers[1] # None
        /\ \A i \in DOMAIN cn.answers : cn.answers[i] # None
        /\ \A i \in DOMAIN cn.sent : ~cn.sent[i].late
        /\ cn.at = None \/ ~cn.at.late
    BY <1>2, <1>8 DEF OutOfStep
  <2>2. DOMAIN cn.sent = {} /\ cn.at = None
    BY <2>1 DEF Good, Single
  <2>3. DOMAIN rest = {}
    <3>1. SUFFICES ASSUME NEW i \in DOMAIN rest PROVE FALSE
      OBVIOUS
    <3>2. i + 1 \in DOMAIN cn.answers /\ i + 1 # 1
      BY <1>2
    <3>3. QED
      BY <2>1, <3>2 DEF Good, Single
  <2>4. QED
    BY <1>3, <2>2, <2>3
<1>9. Good(x) /\ x.lock = None /\ x.open = cn.open /\ (OutOfStep(x) => OutOfStep(cn))
  BY <1>3, <1>7, <1>8, UnlockedGood
<1>10. QED
  BY <1>9 DEF y

\* The server takes a request, and handles it or refuses it at once.
LEMMA ReceivedGood ==
    ASSUME NEW cn, Good(cn), cn.at = None, cn.sent # <<>>
    PROVE  LET x == Accepted(cn, Head(cn.sent))
               y == Refused(cn, Head(cn.sent))
           IN  /\ Good(x) /\ x.lock = cn.lock /\ x.open = cn.open
               /\ OutOfStep(x) => OutOfStep(cn)
               /\ Good(y) /\ y.lock = cn.lock /\ y.open = cn.open
               /\ OutOfStep(y) => OutOfStep(cn)
<1> DEFINE it == Head(cn.sent)
           rest == Tail(cn.sent)
           at == [of |-> it.of, late |-> it.late, pulling |-> FALSE]
           a == Addressee(it)
           answers == Append(cn.answers, a)
           x == [cn EXCEPT !.sent = rest, !.at = at]
           y == [cn EXCEPT !.sent = rest, !.answers = answers]
<1>1. cn \in Conn /\ cn.sent \in Seq(Item) /\ cn.answers \in Seq(Call \union {None})
  BY DEF Good, Conn
<1>2. /\ rest \in Seq(Item) /\ it \in Item /\ it = cn.sent[1]
      /\ Len(cn.sent) \in Nat \ {0} /\ DOMAIN cn.sent = 1 .. Len(cn.sent)
      /\ DOMAIN rest = 1 .. Len(cn.sent) - 1
      /\ \A i \in 1 .. Len(cn.sent) - 1 : rest[i] = cn.sent[i + 1]
  BY <1>1, HeadTailProperties, LenProperties, EmptySeq, ElementOfSeq
<1>3. at \in Handled /\ at.of = it.of /\ at.late = it.late /\ at # None
  <2> HIDE DEF it
  <2>1. it.of \in Call /\ it.late \in BOOLEAN
    BY <1>2 DEF Item
  <2>2. at \in Handled
    BY <2>1 DEF Handled
  <2>3. at # None
    BY <2>2, NoneAssumption
  <2>4. QED
    BY <2>2, <2>3
<1>4. a \in Call \union {None} /\ a = IF it.late THEN None ELSE it.of
  BY <1>2 DEF Item, Addressee
<1>5. /\ answers \in Seq(Call \union {None}) /\ Len(cn.answers) \in Nat
      /\ DOMAIN answers = 1 .. Len(cn.answers) + 1 /\ DOMAIN cn.answers = 1 .. Len(cn.answers)
      /\ \A i \in 1 .. Len(cn.answers) : answers[i] = cn.answers[i]
      /\ answers[Len(cn.answers) + 1] = a
  BY <1>1, <1>4, AppendProperties, LenProperties
<1> HIDE DEF it, rest, at, a, answers
<1>6. /\ \A i \in DOMAIN rest : i + 1 \in DOMAIN cn.sent /\ rest[i] = cn.sent[i + 1]
                                /\ i \in Int /\ i + 1 # 1
      /\ 1 \in DOMAIN cn.sent
  BY <1>2
<1>7. /\ \A i \in DOMAIN rest : rest[i].late \/ rest[i].of = cn.lock
      /\ \A i, j \in DOMAIN rest : i = j \/ rest[i].late \/ rest[j].late
      /\ \A i \in DOMAIN rest, j \in DOMAIN cn.answers : rest[i].late \/ cn.answers[j] = None
      /\ \A i \in DOMAIN rest : it.late \/ rest[i].late
      /\ \A j \in DOMAIN cn.answers : it.late \/ cn.answers[j] = None
      /\ it.late \/ it.of = cn.lock
      /\ (\E i \in DOMAIN rest : rest[i].late) => \E i \in DOMAIN cn.sent : cn.sent[i].late
  <2>1. \A i \in DOMAIN rest : /\ rest[i].late \/ rest[i].of = cn.lock
                               /\ it.late \/ rest[i].late
    BY <1>2, <1>6 DEF Good, Owned, Single
  <2>2. ASSUME NEW i \in DOMAIN rest, NEW j \in DOMAIN rest, i # j
        PROVE  rest[i].late \/ rest[j].late
    <3>1. i + 1 \in DOMAIN cn.sent /\ j + 1 \in DOMAIN cn.sent /\ i + 1 # j + 1
      BY <1>6, <2>2
    <3>2. cn.sent[i + 1].late \/ cn.sent[j + 1].late
      BY <3>1 DEF Good, Single
    <3>3. QED
      BY <1>6, <3>2
  <2>3. \A i \in DOMAIN rest, j \in DOMAIN cn.answers : rest[i].late \/ cn.answers[j] = None
    BY <1>6 DEF Good, Single
  <2>4. /\ \A j \in DOMAIN cn.answers : it.late \/ cn.answers[j] = None
        /\ it.late \/ it.of = cn.lock
    BY <1>2, <1>6 DEF Good, Single, Owned
  <2>5. (\E i \in DOMAIN rest : rest[i].late) => \E i \in DOMAIN cn.sent : cn.sent[i].late
    BY <1>6
  <2>6. QED
    BY <2>1, <2>2, <2>3, <2>4, <2>5
<1>8. /\ x \in Conn /\ x.lock = cn.lock /\ x.open = cn.open /\ x.sent = rest
      /\ x.at = at /\ x.answers = cn.answers
      /\ y \in Conn /\ y.lock = cn.lock /\ y.open = cn.open /\ y.sent = rest
      /\ y.at = None /\ y.answers = answers
  BY <1>1, <1>2, <1>3, <1>5 DEF Conn
<1> HIDE DEF x, y
<1>9. Good(x) /\ (OutOfStep(x) => OutOfStep(cn))
  <2>1. Owned(x)
    BY <1>3, <1>7, <1>8 DEF Good, Owned
  <2>2. Single(x)
    BY <1>3, <1>7, <1>8 DEF Good, Single
  <2>3. OutOfStep(x) => OutOfStep(cn)
    BY <1>2, <1>3, <1>6, <1>7, <1>8 DEF OutOfStep
  <2>4. QED
    BY <1>8, <2>1, <2>2, <2>3 DEF Good
<1>10. Good(y) /\ (OutOfStep(y) => OutOfStep(cn))
  <2>1. \A i \in DOMAIN answers :
           \/ i \in DOMAIN cn.answers /\ answers[i] = cn.answers[i]
           \/ i = Len(cn.answers) + 1 /\ answers[i] = a
    BY <1>5
  <2>2. Owned(y)
    BY <1>4, <1>7, <1>8, <2>1 DEF Good, Owned
  <2>3. Single(y)
    BY <1>4, <1>7, <1>8, <2>1 DEF Good, Single
  <2>4. OutOfStep(y) => OutOfStep(cn)
    <3>1. a = None => it.late
      BY <1>2, <1>4, NoneAssumption DEF Item
    <3>2. QED
      BY <1>2, <1>6, <1>7, <1>8, <2>1, <3>1 DEF OutOfStep
  <2>5. QED
    BY <1>8, <2>2, <2>3, <2>4 DEF Good
<1>11. QED
  BY <1>8, <1>9, <1>10 DEF Accepted, Refused, x, y, rest, at, a, answers, it

\* The handler pulls.
LEMMA PullingGood ==
    ASSUME NEW cn, Good(cn), cn.at # None
    PROVE  LET x == [cn EXCEPT !.at.pulling = TRUE]
           IN  /\ Good(x) /\ x.lock = cn.lock /\ x.open = cn.open
               /\ OutOfStep(x) => OutOfStep(cn)
<1> DEFINE x == [cn EXCEPT !.at.pulling = TRUE]
<1>1. cn \in Conn /\ cn.at \in Handled
  BY DEF Good, Conn
<1>2. x.at \in Handled /\ x.at.of = cn.at.of /\ x.at.late = cn.at.late /\ x.at # None
  BY <1>1, NoneAssumption DEF Conn, Handled
<1>3. /\ x \in Conn /\ x.lock = cn.lock /\ x.open = cn.open /\ x.sent = cn.sent
      /\ x.answers = cn.answers
  BY <1>1 DEF Conn, Handled
<1> HIDE DEF x
<1>4. Owned(x) /\ Single(x) /\ (OutOfStep(x) => OutOfStep(cn))
  BY <1>2, <1>3 DEF Good, Owned, Single, OutOfStep
<1>5. QED
  BY <1>3, <1>4 DEF Good, x

\* The handler is done.
LEMMA RespondedGood ==
    ASSUME NEW cn, Good(cn), cn.at # None
    PROVE  LET x == Answered(cn)
           IN  /\ Good(x) /\ x.lock = cn.lock /\ x.open = cn.open
               /\ OutOfStep(x) => OutOfStep(cn)
<1> DEFINE a == Addressee(cn.at)
           added == Append(cn.answers, a)
           answers == IF cn.open THEN added ELSE cn.answers
           x == [cn EXCEPT !.at = None, !.answers = answers]
<1>1. cn \in Conn /\ cn.at \in Handled /\ cn.answers \in Seq(Call \union {None})
  BY DEF Good, Conn
<1>2. a \in Call \union {None} /\ a = (IF cn.at.late THEN None ELSE cn.at.of)
  BY <1>1 DEF Handled, Addressee
<1>3. /\ added \in Seq(Call \union {None}) /\ Len(cn.answers) \in Nat
      /\ DOMAIN added = 1 .. Len(cn.answers) + 1 /\ DOMAIN cn.answers = 1 .. Len(cn.answers)
      /\ \A i \in 1 .. Len(cn.answers) : added[i] = cn.answers[i]
      /\ added[Len(cn.answers) + 1] = a
  BY <1>1, <1>2, AppendProperties, LenProperties
<1> HIDE DEF a, added
<1>4. /\ answers \in Seq(Call \union {None})
      /\ \A i \in DOMAIN answers :
            \/ i \in DOMAIN cn.answers /\ answers[i] = cn.answers[i]
            \/ i = Len(cn.answers) + 1 /\ answers[i] = a
  BY <1>1, <1>3
<1> HIDE DEF answers
<1>5. /\ x \in Conn /\ x.lock = cn.lock /\ x.open = cn.open /\ x.sent = cn.sent
      /\ x.at = None /\ x.answers = answers
  BY <1>1, <1>4 DEF Conn
<1> HIDE DEF x
<1>6. Owned(x)
  BY <1>2, <1>4, <1>5 DEF Good, Owned
<1>7. Single(x)
  BY <1>2, <1>4, <1>5 DEF Good, Single
<1>8. OutOfStep(x) => OutOfStep(cn)
  <2>1. a = None => cn.at.late
    BY <1>1, <1>2, NoneAssumption DEF Handled
  <2>2. QED
    BY <1>4, <1>5, <2>1 DEF OutOfStep
<1>9. QED
  BY <1>5, <1>6, <1>7, <1>8 DEF Good, Answered, x, answers, added, a

-----------------------------------------------------------------------------
(* The state.                                                              *)

\* Connections are only opened.
Grows ==
    \A n \in Node : opened[n] \in Nat /\ opened'[n] \in Nat /\ opened'[n] >= opened[n]

\* One connection changes.
LEMMA ConnAt ==
    ASSUME Connections, Pools, NEW n \in Node, NEW k \in Conns(n), NEW x, Good(x),
           conn' = [conn EXCEPT ![n][k] = x], opened'[n] >= k, Grows
    PROVE  /\ Connections' /\ conn'[n][k] = x
           /\ \A m \in Node : \A j \in Conns(m) :
                 m # n \/ j # k => conn'[m][j] = conn[m][j]
<1>1. /\ DOMAIN conn = Node
      /\ \A m \in Node : DOMAIN conn[m] = Conns(m) /\ conn[m] = [j \in Conns(m) |-> conn[m][j]]
      /\ \A m \in Node : opened[m] \in Int /\ MaxConns[m] \in Nat
  <2>1. \A m \in Node : MaxConns[m] \in Nat
    BY MaxConnsAssumption
  <2>2. \A m \in Node : opened[m] \in Int
    BY <2>1 DEF Pools
  <2>3. QED
    BY <2>1, <2>2 DEF Connections
<1> DEFINE f == [conn[n] EXCEPT ![k] = x]
<1>2. /\ DOMAIN f = Conns(n) /\ f = [j \in Conns(n) |-> f[j]] /\ f[k] = x
      /\ \A j \in Conns(n) : j # k => f[j] = conn[n][j]
  BY <1>1
<1>3. conn' = [conn EXCEPT ![n] = f]
  OBVIOUS
<1> HIDE DEF f
<1>4. DOMAIN conn' = Node /\ conn'[n] = f /\ \A m \in Node \ {n} : conn'[m] = conn[m]
  BY <1>1, <1>3
<1>5. \A m \in Node : DOMAIN conn'[m] = Conns(m) /\ conn'[m] = [j \in Conns(m) |-> conn'[m][j]]
  BY <1>1, <1>2, <1>4
<1>6. /\ conn'[n][k] = x
      /\ \A m \in Node : \A j \in Conns(m) : m # n \/ j # k => conn'[m][j] = conn[m][j]
  BY <1>2, <1>4
<1>7. ASSUME NEW m \in Node, NEW j \in Conns(m)
      PROVE  Good(conn'[m][j]) /\ (j > opened'[m] => conn'[m][j] = Unused)
  <2>1. j \in Int /\ opened[m] \in Int
    BY <1>1 DEF Conns
  <2>2. CASE m = n /\ j = k
    BY <1>6, <2>1, <2>2 DEF Grows
  <2>3. CASE m # n \/ j # k
    BY <1>6, <2>1, <2>3 DEF Connections, Grows
  <2>4. QED
    BY <2>2, <2>3
<1>8. Connections'
  BY <1>4, <1>5, <1>7 DEF Connections, Conns
<1>9. QED
  BY <1>6, <1>8

\* One call goes on.
LEMMA CallAt ==
    ASSUME CallsTyped, Grows, NEW n \in Node, NEW c \in Call, NEW x \in Ongoing(n)',
           call' = [call EXCEPT ![n][c] = x]
    PROVE  /\ CallsTyped' /\ call'[n][c] = x
           /\ \A m \in Node, d \in Call : m # n \/ d # c => call'[m][d] = call[m][d]
<1>1. ASSUME NEW m \in Node
      PROVE  call[m] \in [Call -> Ongoing(m)']
  <2>1. call[m] \in [Call -> Ongoing(m)]
    BY DEF CallsTyped
  <2>2. \A z \in Ongoing(m) : z \in Ongoing(m)'
    BY DEF Ongoing, Grows
  <2>3. QED
    BY <2>1, <2>2
<1> DEFINE f == [call[n] EXCEPT ![c] = x]
<1>2. /\ f \in [Call -> Ongoing(n)'] /\ f[c] = x
      /\ \A d \in Call : d # c => f[d] = call[n][d]
  BY <1>1
<1>3. call' = [call EXCEPT ![n] = f]
  OBVIOUS
<1> HIDE DEF f
<1>4. DOMAIN call' = Node /\ call'[n] = f /\ \A m \in Node \ {n} : call'[m] = call[m]
  BY <1>3 DEF CallsTyped
<1>5. /\ call'[n][c] = x
      /\ \A m \in Node, d \in Call : m # n \/ d # c => call'[m][d] = call[m][d]
  BY <1>2, <1>4
<1>6. \A m \in Node : call'[m] \in [Call -> Ongoing(m)']
  BY <1>1, <1>2, <1>4
<1>7. CallsTyped'
  BY <1>4, <1>6 DEF CallsTyped
<1>8. QED
  BY <1>5, <1>7

\* The places a call and a pool may name are connections that were opened.
LEMMA Places ==
    ASSUME Pools, CallsTyped, NEW n \in Node
    PROVE  /\ opened[n] \in Nat /\ pool[n] \in 0 .. opened[n]
           /\ \A k \in 1 .. opened[n] : k \in Conns(n) /\ k <= opened[n]
           /\ \A c \in Call : /\ call[n][c] = [pc |-> call[n][c].pc, on |-> call[n][c].on]
                              /\ call[n][c].pc \in Stages /\ call[n][c].on \in 0 .. opened[n]
                              /\ call[n][c].pc \in {"wait", "read", "failed"}
                                    => call[n][c].on \in 1 .. opened[n]
<1>1. MaxConns[n] \in Nat
  BY MaxConnsAssumption
<1>2. opened[n] \in 0 .. MaxConns[n] /\ pool[n] \in 0 .. opened[n]
  BY DEF Pools
<1>3. \A k \in 1 .. opened[n] : k \in Conns(n) /\ k <= opened[n]
  BY <1>1, <1>2 DEF Conns
<1>4. ASSUME NEW c \in Call
      PROVE  /\ call[n][c] = [pc |-> call[n][c].pc, on |-> call[n][c].on]
             /\ call[n][c].pc \in Stages /\ call[n][c].on \in 0 .. opened[n]
             /\ call[n][c].pc \in {"wait", "read", "failed"}
                   => call[n][c].on \in 1 .. opened[n]
  <2>1. call[n][c] \in Ongoing(n)
    BY DEF CallsTyped
  <2>2. /\ call[n][c] \in [pc : Stages, on : 0 .. opened[n]]
        /\ call[n][c].pc \in {"wait", "read", "failed"} => call[n][c].on # 0
    BY <2>1 DEF Ongoing
  <2>3. call[n][c].on \in 0 .. opened[n]
    BY <2>2
  <2>4. QED
    BY <1>1, <1>2, <2>2, <2>3
<1>5. QED
  BY <1>1, <1>2, <1>3, <1>4

\* Somebody else than a call that reads or has failed takes a step, and what
\* it does to a connection, if anything, brings nothing late.
LEMMA QuietStep ==
    ASSUME IInv, UNCHANGED <<pool, opened>>, CallsTyped', Connections',
           \A n \in Node : \A k \in Conns(n) :
              /\ conn'[n][k].lock = conn[n][k].lock
              /\ conn'[n][k].open /\ OutOfStep(conn'[n][k])
                    => conn[n][k].open /\ OutOfStep(conn[n][k]),
           \A n \in Node, c \in Call :
              \/ call'[n][c] = call[n][c]
              \/ call[n][c].pc \notin {"read", "failed"} /\ call'[n][c].pc \notin {"read", "failed"}
    PROVE  IInv'
<1>1. CallsTyped /\ Pools /\ Locks /\ Connections /\ PooledInStep
  BY DEF IInv
<1>2. Pools'
  BY <1>1 DEF Pools
<1>3. Locks'
  <2>1. SUFFICES ASSUME NEW n \in Node, NEW c \in Call, NEW k \in Conns(n)
                 PROVE  conn'[n][k].lock = c <=> call'[n][c] = [pc |-> "read", on |-> k]
    BY DEF Locks, Conns
  <2>2. conn[n][k].lock = c <=> call[n][c] = [pc |-> "read", on |-> k]
    BY <1>1 DEF Locks
  <2>3. call'[n][c] = [pc |-> "read", on |-> k] <=> call[n][c] = [pc |-> "read", on |-> k]
    OBVIOUS
  <2>4. QED
    BY <2>2, <2>3
<1>4. PooledInStep'
  <2>1. SUFFICES ASSUME NEW n \in Node, pool'[n] # 0, conn'[n][pool'[n]].open,
                        OutOfStep(conn'[n][pool'[n]])
                 PROVE  \E c \in Call : call'[n][c] = [pc |-> "failed", on |-> pool'[n]]
    BY DEF PooledInStep, OutOfStep
  <2> DEFINE k == pool[n]
  <2>2. k \in Conns(n) /\ k # 0 /\ pool'[n] = k
    BY <1>1, <2>1, Places
  <2>3. conn[n][k].open /\ OutOfStep(conn[n][k])
    BY <2>1, <2>2
  <2>4. PICK c \in Call : call[n][c] = [pc |-> "failed", on |-> k]
    BY <1>1, <2>2, <2>3 DEF PooledInStep
  <2>5. call'[n][c] = call[n][c]
    BY <2>4
  <2>6. QED
    BY <2>2, <2>4, <2>5
<1>5. QED
  BY <1>2, <1>3, <1>4 DEF IInv

\* A call that waits takes the mutex, or one that holds it lets go, or one
\* that waits fails (callOn).
LEMMA CallStep ==
    ASSUME IInv, UNCHANGED <<pool, opened>>, NEW n \in Node, NEW c \in Call,
           NEW k \in 1 .. opened[n], NEW x, NEW y, Good(x),
           conn' = [conn EXCEPT ![n][k] = x], call' = [call EXCEPT ![n][c] = y],
           y \in Ongoing(n), call[n][c].pc # "failed",
           \/ conn[n][k].lock = None /\ x.lock = c
              /\ call[n][c].pc # "read" /\ y = [pc |-> "read", on |-> k]
           \/ conn[n][k].lock = c /\ x.lock = None
              /\ call[n][c] = [pc |-> "read", on |-> k] /\ y.pc # "read"
           \/ conn[n][k].lock = x.lock /\ call[n][c].pc # "read" /\ y.pc # "read",
           x.open /\ OutOfStep(x)
              => \/ y = [pc |-> "failed", on |-> k]
                 \/ conn[n][k].open /\ OutOfStep(conn[n][k])
    PROVE  IInv'
<1>1. CallsTyped /\ Pools /\ Locks /\ Connections /\ PooledInStep
  BY DEF IInv
<1>2. Pools'
  BY <1>1 DEF Pools
<1>3. /\ k \in Conns(n) /\ opened[n] >= k
      /\ \A m \in Node : opened[m] \in Nat
      /\ \A m \in Node : pool[m] \in 0 .. opened[m]
                         /\ \A j \in 1 .. opened[m] : j \in Conns(m) /\ j <= opened[m]
  BY <1>1, Places
<1>4. /\ Connections' /\ conn'[n][k] = x
      /\ \A m \in Node : \A j \in Conns(m) : m # n \/ j # k => conn'[m][j] = conn[m][j]
  <2>1. Grows /\ opened'[n] >= k
    BY <1>3 DEF Grows
  <2>2. QED
    BY <1>1, <1>3, <2>1, ConnAt
<1>5. /\ CallsTyped' /\ call'[n][c] = y
      /\ \A m \in Node, d \in Call : m # n \/ d # c => call'[m][d] = call[m][d]
  <2>1. Grows /\ y \in Ongoing(n)'
    BY <1>3 DEF Grows, Ongoing
  <2>2. QED
    BY <1>1, <2>1, CallAt
<1>6. Locks'
  <2>1. SUFFICES ASSUME NEW m \in Node, NEW d \in Call, NEW j \in Conns(m)
                 PROVE  conn'[m][j].lock = d <=> call'[m][d] = [pc |-> "read", on |-> j]
    BY DEF Locks, Conns
  <2>2. conn[m][j].lock = d <=> call[m][d] = [pc |-> "read", on |-> j]
    BY <1>1 DEF Locks
  <2>3. None \notin Call
    BY NoneAssumption
  <2>4. CASE m = n /\ j = k /\ d = c
    BY <1>4, <1>5, <2>2, <2>3, <2>4
  <2>5. CASE m = n /\ j = k /\ d # c
    BY <1>4, <1>5, <2>2, <2>3, <2>5
  <2>6. CASE m = n /\ j # k /\ d = c
    BY <1>4, <1>5, <2>2, <2>6
  <2>7. CASE m # n \/ (j # k /\ d # c)
    BY <1>4, <1>5, <2>2, <2>7
  <2>8. QED
    BY <2>4, <2>5, <2>6, <2>7
<1>7. PooledInStep'
  <2>1. SUFFICES ASSUME NEW m \in Node, pool'[m] # 0, conn'[m][pool'[m]].open,
                        OutOfStep(conn'[m][pool'[m]])
                 PROVE  \E d \in Call : call'[m][d] = [pc |-> "failed", on |-> pool'[m]]
    BY DEF PooledInStep, OutOfStep
  <2> DEFINE j == pool[m]
  <2>2. j \in Conns(m) /\ j # 0 /\ pool'[m] = j
    BY <1>3, <2>1
  <2>3. \/ m = n /\ y = [pc |-> "failed", on |-> j]
        \/ conn[m][j].open /\ OutOfStep(conn[m][j])
    BY <1>4, <2>1, <2>2
  <2>4. CASE m = n /\ y = [pc |-> "failed", on |-> j]
    BY <1>5, <2>2, <2>4
  <2>5. CASE conn[m][j].open /\ OutOfStep(conn[m][j])
    <3>1. PICK d \in Call : call[m][d] = [pc |-> "failed", on |-> j]
      BY <1>1, <2>2, <2>5 DEF PooledInStep
    <3>2. m # n \/ d # c
      BY <3>1
    <3>3. call'[m][d] = call[m][d]
      BY <1>5, <3>2
    <3>4. QED
      BY <2>2, <3>1, <3>3
  <2>6. QED
    BY <2>3, <2>4, <2>5
<1>8. QED
  BY <1>2, <1>4, <1>5, <1>6, <1>7 DEF IInv

\* A connection that is in use was opened.
LEMMA InUse ==
    ASSUME IInv, NEW n \in Node, NEW k \in Conns(n),
           conn[n][k].open \/ conn[n][k].at # None
    PROVE  k \in 1 .. opened[n] /\ Good(conn[n][k])
<1>1. conn[n][k] # Unused
  BY DEF Unused
<1>2. k \in Nat \ {0} /\ opened[n] \in Nat
  BY MaxConnsAssumption, Places DEF Conns, IInv
<1>3. QED
  BY <1>1, <1>2 DEF IInv, Connections

\* The server or the network changes one connection.
LEMMA ConnStep ==
    ASSUME IInv, UNCHANGED <<pool, opened, call>>, NEW n \in Node, NEW k \in 1 .. opened[n],
           NEW x, Good(x), conn' = [conn EXCEPT ![n][k] = x], x.lock = conn[n][k].lock,
           x.open /\ OutOfStep(x) => conn[n][k].open /\ OutOfStep(conn[n][k])
    PROVE  IInv'
<1>1. k \in Conns(n) /\ opened'[n] >= k /\ Grows
  BY Places DEF IInv, Grows
<1>2. /\ Connections' /\ conn'[n][k] = x
      /\ \A m \in Node : \A j \in Conns(m) : m # n \/ j # k => conn'[m][j] = conn[m][j]
  BY <1>1, ConnAt DEF IInv
<1>3. CallsTyped'
  BY DEF IInv, CallsTyped, Ongoing
<1>4. ASSUME NEW m \in Node, NEW j \in Conns(m)
      PROVE  /\ conn'[m][j].lock = conn[m][j].lock
             /\ conn'[m][j].open /\ OutOfStep(conn'[m][j])
                   => conn[m][j].open /\ OutOfStep(conn[m][j])
  <2>1. CASE m = n /\ j = k
    BY <1>2, <2>1
  <2>2. CASE m # n \/ j # k
    BY <1>2, <2>2
  <2>3. QED
    BY <2>1, <2>2
<1>5. QED
  BY <1>2, <1>3, <1>4, QuietStep

LEMMA ReceiveStep ==
    ASSUME IInv, NEW n \in Node, NEW k \in Conns(n), Receive(n, k)
    PROVE  IInv'
<1> DEFINE cn == conn[n][k]
           x == Accepted(cn, Head(cn.sent))
           y == Refused(cn, Head(cn.sent))
<1>1. /\ cn.open /\ cn.at = None /\ cn.sent # <<>> /\ UNCHANGED <<pool, opened, call>>
      /\ conn' = [conn EXCEPT ![n][k] = x] \/ conn' = [conn EXCEPT ![n][k] = y]
  BY DEF Receive
<1>2. k \in 1 .. opened[n] /\ Good(cn)
  BY <1>1, InUse
<1>3. /\ Good(x) /\ x.lock = cn.lock /\ x.open = cn.open /\ (OutOfStep(x) => OutOfStep(cn))
      /\ Good(y) /\ y.lock = cn.lock /\ y.open = cn.open /\ (OutOfStep(y) => OutOfStep(cn))
  BY <1>1, <1>2, ReceivedGood
<1> HIDE DEF x, y
<1>4. QED
  BY <1>1, <1>2, <1>3, ConnStep

LEMMA RespondStep ==
    ASSUME IInv, NEW n \in Node, NEW k \in Conns(n), Respond(n, k)
    PROVE  IInv'
<1> DEFINE cn == conn[n][k]
           x == Answered(cn)
<1>1. /\ cn.at # None /\ UNCHANGED <<pool, opened, call>>
      /\ conn' = [conn EXCEPT ![n][k] = x]
  BY DEF Respond
<1>2. k \in 1 .. opened[n] /\ Good(cn)
  BY <1>1, InUse
<1>3. Good(x) /\ x.lock = cn.lock /\ x.open = cn.open /\ (OutOfStep(x) => OutOfStep(cn))
  BY <1>1, <1>2, RespondedGood
<1> HIDE DEF x
<1>4. QED
  BY <1>1, <1>2, <1>3, ConnStep

LEMMA BreakStep ==
    ASSUME IInv, NEW n \in Node, NEW k \in Conns(n), Break(n, k)
    PROVE  IInv'
<1> DEFINE cn == conn[n][k]
           x == Closed(cn)
<1>1. cn.open /\ UNCHANGED <<pool, opened, call>> /\ conn' = [conn EXCEPT ![n][k] = x]
  BY DEF Break
<1>2. k \in 1 .. opened[n] /\ Good(cn)
  BY <1>1, InUse
<1>3. Good(x) /\ x.lock = cn.lock /\ ~x.open
  BY <1>2, ClosedGood
<1> HIDE DEF x
<1>4. QED
  BY <1>1, <1>2, <1>3, ConnStep

\* A call that begins takes the pooled connection, or dials.
LEMMA BegunType ==
    ASSUME Pools, CallsTyped, NEW n \in Node
    PROVE  Begun(n) \in Ongoing(n) /\ Begun(n).pc \in {"wait", "dial"}
<1>1. opened[n] \in Nat /\ pool[n] \in 0 .. opened[n]
  BY Places
<1>2. QED
  BY <1>1 DEF Begun, Stages, Ongoing

\* The handler of a heartbeat starts a pull of its own.
LEMMA ObserveStep ==
    ASSUME IInv, NEW n \in Node, NEW k \in Conns(n), ObserveVersion(n, k)
    PROVE  IInv'
<1> DEFINE cn == conn[n][k]
           p == Peer(n)
           x == [cn EXCEPT !.at.pulling = TRUE]
<1>1. /\ cn.at # None /\ UNCHANGED <<pool, opened>> /\ call[p]["pull"].pc = "idle"
      /\ conn' = [conn EXCEPT ![n][k] = x]
      /\ call' = [call EXCEPT ![p]["pull"] = Begun(p)]
  BY DEF ObserveVersion
<1>2. k \in 1 .. opened[n] /\ Good(cn)
  BY <1>1, InUse
<1>3. p \in Node /\ "pull" \in Call
  BY TwoNodes DEF Peer, Call
<1>4. Good(x) /\ x.lock = cn.lock /\ x.open = cn.open /\ (OutOfStep(x) => OutOfStep(cn))
  BY <1>1, <1>2, PullingGood
<1> HIDE DEF x, p
<1>5. k \in Conns(n) /\ opened'[n] >= k /\ Grows
  BY <1>1, <1>2, Places DEF IInv, Grows
<1>6. /\ Connections' /\ conn'[n][k] = x
      /\ \A m \in Node : \A j \in Conns(m) : m # n \/ j # k => conn'[m][j] = conn[m][j]
  BY <1>1, <1>4, <1>5, ConnAt DEF IInv
<1>7. Begun(p) \in Ongoing(p)' /\ Begun(p).pc \in {"wait", "dial"}
  <2>1. Begun(p) \in Ongoing(p) /\ Begun(p).pc \in {"wait", "dial"}
    BY <1>3, BegunType DEF IInv
  <2>2. QED
    BY <1>1, <2>1 DEF Ongoing
<1>8. /\ CallsTyped' /\ call'[p]["pull"] = Begun(p)
      /\ \A m \in Node, d \in Call : m # p \/ d # "pull" => call'[m][d] = call[m][d]
  BY <1>1, <1>3, <1>5, <1>7, CallAt DEF IInv
<1>9. ASSUME NEW m \in Node, NEW j \in Conns(m)
      PROVE  /\ conn'[m][j].lock = conn[m][j].lock
             /\ conn'[m][j].open /\ OutOfStep(conn'[m][j])
                   => conn[m][j].open /\ OutOfStep(conn[m][j])
  <2>1. CASE m = n /\ j = k
    BY <1>4, <1>6, <2>1
  <2>2. CASE m # n \/ j # k
    BY <1>6, <2>2
  <2>3. QED
    BY <2>1, <2>2
<1>10. ASSUME NEW m \in Node, NEW d \in Call
       PROVE  \/ call'[m][d] = call[m][d]
              \/ /\ call[m][d].pc \notin {"read", "failed"}
                 /\ call'[m][d].pc \notin {"read", "failed"}
  BY <1>1, <1>7, <1>8
<1>11. QED
  BY <1>1, <1>6, <1>8, <1>9, <1>10, QuietStep

\* A call that starts, finds a connection in the pool or cannot dial one
\* touches none.
LEMMA CallOnly ==
    ASSUME IInv, UNCHANGED <<pool, opened, conn>>, NEW n \in Node, NEW c \in Call,
           call[n][c].pc \notin {"read", "failed"}, NEW y \in Ongoing(n),
           y.pc \notin {"read", "failed"}, call' = [call EXCEPT ![n][c] = y]
    PROVE  IInv'
<1>1. Grows /\ y \in Ongoing(n)'
  <2>1. \A m \in Node : opened[m] \in Nat
    BY Places DEF IInv
  <2>2. QED
    BY <2>1 DEF Grows, Ongoing
<1>2. /\ CallsTyped' /\ call'[n][c] = y
      /\ \A m \in Node, d \in Call : m # n \/ d # c => call'[m][d] = call[m][d]
  BY <1>1, CallAt DEF IInv
<1>3. Connections'
  BY DEF IInv, Connections, Conns
<1>4. ASSUME NEW m \in Node, NEW d \in Call
      PROVE  \/ call'[m][d] = call[m][d]
             \/ call[m][d].pc \notin {"read", "failed"} /\ call'[m][d].pc \notin {"read", "failed"}
  BY <1>2
<1>5. \A m \in Node : \A k \in Conns(m) :
         /\ conn'[m][k].lock = conn[m][k].lock
         /\ conn'[m][k].open /\ OutOfStep(conn'[m][k]) => conn[m][k].open /\ OutOfStep(conn[m][k])
  OBVIOUS
<1>6. QED
  BY <1>2, <1>3, <1>4, <1>5, QuietStep

LEMMA StartStep ==
    ASSUME IInv, NEW n \in Node, NEW c \in Call, Start(n, c)
    PROVE  IInv'
<1>1. Begun(n) \in Ongoing(n) /\ Begun(n).pc \in {"wait", "dial"}
  BY BegunType DEF IInv
<1>2. QED
  BY <1>1, CallOnly DEF Start

LEMMA DialFailedStep ==
    ASSUME IInv, NEW n \in Node, NEW c \in Call, DialFailed(n, c)
    PROVE  IInv'
<1> DEFINE y == [pc |-> "idle", on |-> 0]
<1>1. /\ call[n][c].pc = "dial" /\ call' = [call EXCEPT ![n][c] = y]
      /\ UNCHANGED <<pool, opened, conn>>
  BY DEF DialFailed, Goes
<1>2. y \in Ongoing(n) /\ y.pc = "idle"
  BY Places DEF IInv, Ongoing, Stages
<1> HIDE DEF y
<1>3. QED
  BY <1>1, <1>2, CallOnly

\* A call dials, and pools what it gets unless another one was faster.
LEMMA DialedStep ==
    ASSUME IInv, NEW n \in Node, NEW c \in Call, Dialed(n, c)
    PROVE  IInv'
<1>1. /\ CallsTyped /\ Pools /\ Locks /\ Connections /\ PooledInStep
      /\ call[n][c].pc = "dial"
      /\ opened[n] \in Nat /\ pool[n] \in 0 .. opened[n]
  BY Places DEF IInv, Dialed
<1>2. CASE pool[n] # 0
  <2> DEFINE y == [pc |-> "wait", on |-> pool[n]]
  <2>1. call' = [call EXCEPT ![n][c] = y] /\ UNCHANGED <<pool, opened, conn>>
    BY <1>2 DEF Dialed, Goes
  <2>2. y \in Ongoing(n) /\ y.pc = "wait"
    BY <1>1, <1>2 DEF Ongoing, Stages
  <2> HIDE DEF y
  <2>3. QED
    BY <1>1, <2>1, <2>2, CallOnly
<1>3. CASE pool[n] = 0
  <2> DEFINE k == opened[n] + 1
             x == [conn[n][k] EXCEPT !.open = TRUE]
             y == [pc |-> "wait", on |-> k]
  <2>1. /\ k \in Conns(n) /\ opened' = [opened EXCEPT ![n] = k]
        /\ pool' = [pool EXCEPT ![n] = k]
        /\ conn' = [conn EXCEPT ![n][k] = x]
        /\ call' = [call EXCEPT ![n][c] = y]
    BY <1>3 DEF Dialed, Goes
  <2>2. /\ opened'[n] = k /\ pool'[n] = k /\ k \in Nat \ {0} /\ k > opened[n]
        /\ DOMAIN opened' = Node /\ DOMAIN pool' = Node
        /\ \A m \in Node : m # n => opened'[m] = opened[m] /\ pool'[m] = pool[m]
    BY <1>1, <2>1 DEF Pools
  <2>3. Good(x) /\ ~OutOfStep(x) /\ x.lock = None /\ conn[n][k].lock = None
    <3>1. conn[n][k] = Unused
      BY <1>1, <2>1, <2>2 DEF Connections
    <3>2. QED
      BY <3>1, FreshGood
  <2>4. Grows
    <3>1. \A m \in Node : opened[m] \in Nat
      BY <1>1, Places
    <3>2. QED
      BY <2>2, <3>1 DEF Grows
  <2>5. y \in Ongoing(n)'
    BY <2>2 DEF Ongoing, Stages
  <2> HIDE DEF k, x
  <2>6. /\ Connections' /\ conn'[n][k] = x
        /\ \A m \in Node : \A j \in Conns(m) : m # n \/ j # k => conn'[m][j] = conn[m][j]
    <3>1. opened'[n] >= k
      BY <2>2
    <3>2. QED
      BY <1>1, <2>1, <2>3, <2>4, <3>1, ConnAt
  <2>7. /\ CallsTyped' /\ call'[n][c] = y
        /\ \A m \in Node, d \in Call : m # n \/ d # c => call'[m][d] = call[m][d]
    <3> HIDE DEF y
    <3>1. QED
      BY <1>1, <2>1, <2>4, <2>5, CallAt
  <2>8. Pools'
    <3>1. k \in 0 .. MaxConns[n]
      BY <2>1, <2>2 DEF Conns
    <3>2. QED
      BY <1>1, <2>2, <3>1 DEF Pools
  <2>9. Locks'
    <3>1. SUFFICES ASSUME NEW m \in Node, NEW d \in Call, NEW j \in Conns(m)
                   PROVE  conn'[m][j].lock = d <=> call'[m][d] = [pc |-> "read", on |-> j]
      BY DEF Locks, Conns
    <3>2. conn[m][j].lock = d <=> call[m][d] = [pc |-> "read", on |-> j]
      BY <1>1 DEF Locks
    <3>3. conn'[m][j].lock = conn[m][j].lock
      BY <2>3, <2>6
    <3>4. call'[m][d] = call[m][d] \/ (call[m][d].pc = "dial" /\ call'[m][d].pc = "wait")
      BY <1>1, <2>7
    <3>5. QED
      BY <3>2, <3>3, <3>4
  <2>10. PooledInStep'
    <3>1. SUFFICES ASSUME NEW m \in Node, pool'[m] # 0, conn'[m][pool'[m]].open,
                          OutOfStep(conn'[m][pool'[m]])
                   PROVE  \E d \in Call : call'[m][d] = [pc |-> "failed", on |-> pool'[m]]
      BY DEF PooledInStep, OutOfStep
    <3>2. m # n
      BY <2>2, <2>3, <2>6, <3>1
    <3>3. pool'[m] = pool[m] /\ pool[m] \in Conns(m)
      BY <1>1, <2>2, <3>1, <3>2, Places
    <3>4. conn'[m][pool[m]] = conn[m][pool[m]]
      BY <2>6, <3>2, <3>3
    <3>5. PICK d \in Call : call[m][d] = [pc |-> "failed", on |-> pool[m]]
      BY <1>1, <3>1, <3>3, <3>4 DEF PooledInStep
    <3>6. call'[m][d] = call[m][d]
      BY <2>7, <3>2
    <3>7. QED
      BY <3>3, <3>5, <3>6
  <2>11. QED
    BY <2>6, <2>7, <2>8, <2>9, <2>10 DEF IInv
<1>4. QED
  BY <1>2, <1>3

\* The call that reads holds the mutex.
LEMMA Reading ==
    ASSUME IInv, NEW n \in Node, NEW c \in Call, call[n][c].pc = "read"
    PROVE  LET k == call[n][c].on
           IN  /\ k \in 1 .. opened[n] /\ k \in Conns(n) /\ Good(conn[n][k])
               /\ conn[n][k].lock = c /\ call[n][c] = [pc |-> "read", on |-> k]
<1> DEFINE k == call[n][c].on
<1>1. /\ k \in 1 .. opened[n] /\ k \in Conns(n)
      /\ call[n][c] = [pc |-> "read", on |-> k]
  BY Places DEF IInv
<1>2. conn[n][k].lock = c /\ Good(conn[n][k])
  BY <1>1 DEF IInv, Locks, Connections
<1>3. QED
  BY <1>1, <1>2

\* Where a call may be when it is done with a connection.
LEMMA OngoingAt ==
    ASSUME IInv, NEW n \in Node, NEW k \in 1 .. opened[n]
    PROVE  /\ [pc |-> "read", on |-> k] \in Ongoing(n)
           /\ [pc |-> "failed", on |-> k] \in Ongoing(n)
           /\ [pc |-> "idle", on |-> 0] \in Ongoing(n)
<1>1. opened[n] \in Nat
  BY Places DEF IInv
<1>2. QED
  BY <1>1 DEF Ongoing, Stages

LEMMA WriteStep ==
    ASSUME IInv, NEW n \in Node, NEW c \in Call, Write(n, c)
    PROVE  IInv'
<1> DEFINE k == call[n][c].on
           cn == conn[n][k]
           x == Requested(cn, c)
           z == Closed(cn)
<1>1. /\ call[n][c].pc = "wait" /\ cn.lock = None /\ UNCHANGED <<pool, opened>>
      /\ \/ /\ cn.open /\ conn' = [conn EXCEPT ![n][k] = x]
            /\ call' = [call EXCEPT ![n][c] = [pc |-> "read", on |-> k]]
         \/ /\ conn' = [conn EXCEPT ![n][k] = z]
            /\ call' = [call EXCEPT ![n][c] = [pc |-> "failed", on |-> k]]
  BY DEF Write, Goes
<1>2. k \in 1 .. opened[n] /\ k \in Conns(n)
  BY <1>1, Places DEF IInv
<1>3. Good(cn)
  BY <1>2 DEF IInv, Connections
<1>4. Good(x) /\ x.lock = c /\ x.open = cn.open /\ (OutOfStep(x) => OutOfStep(cn))
  BY <1>1, <1>3, WrittenGood
<1>5. Good(z) /\ z.lock = cn.lock /\ ~z.open
  BY <1>3, ClosedGood
<1> HIDE DEF x, z, k
<1>6. CASE /\ cn.open /\ conn' = [conn EXCEPT ![n][k] = x]
           /\ call' = [call EXCEPT ![n][c] = [pc |-> "read", on |-> k]]
  <2> DEFINE y == [pc |-> "read", on |-> k]
  <2>1. y \in Ongoing(n)
    BY <1>2, OngoingAt
  <2>2. call' = [call EXCEPT ![n][c] = y] /\ y = [pc |-> "read", on |-> k]
    BY <1>6
  <2> HIDE DEF y
  <2>3. QED
    BY <1>1, <1>2, <1>4, <1>6, <2>1, <2>2, CallStep
<1>7. CASE /\ conn' = [conn EXCEPT ![n][k] = z]
           /\ call' = [call EXCEPT ![n][c] = [pc |-> "failed", on |-> k]]
  <2> DEFINE y == [pc |-> "failed", on |-> k]
  <2>1. y \in Ongoing(n) /\ y.pc # "read"
    BY <1>2, OngoingAt
  <2>2. call' = [call EXCEPT ![n][c] = y]
    BY <1>7
  <2> HIDE DEF y
  <2>3. QED
    BY <1>1, <1>2, <1>5, <1>7, <2>1, <2>2, CallStep
<1>8. QED
  BY <1>1, <1>6, <1>7

LEMMA ReadAnswerStep ==
    ASSUME IInv, NEW n \in Node, NEW c \in Call, ReadAnswer(n, c)
    PROVE  IInv'
<1> DEFINE k == call[n][c].on
           cn == conn[n][k]
           x == Unlocked([cn EXCEPT !.answers = Tail(@)], c)
<1>1. /\ call[n][c].pc = "read" /\ cn.open /\ cn.answers # <<>> /\ UNCHANGED <<pool, opened>>
      /\ conn' = [conn EXCEPT ![n][k] = x]
      /\ \E y \in {[pc |-> "idle", on |-> 0], [pc |-> "failed", on |-> k]} :
            call' = [call EXCEPT ![n][c] = y]
  BY DEF ReadAnswer, Goes
<1>2. /\ k \in 1 .. opened[n] /\ k \in Conns(n) /\ Good(cn)
      /\ cn.lock = c /\ call[n][c] = [pc |-> "read", on |-> k]
  BY <1>1, Reading
<1>3. Good(x) /\ x.lock = None /\ x.open = cn.open /\ (OutOfStep(x) => OutOfStep(cn))
  BY <1>1, <1>2, AnsweredGood
<1> HIDE DEF x, k
<1>4. PICK y \in {[pc |-> "idle", on |-> 0], [pc |-> "failed", on |-> k]} :
         call' = [call EXCEPT ![n][c] = y]
  BY <1>1
<1>5. y \in Ongoing(n) /\ y.pc # "read"
  <2>1. [pc |-> "failed", on |-> k] \in Ongoing(n) /\ [pc |-> "idle", on |-> 0] \in Ongoing(n)
    BY <1>2, OngoingAt
  <2>2. QED
    BY <1>4, <2>1
<1>6. QED
  BY <1>1, <1>2, <1>3, <1>4, <1>5, CallStep

LEMMA ReadFailedStep ==
    ASSUME IInv, NEW n \in Node, NEW c \in Call, ReadFailed(n, c)
    PROVE  IInv'
<1> DEFINE k == call[n][c].on
           cn == conn[n][k]
           x == Unlocked(cn, c)
           y == [pc |-> "failed", on |-> k]
<1>1. /\ call[n][c].pc = "read" /\ UNCHANGED <<pool, opened>>
      /\ conn' = [conn EXCEPT ![n][k] = x] /\ call' = [call EXCEPT ![n][c] = y]
  BY DEF ReadFailed, Goes
<1>2. /\ k \in 1 .. opened[n] /\ k \in Conns(n) /\ Good(cn)
      /\ cn.lock = c /\ call[n][c] = [pc |-> "read", on |-> k]
  BY <1>1, Reading
<1>3. Good(x) /\ x.lock = None
  BY <1>2, UnlockedGood
<1> HIDE DEF x, k
<1>4. [pc |-> "failed", on |-> k] \in Ongoing(n)
  BY <1>2, OngoingAt
<1>5. y \in Ongoing(n) /\ y = [pc |-> "failed", on |-> k] /\ y.pc # "read"
  BY <1>4
<1> HIDE DEF y
<1>6. QED
  BY <1>1, <1>2, <1>3, <1>5, CallStep

\* The pool is empty after a drop, so nothing is asked of it.
LEMMA DropConnStep ==
    ASSUME IInv, NEW n \in Node, NEW c \in Call, DropConn(n, c)
    PROVE  IInv'
<1>1. /\ CallsTyped /\ Pools /\ Locks /\ Connections /\ PooledInStep
      /\ \A m \in Node : opened[m] \in Nat /\ pool[m] \in 0 .. opened[m]
  BY Places DEF IInv
<1> DEFINE y == [pc |-> "idle", on |-> 0]
           j == pool[n]
           x == Closed(conn[n][j])
<1>2. /\ call[n][c].pc = "failed" /\ UNCHANGED opened /\ pool' = [pool EXCEPT ![n] = 0]
      /\ conn' = IF j = 0 THEN conn ELSE [conn EXCEPT ![n][j] = x]
      /\ call' = [call EXCEPT ![n][c] = y]
  BY DEF DropConn, Goes
<1>3. Grows /\ y \in Ongoing(n)' /\ y.pc = "idle"
  BY <1>1, <1>2 DEF Grows, Ongoing, Stages
<1> HIDE DEF y
<1>4. /\ CallsTyped' /\ call'[n][c] = y
      /\ \A m \in Node, d \in Call : m # n \/ d # c => call'[m][d] = call[m][d]
  BY <1>1, <1>2, <1>3, CallAt
<1>5. /\ DOMAIN pool' = Node /\ pool'[n] = 0
      /\ \A m \in Node : m # n => pool'[m] = pool[m]
  BY <1>1, <1>2 DEF Pools
<1>6. Pools'
  BY <1>1, <1>2, <1>5 DEF Pools
<1>7. /\ Connections'
      /\ \A m \in Node : \A k \in Conns(m) :
            /\ conn'[m][k].lock = conn[m][k].lock
            /\ m # n => conn'[m][k] = conn[m][k]
  <2>1. CASE j = 0
    <3>1. conn' = conn
      BY <1>2, <2>1
    <3>2. QED
      <4>1. Connections /\ UNCHANGED <<conn, opened>>
        BY <1>1, <1>2, <3>1
      <4>2. Connections'
        BY <4>1 DEF Connections, Conns
      <4>3. QED
        BY <3>1, <4>2
  <2>2. CASE j # 0
    <3>1. j \in 1 .. opened[n] /\ j \in Conns(n) /\ opened'[n] >= j
      BY <1>1, <1>2, <2>2, Places
    <3>2. Good(x) /\ x.lock = conn[n][j].lock
      BY <1>1, <3>1, ClosedGood DEF Connections
    <3>3. conn' = [conn EXCEPT ![n][j] = x]
      BY <1>2, <2>2
    <3> HIDE DEF x, j
    <3>4. /\ Connections' /\ conn'[n][j] = x
          /\ \A m \in Node : \A k \in Conns(m) : m # n \/ k # j => conn'[m][k] = conn[m][k]
      BY <1>1, <1>3, <3>1, <3>2, <3>3, ConnAt
    <3>5. ASSUME NEW m \in Node, NEW k \in Conns(m)
          PROVE  conn'[m][k].lock = conn[m][k].lock /\ (m # n => conn'[m][k] = conn[m][k])
      <4>1. CASE m = n /\ k = j
        BY <3>2, <3>4, <4>1
      <4>2. CASE m # n \/ k # j
        BY <3>4, <4>2
      <4>3. QED
        BY <4>1, <4>2
    <3>6. QED
      BY <3>4, <3>5
  <2>3. QED
    BY <2>1, <2>2
<1>8. Locks'
  <2>1. SUFFICES ASSUME NEW m \in Node, NEW d \in Call, NEW k \in Conns(m)
                 PROVE  conn'[m][k].lock = d <=> call'[m][d] = [pc |-> "read", on |-> k]
    BY DEF Locks, Conns
  <2>2. conn[m][k].lock = d <=> call[m][d] = [pc |-> "read", on |-> k]
    BY <1>1 DEF Locks
  <2>3. conn'[m][k].lock = conn[m][k].lock
    BY <1>7
  <2>4. call'[m][d] = call[m][d] \/ (call[m][d].pc = "failed" /\ call'[m][d].pc = "idle")
    BY <1>2, <1>3, <1>4
  <2>5. QED
    BY <2>2, <2>3, <2>4
<1>9. PooledInStep'
  <2>1. SUFFICES ASSUME NEW m \in Node, pool'[m] # 0, conn'[m][pool'[m]].open,
                        OutOfStep(conn'[m][pool'[m]])
                 PROVE  \E d \in Call : call'[m][d] = [pc |-> "failed", on |-> pool'[m]]
    BY DEF PooledInStep, OutOfStep
  <2>2. m # n
    BY <1>5, <2>1
  <2>3. pool'[m] = pool[m] /\ pool[m] \in Conns(m)
    BY <1>1, <1>5, <2>1, <2>2, Places
  <2>4. conn'[m][pool[m]] = conn[m][pool[m]]
    BY <1>7, <2>2, <2>3
  <2>5. PICK d \in Call : call[m][d] = [pc |-> "failed", on |-> pool[m]]
    BY <1>1, <2>1, <2>3, <2>4 DEF PooledInStep
  <2>6. call'[m][d] = call[m][d]
    BY <1>4, <2>2
  <2>7. QED
    BY <2>3, <2>5, <2>6
<1>10. QED
  BY <1>4, <1>6, <1>7, <1>8, <1>9 DEF IInv

LEMMA InitIInv == Init => IInv
<1> SUFFICES ASSUME Init PROVE IInv
  OBVIOUS
<1>1. \A n \in Node : MaxConns[n] \in Nat
  BY MaxConnsAssumption
<1>2. Pools
  <2>1. /\ DOMAIN pool = Node /\ DOMAIN opened = Node
        /\ \A n \in Node : pool[n] = 0 /\ opened[n] = 0
    BY DEF Init
  <2>2. QED
    BY <1>1, <2>1 DEF Pools
<1>3. CallsTyped
  BY DEF Init, Idle, CallsTyped, Ongoing, Stages
<1>4. \A n \in Node : /\ conn[n] = [k \in Conns(n) |-> Unused]
                      /\ \A k \in Conns(n) : conn[n][k] = Unused
  BY DEF Init
<1>5. Connections
  <2>1. DOMAIN conn = Node
    BY DEF Init
  <2>2. QED
    BY <1>4, <2>1, FreshGood DEF Connections
<1>6. Locks
  <2>1. \A n \in Node, c \in Call : call[n][c] = Idle
    BY DEF Init
  <2>2. \A n \in Node : \A k \in Conns(n) : conn[n][k].lock = None
    BY <1>4, FreshGood
  <2>3. QED
    BY <2>1, <2>2, NoneAssumption DEF Locks, Idle
<1>7. PooledInStep
  BY DEF Init, PooledInStep
<1>8. QED
  BY <1>2, <1>3, <1>5, <1>6, <1>7 DEF IInv

LEMMA StepIInv ==
    ASSUME IInv, [Next]_vars
    PROVE  IInv'
<1>1. CASE \E n \in Node, c \in Call : Start(n, c) \/ Write(n, c) \/ Proceed(n, c)
  BY <1>1, StartStep, WriteStep, DialedStep, DialFailedStep, ReadAnswerStep, ReadFailedStep,
     DropConnStep DEF Proceed
<1>2. CASE \E n \in Node : \E k \in Conns(n) :
              Receive(n, k) \/ ObserveVersion(n, k) \/ Respond(n, k) \/ Break(n, k)
  BY <1>2, ReceiveStep, ObserveStep, RespondStep, BreakStep
<1>3. CASE UNCHANGED vars
  BY <1>3 DEF vars, IInv, CallsTyped, Ongoing, Pools, Locks, Connections, PooledInStep, OutOfStep
<1>4. QED
  BY <1>1, <1>2, <1>3 DEF Next

LEMMA Inductive == Spec => []IInv
<1>1. IInv /\ [Next]_vars => IInv'
  BY StepIInv
<1>2. QED
  BY <1>1, InitIInv, PTL DEF Spec

\* The variables stay in their types, and the mutex of a connection is held by
\* the call that reads from it and by nobody else (callOn).
THEOREM TypeCorrect == Spec => []TypeOK
<1>1. IInv => TypeOK
  <2> SUFFICES ASSUME IInv PROVE TypeOK
    OBVIOUS
  <2>1. \A n \in Node : conn[n] \in [Conns(n) -> Conn]
    BY DEF IInv, Connections, Good
  <2>2. \A n \in Node :
           call[n] \in [Call -> [pc : {"idle", "dial", "wait", "read", "failed"},
                                 on : 0 .. opened[n]]]
    <3>1. \A n \in Node : call[n] \in [Call -> Ongoing(n)]
      BY DEF IInv, CallsTyped
    <3>2. \A n \in Node : Ongoing(n) \subseteq [pc : Stages, on : 0 .. opened[n]]
      BY DEF Ongoing
    <3>3. \A n \in Node : call[n] \in [Call -> [pc : Stages, on : 0 .. opened[n]]]
      BY <3>1, <3>2
    <3>4. QED
      BY <3>3 DEF Stages
  <2>3. DOMAIN conn = Node /\ DOMAIN call = Node
    BY DEF IInv, Connections, CallsTyped
  <2>4. QED
    BY <2>1, <2>2, <2>3 DEF IInv, Pools, Locks, TypeOK
<1>2. QED
  BY <1>1, Inductive, PTL

\* A connection stays in the pool with an answer on its way that nobody waits
\* for only until the call that gave up on it drops what is pooled (Call,
\* callOn and dropConn of internal/transport/rpc.go).
THEOREM InStepTheorem == Spec => []PooledInStep
<1>1. IInv => PooledInStep
  BY DEF IInv
<1>2. QED
  BY <1>1, Inductive, PTL

-----------------------------------------------------------------------------
(* No connection is left open outside the pool.                            *)

\* No connection opens.
NoneOpens == \A n \in Node : \A k \in Conns(n) : conn'[n][k].open => conn[n][k].open

LEMMA SteadyPool ==
    ASSUME OpenIsPooled, UNCHANGED pool, NoneOpens
    PROVE  OpenIsPooled'
BY DEF OpenIsPooled, NoneOpens, Conns

\* One connection changes, and is not opened by that.
LEMMA OneStays ==
    ASSUME Connections, NEW n \in Node, NEW k \in Conns(n), NEW x,
           conn' = [conn EXCEPT ![n][k] = x], x.open => conn[n][k].open
    PROVE  NoneOpens
<1>1. DOMAIN conn = Node /\ \A m \in Node : DOMAIN conn[m] = Conns(m)
  BY DEF Connections
<1>2. SUFFICES ASSUME NEW m \in Node, NEW j \in Conns(m), conn'[m][j].open
               PROVE  conn[m][j].open
  BY DEF NoneOpens
<1>3. CASE m = n /\ j = k
  BY <1>1, <1>2, <1>3
<1>4. CASE m # n \/ j # k
  BY <1>1, <1>2, <1>4
<1>5. QED
  BY <1>3, <1>4

\* What a call does on a connection that it has (callOn).
LEMMA UseOpensNone ==
    ASSUME IInv, NEW n \in Node, NEW c \in Call,
           Write(n, c) \/ ReadAnswer(n, c) \/ ReadFailed(n, c)
    PROVE  NoneOpens /\ UNCHANGED pool
<1> DEFINE k == call[n][c].on
           cn == conn[n][k]
<1>1. Connections
  BY DEF IInv
<1>2. CASE Write(n, c)
  <2> DEFINE x == Requested(cn, c)
             z == Closed(cn)
  <2>1. /\ call[n][c].pc = "wait" /\ cn.lock = None /\ UNCHANGED pool
        /\ \/ cn.open /\ conn' = [conn EXCEPT ![n][k] = x]
           \/ conn' = [conn EXCEPT ![n][k] = z]
    BY <1>2 DEF Write
  <2>2. k \in Conns(n) /\ Good(cn)
    <3>1. k \in 1 .. opened[n] /\ k \in Conns(n)
      BY <2>1, Places DEF IInv
    <3>2. QED
      BY <3>1 DEF IInv, Connections
  <2>3. x.open = cn.open /\ ~z.open
    BY <2>1, <2>2, WrittenGood, ClosedGood
  <2> HIDE DEF x, z, k
  <2>4. QED
    BY <1>1, <2>1, <2>2, <2>3, OneStays
<1>3. CASE ReadAnswer(n, c)
  <2> DEFINE x == Unlocked([cn EXCEPT !.answers = Tail(@)], c)
  <2>1. /\ call[n][c].pc = "read" /\ cn.answers # <<>> /\ UNCHANGED pool
        /\ conn' = [conn EXCEPT ![n][k] = x]
    BY <1>3 DEF ReadAnswer
  <2>2. k \in Conns(n) /\ Good(cn) /\ cn.lock = c
    BY <2>1, Reading
  <2>3. x.open = cn.open
    BY <2>1, <2>2, AnsweredGood
  <2> HIDE DEF x, k
  <2>4. QED
    BY <1>1, <2>1, <2>2, <2>3, OneStays
<1>4. CASE ReadFailed(n, c)
  <2> DEFINE x == Unlocked(cn, c)
  <2>1. /\ call[n][c].pc = "read" /\ UNCHANGED pool
        /\ conn' = [conn EXCEPT ![n][k] = x]
    BY <1>4 DEF ReadFailed
  <2>2. k \in Conns(n) /\ Good(cn) /\ cn.lock = c
    BY <2>1, Reading
  <2>3. x.open = cn.open
    BY <2>2, UnlockedGood
  <2> HIDE DEF x, k
  <2>4. QED
    BY <1>1, <2>1, <2>2, <2>3, OneStays
<1>5. QED
  BY <1>2, <1>3, <1>4

\* What the server or the network does (handleConn).
LEMMA ServingOpensNone ==
    ASSUME IInv, NEW n \in Node, NEW k \in Conns(n),
           Receive(n, k) \/ ObserveVersion(n, k) \/ Respond(n, k) \/ Break(n, k)
    PROVE  NoneOpens /\ UNCHANGED pool
<1> DEFINE cn == conn[n][k]
<1>1. Connections /\ Good(cn)
  BY DEF IInv, Connections
<1>2. CASE Receive(n, k)
  <2> DEFINE x == Accepted(cn, Head(cn.sent))
             y == Refused(cn, Head(cn.sent))
  <2>1. /\ cn.at = None /\ cn.sent # <<>> /\ UNCHANGED pool
        /\ conn' = [conn EXCEPT ![n][k] = x] \/ conn' = [conn EXCEPT ![n][k] = y]
    BY <1>2 DEF Receive
  <2>2. x.open = cn.open /\ y.open = cn.open
    BY <1>1, <2>1, ReceivedGood
  <2> HIDE DEF x, y
  <2>3. QED
    BY <1>1, <2>1, <2>2, OneStays
<1>3. CASE ObserveVersion(n, k)
  <2> DEFINE x == [cn EXCEPT !.at.pulling = TRUE]
  <2>1. cn.at # None /\ UNCHANGED pool /\ conn' = [conn EXCEPT ![n][k] = x]
    BY <1>3 DEF ObserveVersion
  <2>2. x.open = cn.open
    BY <1>1, <2>1, PullingGood
  <2> HIDE DEF x
  <2>3. QED
    BY <1>1, <2>1, <2>2, OneStays
<1>4. CASE Respond(n, k)
  <2> DEFINE x == Answered(cn)
  <2>1. cn.at # None /\ UNCHANGED pool /\ conn' = [conn EXCEPT ![n][k] = x]
    BY <1>4 DEF Respond
  <2>2. x.open = cn.open
    BY <1>1, <2>1, RespondedGood
  <2> HIDE DEF x
  <2>3. QED
    BY <1>1, <2>1, <2>2, OneStays
<1>5. CASE Break(n, k)
  <2> DEFINE x == Closed(cn)
  <2>1. UNCHANGED pool /\ conn' = [conn EXCEPT ![n][k] = x]
    BY <1>5 DEF Break
  <2>2. ~x.open
    BY <1>1, ClosedGood
  <2> HIDE DEF x
  <2>3. QED
    BY <1>1, <2>1, <2>2, OneStays
<1>6. QED
  BY <1>2, <1>3, <1>4, <1>5

\* The connection that is pooled is the only one that is opened then.
LEMMA DialedPools ==
    ASSUME IInv, OpenIsPooled, NEW n \in Node, NEW c \in Call, Dialed(n, c)
    PROVE  OpenIsPooled'
<1>1. Connections /\ Pools
  BY DEF IInv
<1>2. CASE pool[n] # 0
  BY <1>2, SteadyPool DEF Dialed, NoneOpens
<1>3. CASE pool[n] = 0
  <2> DEFINE k == opened[n] + 1
             x == [conn[n][k] EXCEPT !.open = TRUE]
  <2>1. /\ k \in Conns(n) /\ pool' = [pool EXCEPT ![n] = k]
        /\ conn' = [conn EXCEPT ![n][k] = x]
    BY <1>3 DEF Dialed
  <2> HIDE DEF k, x
  <2>2. SUFFICES ASSUME NEW m \in Node, NEW j \in Conns(m), conn'[m][j].open
                 PROVE  pool'[m] = j
    BY DEF OpenIsPooled, Conns
  <2>3. DOMAIN conn = Node /\ DOMAIN pool = Node /\ \A i \in Node : DOMAIN conn[i] = Conns(i)
    BY <1>1 DEF Connections, Pools
  <2>4. pool'[n] = k /\ \A i \in Node : i # n => pool'[i] = pool[i]
    BY <2>1, <2>3
  <2>5. CASE m = n /\ j = k
    BY <2>4, <2>5
  <2>6. CASE m # n \/ j # k
    <3>1. conn'[m][j] = conn[m][j]
      BY <2>1, <2>3, <2>6
    <3>2. pool[m] = j
      BY <2>2, <3>1 DEF OpenIsPooled
    <3>3. j # 0
      BY DEF Conns
    <3>4. QED
      BY <1>3, <2>4, <3>2, <3>3
  <2>7. QED
    BY <2>5, <2>6
<1>4. QED
  BY <1>2, <1>3

\* What was pooled is closed, and so is everything else already.
LEMMA DroppedPools ==
    ASSUME IInv, OpenIsPooled, NEW n \in Node, NEW c \in Call, DropConn(n, c)
    PROVE  OpenIsPooled'
<1>1. Connections /\ Pools /\ CallsTyped
  BY DEF IInv
<1> DEFINE j == pool[n]
           x == Closed(conn[n][j])
<1>2. /\ pool' = [pool EXCEPT ![n] = 0]
      /\ conn' = IF j = 0 THEN conn ELSE [conn EXCEPT ![n][j] = x]
  BY DEF DropConn
<1>3. DOMAIN conn = Node /\ DOMAIN pool = Node /\ \A i \in Node : DOMAIN conn[i] = Conns(i)
  BY <1>1 DEF Connections, Pools
<1>4. j # 0 => j \in Conns(n) /\ ~x.open
  <2>1. SUFFICES ASSUME j # 0 PROVE j \in Conns(n) /\ ~x.open
    OBVIOUS
  <2>2. j \in Conns(n)
    BY <1>1, <2>1, Places
  <2>3. QED
    BY <1>1, <2>2, ClosedGood DEF Connections
<1> HIDE DEF x
<1>5. SUFFICES ASSUME NEW m \in Node, NEW k \in Conns(m), conn'[m][k].open
               PROVE  pool'[m] = k
  BY DEF OpenIsPooled, Conns
<1>6. m # n \/ k # j
  <2>1. SUFFICES ASSUME m = n, k = j PROVE FALSE
    OBVIOUS
  <2>2. k # 0
    BY DEF Conns
  <2>3. conn' = [conn EXCEPT ![n][j] = x] /\ j \in Conns(n) /\ ~x.open
    BY <1>2, <1>4, <2>1, <2>2
  <2> HIDE DEF j
  <2>4. conn'[n][j] = x
    BY <1>3, <2>3
  <2>5. QED
    BY <1>5, <2>1, <2>3, <2>4
<1>7. conn'[m][k] = conn[m][k]
  BY <1>2, <1>3, <1>4, <1>6
<1>8. pool[m] = k
  BY <1>5, <1>7 DEF OpenIsPooled
<1>9. m # n
  BY <1>6, <1>8
<1>10. QED
  BY <1>2, <1>3, <1>8, <1>9

LEMMA StepPooled ==
    ASSUME IInv, OpenIsPooled, [Next]_vars
    PROVE  OpenIsPooled'
<1>1. ASSUME NEW n \in Node, NEW c \in Call, Start(n, c) \/ DialFailed(n, c)
      PROVE  OpenIsPooled'
  BY <1>1, SteadyPool DEF Start, DialFailed, NoneOpens
<1>2. CASE \E n \in Node, c \in Call : Start(n, c) \/ Write(n, c) \/ Proceed(n, c)
  BY <1>1, <1>2, UseOpensNone, SteadyPool, DialedPools, DroppedPools DEF Proceed
<1>3. CASE \E n \in Node : \E k \in Conns(n) :
              Receive(n, k) \/ ObserveVersion(n, k) \/ Respond(n, k) \/ Break(n, k)
  BY <1>3, ServingOpensNone, SteadyPool
<1>4. CASE UNCHANGED vars
  BY <1>4, SteadyPool DEF vars, NoneOpens
<1>5. QED
  BY <1>2, <1>3, <1>4 DEF Next

\* Every open connection is the pooled one, whichever calls dialed, failed and
\* dropped it in whichever order (getConn and dropConn).
THEOREM PoolTheorem == Spec => []OpenIsPooled
<1>1. Init => OpenIsPooled
  BY DEF Init, OpenIsPooled, Unused
<1>2. IInv /\ OpenIsPooled /\ [Next]_vars => OpenIsPooled'
  BY StepPooled
<1>3. QED
  BY <1>1, <1>2, Inductive, PTL DEF Spec

\* What the holder of the mutex reads first is its own answer, or the last one
\* of a call that has yet to drop the connection (callOn and Call).
THEOREM AnswerTheorem == Spec => []AnswerIsOwn
<1>1. IInv /\ OpenIsPooled => AnswerIsOwn
  <2>1. SUFFICES ASSUME IInv, OpenIsPooled, NEW n \in Node, NEW c \in Call,
                        call[n][c].pc = "read", conn[n][call[n][c].on].open,
                        conn[n][call[n][c].on].answers # <<>>,
                        Head(conn[n][call[n][c].on].answers) # c
                 PROVE  \E d \in Call \ {c} :
                           call[n][d] = [pc |-> "failed", on |-> call[n][c].on]
    BY DEF AnswerIsOwn
  <2> DEFINE k == call[n][c].on
             cn == conn[n][k]
  <2>2. k \in 1 .. opened[n] /\ k \in Conns(n) /\ Good(cn) /\ cn.lock = c
    BY <2>1, Reading
  <2>3. 1 \in DOMAIN cn.answers /\ Head(cn.answers) = cn.answers[1]
    <3>1. cn.answers \in Seq(Call \union {None})
      BY <2>2 DEF Good, Conn
    <3>2. QED
      BY <2>1, <3>1, LenProperties, EmptySeq, HeadTailProperties
  <2>4. OutOfStep(cn)
    <3>1. cn.answers[1] = None
      BY <2>1, <2>2, <2>3 DEF Good, Owned
    <3>2. QED
      BY <2>3, <3>1 DEF OutOfStep
  <2>5. pool[n] = k /\ k # 0
    BY <2>1, <2>2 DEF OpenIsPooled
  <2>6. PICK d \in Call : call[n][d] = [pc |-> "failed", on |-> k]
    BY <2>1, <2>4, <2>5 DEF IInv, PooledInStep
  <2>7. d # c
    BY <2>1, <2>6
  <2>8. QED
    BY <2>6, <2>7
<1>2. QED
  BY <1>1, Inductive, PoolTheorem, PTL
==============================================================================
