--------------------------- MODULE TransportProofs ---------------------------
(***************************************************************************)
(* Theorems about HttpTransport: before a second Start, a response misses   *)
(* its session's deadline only if the request was read too late, for any    *)
(* number of connections and io threads and any timeouts. A request that    *)
(* was read early waits behind at most `turns` turns of all io threads,     *)
(* each no longer than SyncTimeout, and its deadline leaves time for them.  *)
(***************************************************************************)
EXTENDS HttpTransport, FiniteSetTheorems, SequenceTheorems, TLAPS
-----------------------------------------------------------------------------
(* Types.                                                                   *)

\* Enough turns of m threads for n requests.
LEMMA TurnsEnough ==
    ASSUME NEW n \in Nat, NEW m \in Nat \ {0}
    PROVE  (n + m - 1) \div m \in Nat /\ m * ((n + m - 1) \div m) >= n
<1> DEFINE x == n + m - 1
<1>1. x \in Nat
    OBVIOUS
<1>2. x \div m \in Int /\ x = m * (x \div m) + (x % m) /\ x % m \in 0..(m-1)
    BY <1>1, Z3
<1> HIDE DEF x
<1>3. m * (x \div m) >= n
    BY <1>1, <1>2 DEF x
<1> QED
    BY <1>1, <1>2, <1>3 DEF x

\* The first state is of the type.
LEMMA InitType == Init => TypeOK
<1> SUFFICES ASSUME Init PROVE TypeOK
    OBVIOUS
<1>1. /\ queue \in Seq(Loops \cup Conns)
      /\ 0 \in 0..Starts /\ 0 \in 0..Deadline /\ 0 \in 0..SyncTimeout
    BY TransportAssumption DEF Init
<1>2. age \in [Conns -> 0..Deadline] /\ waited \in [Conns -> 0..SyncTimeout]
    BY <1>1 DEF Init
<1> QED
    BY <1>1, <1>2 DEF Init, TypeOK

\* What the handlers do to the queue.
LEMMA QueueType ==
    ASSUME queue \in Seq(Loops \cup Conns)
    PROVE  /\ \A x \in Loops \cup Conns : Enqueue(x) => queue' \in Seq(Loops \cup Conns)
           /\ \A x : Called(x) => queue' \in Seq(Loops \cup Conns)
<1> DEFINE E == Loops \cup Conns
<1>1. queue \in Seq(E)
    OBVIOUS
<1> HIDE DEF E
<1>2. ASSUME NEW x \in E, Enqueue(x) PROVE queue' \in Seq(E)
    BY <1>1, <1>2 DEF Enqueue
<1>3. ASSUME NEW x, Called(x) PROVE queue' \in Seq(E)
    BY <1>1, <1>3 DEF Called
<1> QED
    BY <1>2, <1>3 DEF E

\* The accept loops that a closed acceptor aborts are queued in some order.
LEMMA AbortedType ==
    ASSUME NEW aborted \in SetToSeqs({k \in Loops : loop[k] = "armed"})
    PROVE  aborted \in Seq(Loops)
<1> DEFINE armed == {k \in Loops : loop[k] = "armed"}
<1>1. IsFiniteSet(Loops) /\ armed \subseteq Loops
    BY TransportAssumption, FS_Interval DEF Loops
<1>2. Cardinality(armed) \in Nat
    BY <1>1, FS_Subset, FS_CardinalityType
<1>3. aborted \in [1..Cardinality(armed) -> armed]
    BY DEF SetToSeqs
<1> HIDE DEF armed
<1> QED
    BY <1>1, <1>2, <1>3

\* Every step keeps the type.
LEMMA StepType == TypeOK /\ [Next]_vars => TypeOK'
<1>1. SUFFICES ASSUME TypeOK, [Next]_vars PROVE TypeOK'
    OBVIOUS
<1>2. ASSUME NEW k \in Loops, OnAccept(k) PROVE TypeOK'
    <2>1. queue' \in Seq(Loops \cup Conns)
        BY <1>1, <1>2, QueueType DEF OnAccept, TypeOK
    <2>2. loop' \in [Loops -> {"none", "armed", "accepted", "failed", "tested", "rearm"}]
        BY <1>1, <1>2 DEF OnAccept, Loop, TypeOK
    <2>3. conn' \in [Conns -> {"new", "backlog", "accepted", "reading", "read", "unread",
                              "handling", "writing", "written", "closed"}]
        BY <1>1, <1>2 DEF OnAccept, Goto, TypeOK
    <2> QED
        BY <1>1, <1>2, <2>1, <2>2, <2>3 DEF OnAccept, appVars, timeVars, TypeOK
<1>3. ASSUME NEW c \in Conns, OnRead(c) \/ OnWrite(c) PROVE TypeOK'
    <2>1. queue' \in Seq(Loops \cup Conns)
        BY <1>1, <1>3, QueueType DEF OnRead, OnWrite, TypeOK
    <2>2. conn' \in [Conns -> {"new", "backlog", "accepted", "reading", "read", "unread",
                              "handling", "writing", "written", "closed"}]
        BY <1>1, <1>3 DEF OnRead, OnWrite, Goto, TypeOK
    <2>3. (UNCHANGED <<timeVars, response>>) \/ Forget(c)
        BY <1>3 DEF OnRead, OnWrite
    <2>4. 0 \in 0..Deadline /\ 0 \in 0..SyncTimeout
        BY TransportAssumption
    <2>5. /\ age' \in [Conns -> 0..Deadline] /\ early' \subseteq Conns
          /\ waited' \in [Conns -> 0..SyncTimeout]
          /\ response' \in [Conns -> {"none", "sent", "lost", "late"}]
        <3>1. CASE UNCHANGED <<timeVars, response>>
            BY <1>1, <3>1 DEF timeVars, TypeOK
        <3>2. CASE Forget(c)
            <4>1. age' \in [Conns -> 0..Deadline] /\ waited' \in [Conns -> 0..SyncTimeout]
                BY <1>1, <2>4, <3>2 DEF Forget, TypeOK
            <4> QED
                BY <1>1, <3>2, <4>1 DEF Forget, TypeOK
        <3> QED
            BY <2>3, <3>1, <3>2
    <2> QED
        BY <1>1, <1>3, <2>1, <2>2, <2>5 DEF OnRead, OnWrite, appVars, TypeOK
<1>4. ASSUME NEW k \in Loops, DoAccept(k) \/ AsyncAccept(k) \/ AcceptFails(k) PROVE TypeOK'
    <2>1. queue' = queue \/ Enqueue(k)
        BY <1>4 DEF DoAccept, AsyncAccept, AcceptFails
    <2>2. queue' \in Seq(Loops \cup Conns)
        BY <1>1, <2>1, QueueType DEF TypeOK
    <2>3. loop' \in [Loops -> {"none", "armed", "accepted", "failed", "tested", "rearm"}]
        BY <1>1, <1>4 DEF DoAccept, AsyncAccept, AcceptFails, Loop, TypeOK
    <2> QED
        BY <1>1, <1>4, <2>2, <2>3
           DEF DoAccept, AsyncAccept, AcceptFails, appVars, timeVars, TypeOK
<1>5. ASSUME NEW c \in Conns, OnReadEnds(c) \/ Connect(c) PROVE TypeOK'
    BY <1>1, <1>5 DEF OnReadEnds, Connect, Goto, appVars, timeVars, TypeOK
<1>6. ASSUME NEW c \in Conns, KernelAccepts(c) PROVE TypeOK'
    <2>1. PICK k \in Loops :
              /\ Goto(c, "backlog", "accepted") /\ Loop(k, "accepted") /\ Enqueue(k)
              /\ UNCHANGED <<appVars, timeVars, response>>
        BY <1>6 DEF KernelAccepts
    <2>2. queue' \in Seq(Loops \cup Conns)
        BY <1>1, <2>1, QueueType DEF TypeOK
    <2> QED
        BY <1>1, <2>1, <2>2 DEF Goto, Loop, appVars, timeVars, TypeOK
<1>7. ASSUME NEW c \in Conns, ReadEnds(c) PROVE TypeOK'
    <2>1. queue' \in Seq(Loops \cup Conns)
        BY <1>1, <1>7, QueueType DEF ReadEnds, TypeOK
    <2>2. conn' \in [Conns -> {"new", "backlog", "accepted", "reading", "read", "unread",
                              "handling", "writing", "written", "closed"}]
        BY <1>1, <1>7 DEF ReadEnds, Goto, TypeOK
    <2>3. early' \subseteq Conns
        BY <1>1, <1>7 DEF ReadEnds, TypeOK
    <2> QED
        BY <1>1, <1>7, <2>1, <2>2, <2>3 DEF ReadEnds, appVars, TypeOK
<1>8. ASSUME NEW c \in Conns, WriteEnds(c) PROVE TypeOK'
    <2>1. queue' \in Seq(Loops \cup Conns)
        BY <1>1, <1>8, QueueType DEF WriteEnds, TypeOK
    <2>2. response' \in [Conns -> {"none", "sent", "lost", "late"}]
        BY <1>1, <1>8 DEF WriteEnds, TypeOK
    <2> QED
        BY <1>1, <1>8, <2>1, <2>2 DEF WriteEnds, Goto, appVars, timeVars, TypeOK
<1>9. CASE Tick
    <2>1. age' \in [Conns -> 0..Deadline]
        BY <1>1, <1>9, TransportAssumption DEF Tick, Older, TypeOK
    <2>2. waited' \in [Conns -> 0..SyncTimeout]
        BY <1>1, <1>9, TransportAssumption DEF Tick, TypeOK
    <2> QED
        BY <1>1, <1>9, <2>1, <2>2 DEF Tick, appVars, TypeOK
<1>10. CASE Start
    <2>1. starts' \in 0..Starts
        BY <1>1, <1>10, TransportAssumption DEF Start, TypeOK
    <2>2. loop' \in [Loops -> {"none", "armed", "accepted", "failed", "tested", "rearm"}]
        BY <1>1, <1>10 DEF Start, Loop, TypeOK
    <2> QED
        BY <1>1, <1>10, <2>1, <2>2 DEF Start, timeVars, TypeOK
<1>11. CASE Stop \/ StopIoc \/ JoinThreads
    BY <1>1, <1>11 DEF Stop, StopIoc, JoinThreads, timeVars, TypeOK
<1>12. CASE CloseAcceptor
    <2>1. PICK aborted \in SetToSeqs({k \in Loops : loop[k] = "armed"}) :
              queue' = queue \o aborted
        BY <1>12 DEF CloseAcceptor
    <2>2. aborted \in Seq(Loops)
        BY <2>1, AbortedType
    <2>3. queue' \in Seq(Loops \cup Conns)
        <3>1. Seq(Loops) \subseteq Seq(Loops \cup Conns)
            OBVIOUS
        <3>2. PICK q \in Seq(Loops \cup Conns) : q = queue
            BY <1>1 DEF TypeOK
        <3>3. q \o aborted \in Seq(Loops \cup Conns)
            BY <2>2, <3>1
        <3> QED
            BY <2>1, <3>2, <3>3
    <2>4. loop' \in [Loops -> {"none", "armed", "accepted", "failed", "tested", "rearm"}]
        BY <1>1, <1>12 DEF CloseAcceptor, TypeOK
    <2>5. conn' \in [Conns -> {"new", "backlog", "accepted", "reading", "read", "unread",
                              "handling", "writing", "written", "closed"}]
        BY <1>1, <1>12 DEF CloseAcceptor, TypeOK
    <2> QED
        BY <1>1, <1>12, <2>3, <2>4, <2>5 DEF CloseAcceptor, timeVars, TypeOK
<1>13. CASE UNCHANGED vars
    BY <1>1, <1>13 DEF vars, appVars, timeVars, TypeOK
<1> QED
    BY <1>1, <1>2, <1>3, <1>4, <1>5, <1>6, <1>7, <1>8, <1>9, <1>10, <1>11, <1>12, <1>13
       DEF Next, CallHandler, Handler, Kernel, Shutdown
-----------------------------------------------------------------------------
(* Queues.                                                                  *)

In(q, x)        == \E i \in 1..Len(q) : q[i] = x
Before(q, x, y) == \E i, j \in 1..Len(q) : i < j /\ q[i] = x /\ q[j] = y
Once(q, C)      == \A i, j \in 1..Len(q) : (q[i] \in C /\ q[i] = q[j]) => i = j

\* What joins the end of a queue comes before nothing.
LEMMA OfAppend ==
    ASSUME NEW E, NEW q \in Seq(E), NEW x \in E, NEW y, NEW z, NEW C
    PROVE  /\ In(Append(q, x), y) <=> (In(q, y) \/ y = x)
           /\ (z # x /\ Before(Append(q, x), y, z)) => Before(q, y, z)
           /\ (Once(q, C) /\ (x \in C => ~In(q, x))) => Once(Append(q, x), C)
<1> DEFINE r == Append(q, x)
<1>1. /\ Len(q) \in Nat /\ Len(r) = Len(q) + 1 /\ r[Len(q) + 1] = x
      /\ \A i \in 1..Len(q) : r[i] = q[i]
    OBVIOUS
<1>2. \A i \in 1..Len(r) : i \in 1..Len(q) \/ i = Len(q) + 1
    BY <1>1
<1>3. \A i \in 1..Len(q) : i \in 1..Len(r) /\ i < Len(q) + 1
    BY <1>1
<1>4. Len(q) + 1 \in 1..Len(r)
    BY <1>1
<1> HIDE DEF r
<1>5. In(r, y) <=> (In(q, y) \/ y = x)
    BY <1>1, <1>2, <1>3, <1>4 DEF In
<1>6. ASSUME z # x, Before(r, y, z) PROVE Before(q, y, z)
    <2>1. PICK i, j \in 1..Len(r) : i < j /\ r[i] = y /\ r[j] = z
        BY <1>6 DEF Before
    <2>2. j \in 1..Len(q)
        BY <1>1, <1>2, <1>6, <2>1
    <2>3. i \in 1..Len(q)
        BY <1>1, <2>1, <2>2
    <2> QED
        BY <1>1, <2>1, <2>2, <2>3 DEF Before
<1>7. ASSUME Once(q, C), x \in C => ~In(q, x) PROVE Once(r, C)
    <2>1. ASSUME NEW i \in 1..Len(r), NEW j \in 1..Len(r), r[i] \in C, r[i] = r[j] PROVE i = j
        <3>1. CASE i \in 1..Len(q) /\ j \in 1..Len(q)
            BY <1>1, <1>7, <2>1, <3>1 DEF Once
        <3>2. CASE i = Len(q) + 1 /\ j \in 1..Len(q)
            BY <1>1, <1>7, <2>1, <3>2 DEF In
        <3>3. CASE i \in 1..Len(q) /\ j = Len(q) + 1
            BY <1>1, <1>7, <2>1, <3>3 DEF In
        <3> QED
            BY <1>2, <3>1, <3>2, <3>3
    <2> QED
        BY <2>1 DEF Once
<1> QED
    BY <1>5, <1>6, <1>7 DEF r

\* What leaves the front of a queue was before all the others.
LEMMA OfTail ==
    ASSUME NEW E, NEW q \in Seq(E), q # <<>>, NEW y, NEW z, NEW C
    PROVE  /\ Head(q) \in E
           /\ In(q, y) <=> (In(Tail(q), y) \/ y = Head(q))
           /\ Before(Tail(q), y, z) => Before(q, y, z)
           /\ (In(q, z) /\ z # Head(q)) => Before(q, Head(q), z)
           /\ Once(q, C) => (Once(Tail(q), C) /\ (Head(q) \in C => ~In(Tail(q), Head(q))))
<1> DEFINE r == Tail(q)
<1>1. /\ Len(q) \in Nat /\ Len(q) >= 1 /\ Len(r) = Len(q) - 1 /\ Head(q) = q[1]
      /\ \A i \in 1..Len(r) : r[i] = q[i + 1]
    OBVIOUS
<1>2. \A i \in 1..Len(r) : i \in Nat /\ i + 1 \in 1..Len(q) /\ i + 1 # 1
    BY <1>1
<1>3. \A i \in 1..Len(q) : i = 1 \/ (i - 1 \in 1..Len(r) /\ i - 1 + 1 = i /\ 1 < i)
    BY <1>1
<1>4. 1 \in 1..Len(q) /\ q[1] \in E
    BY <1>1
<1> HIDE DEF r
<1>5. In(q, y) <=> (In(r, y) \/ y = q[1])
    <2>1. ASSUME In(q, y), y # q[1] PROVE In(r, y)
        <3>1. PICK i \in 1..Len(q) : q[i] = y
            BY <2>1 DEF In
        <3>2. PICK j \in 1..Len(r) : j = i - 1 /\ j + 1 = i
            BY <1>3, <2>1, <3>1
        <3> QED
            BY <1>1, <3>1, <3>2 DEF In
    <2>2. ASSUME In(r, y) PROVE In(q, y)
        BY <1>1, <1>2, <2>2 DEF In
    <2> QED
        BY <1>4, <2>1, <2>2 DEF In
<1>6. ASSUME Before(r, y, z) PROVE Before(q, y, z)
    <2>1. PICK i, j \in 1..Len(r) : i < j /\ r[i] = y /\ r[j] = z
        BY <1>6 DEF Before
    <2>2. /\ i + 1 \in 1..Len(q) /\ j + 1 \in 1..Len(q) /\ i + 1 < j + 1
          /\ q[i + 1] = y /\ q[j + 1] = z
        BY <1>1, <1>2, <2>1
    <2> QED
        BY <2>2 DEF Before
<1>7. ASSUME In(q, z), z # q[1] PROVE Before(q, q[1], z)
    <2>1. PICK i \in 1..Len(q) : q[i] = z
        BY <1>7 DEF In
    <2>2. 1 < i
        BY <1>3, <1>7, <2>1
    <2> QED
        BY <1>4, <2>1, <2>2 DEF Before
<1>8. ASSUME Once(q, C) PROVE Once(r, C) /\ (q[1] \in C => ~In(r, q[1]))
    <2>1. ASSUME NEW i \in 1..Len(r), NEW j \in 1..Len(r), r[i] \in C, r[i] = r[j] PROVE i = j
        <3>1. q[i + 1] \in C /\ q[i + 1] = q[j + 1]
            BY <1>1, <2>1
        <3>2. i + 1 = j + 1
            BY <1>2, <1>8, <3>1 DEF Once
        <3> QED
            BY <1>2, <3>2
    <2>2. ASSUME q[1] \in C, In(r, q[1]) PROVE FALSE
        <3>1. PICK i \in 1..Len(r) : r[i] = q[1]
            BY <2>2 DEF In
        <3>2. q[i + 1] = q[1] /\ i + 1 \in 1..Len(q) /\ i + 1 # 1
            BY <1>1, <1>2, <3>1
        <3> QED
            BY <1>4, <1>8, <2>2, <3>2 DEF Once
    <2> QED
        BY <2>1, <2>2 DEF Once
<1> QED
    BY <1>1, <1>4, <1>5, <1>6, <1>7, <1>8 DEF r

\* A queue behind a queue comes before nothing.
LEMMA OfConcat ==
    ASSUME NEW E, NEW q \in Seq(E), NEW F, NEW r \in Seq(F), NEW y, NEW z, NEW C,
           C \cap F = {}
    PROVE  /\ In(q \o r, y) <=> (In(q, y) \/ In(r, y))
           /\ (z \in C /\ Before(q \o r, y, z)) => Before(q, y, z)
           /\ Once(q, C) => Once(q \o r, C)
           /\ y \in C => ~In(r, y)
<1> DEFINE s == q \o r
<1>1. /\ Len(q) \in Nat /\ Len(r) \in Nat /\ Len(s) = Len(q) + Len(r)
      /\ \A i \in 1..Len(s) : s[i] = IF i <= Len(q) THEN q[i] ELSE r[i - Len(q)]
      /\ \A i \in 1..Len(r) : r[i] \in F
    OBVIOUS
<1> HIDE DEF s
<1>2. \A i \in 1..Len(q) : i \in 1..Len(s) /\ s[i] = q[i]
    BY <1>1
<1>3. \A i \in 1..Len(s) :
          \/ i \in 1..Len(q)
          \/ i > Len(q) /\ i - Len(q) \in 1..Len(r) /\ s[i] = r[i - Len(q)]
    BY <1>1
<1>4. \A i \in 1..Len(r) : i + Len(q) \in 1..Len(s) /\ s[i + Len(q)] = r[i]
    <2>1. ASSUME NEW i \in 1..Len(r)
          PROVE  i + Len(q) \in 1..Len(s) /\ ~(i + Len(q) <= Len(q)) /\ (i + Len(q)) - Len(q) = i
        BY <1>1
    <2> QED
        BY <1>1, <2>1
<1>5. y \in C => ~In(r, y)
    BY <1>1 DEF In
<1>6. In(s, y) <=> (In(q, y) \/ In(r, y))
    BY <1>2, <1>3, <1>4 DEF In
<1>7. \A i \in 1..Len(s) : s[i] \in C => i \in 1..Len(q)
    BY <1>1, <1>3
<1>8. ASSUME z \in C, Before(s, y, z) PROVE Before(q, y, z)
    <2>1. PICK i, j \in 1..Len(s) : i < j /\ s[i] = y /\ s[j] = z
        BY <1>8 DEF Before
    <2>2. j \in 1..Len(q)
        BY <1>7, <1>8, <2>1
    <2>3. i \in 1..Len(q)
        BY <1>1, <2>1, <2>2
    <2> QED
        BY <1>2, <2>1, <2>2, <2>3 DEF Before
<1>9. Once(q, C) => Once(s, C)
    BY <1>2, <1>7 DEF Once
<1> QED
    BY <1>5, <1>6, <1>8, <1>9 DEF s
-----------------------------------------------------------------------------
(* Who is in the queue of the io context.                                   *)

Waiting == {"read", "unread", "written"}

\* A session is in the queue while its handler is to be called, and once.
QueueInv ==
    /\ \A c \in Conns : In(queue, c) <=> conn[c] \in Waiting
    /\ Once(queue, Conns)

\* No session starts or stops to wait for its handler.
Calm == \A c \in Conns : conn'[c] \in Waiting <=> conn[c] \in Waiting

\* A session is no accept loop.
LEMMA Apart == Conns \cap Loops = {}
BY TransportAssumption DEF Loops

\* The end of an operation queues its session.
LEMMA SessionJoins ==
    ASSUME TypeOK, QueueInv, NEW c \in Conns, NEW from, NEW to, Goto(c, from, to), Enqueue(c),
           from \notin Waiting, to \in Waiting
    PROVE  QueueInv'
<1>1. queue \in Seq(Loops \cup Conns) /\ c \in Loops \cup Conns /\ ~In(queue, c)
    BY DEF TypeOK, QueueInv, Goto
<1>2. queue' = Append(queue, c)
    BY DEF Enqueue
<1>3. Once(queue', Conns)
    BY <1>1, <1>2, OfAppend DEF QueueInv
<1>4. ASSUME NEW d \in Conns PROVE In(queue', d) <=> conn'[d] \in Waiting
    <2>1. In(queue', d) <=> (In(queue, d) \/ d = c)
        BY <1>1, <1>2, OfAppend
    <2>2. conn'[d] = IF d = c THEN to ELSE conn[d]
        BY DEF Goto, TypeOK
    <2> QED
        BY <2>1, <2>2 DEF QueueInv
<1> QED
    BY <1>3, <1>4 DEF QueueInv, In, Once

\* An accept loop in the queue is not counted.
LEMMA LoopJoins ==
    ASSUME TypeOK, QueueInv, NEW k \in Loops, Enqueue(k), Calm
    PROVE  QueueInv'
<1>1. queue \in Seq(Loops \cup Conns) /\ k \in Loops \cup Conns /\ k \notin Conns
    BY Apart DEF TypeOK
<1>2. queue' = Append(queue, k)
    BY DEF Enqueue
<1>3. Once(queue', Conns)
    BY <1>1, <1>2, OfAppend DEF QueueInv
<1>4. ASSUME NEW d \in Conns PROVE In(queue', d) <=> conn'[d] \in Waiting
    <2>1. In(queue', d) <=> (In(queue, d) \/ d = k)
        BY <1>1, <1>2, OfAppend
    <2> QED
        BY <1>1, <2>1 DEF QueueInv, Calm
<1> QED
    BY <1>3, <1>4 DEF QueueInv, In, Once

\* A session leaves the queue when its handler is called.
LEMMA SessionLeaves ==
    ASSUME TypeOK, QueueInv, NEW c \in Conns, NEW from, NEW to, Goto(c, from, to), Called(c),
           to \notin Waiting
    PROVE  QueueInv'
<1>1. queue \in Seq(Loops \cup Conns) /\ queue # <<>> /\ Head(queue) = c /\ queue' = Tail(queue)
    BY DEF TypeOK, Called
<1>2. Once(queue', Conns) /\ ~In(queue', c)
    BY <1>1, OfTail DEF QueueInv
<1>3. ASSUME NEW d \in Conns PROVE In(queue', d) <=> conn'[d] \in Waiting
    <2>1. In(queue, d) <=> (In(queue', d) \/ d = c)
        BY <1>1, OfTail
    <2>2. conn'[d] = IF d = c THEN to ELSE conn[d]
        BY DEF Goto, TypeOK
    <2> QED
        BY <1>2, <2>1, <2>2 DEF QueueInv
<1> QED
    BY <1>2, <1>3 DEF QueueInv, In, Once

\* An accept loop leaves it.
LEMMA LoopLeaves ==
    ASSUME TypeOK, QueueInv, NEW k \in Loops, Called(k), Calm
    PROVE  QueueInv'
<1>1. queue \in Seq(Loops \cup Conns) /\ queue # <<>> /\ Head(queue) = k /\ queue' = Tail(queue)
    BY DEF TypeOK, Called
<1>2. Once(queue', Conns)
    BY <1>1, OfTail DEF QueueInv
<1>3. ASSUME NEW d \in Conns PROVE In(queue', d) <=> conn'[d] \in Waiting
    <2>1. In(queue, d) <=> (In(queue', d) \/ d = k)
        BY <1>1, OfTail
    <2> QED
        BY <2>1, Apart DEF QueueInv, Calm
<1> QED
    BY <1>2, <1>3 DEF QueueInv, In, Once

\* The queue changes only when somebody joins or leaves it.
LEMMA QueueStays ==
    ASSUME QueueInv, queue' = queue, Calm
    PROVE  QueueInv'
BY DEF QueueInv, Calm, In, Once

\* At first nobody is queued.
LEMMA InitQueue == Init => QueueInv
<1> SUFFICES ASSUME Init PROVE QueueInv
    OBVIOUS
<1>1. Len(queue) = 0 /\ \A c \in Conns : conn[c] \notin Waiting
    BY DEF Init, Waiting
<1> QED
    BY <1>1 DEF QueueInv, In, Once

\* Every step keeps the queue that of the sessions that wait for their handlers.
LEMMA StepQueue == TypeOK /\ QueueInv /\ [Next]_vars => QueueInv'
<1>1. SUFFICES ASSUME TypeOK, QueueInv, [Next]_vars PROVE QueueInv'
    OBVIOUS
<1>2. ASSUME NEW k \in Loops, OnAccept(k) PROVE QueueInv'
    <2>1. Calm
        BY <1>1, <1>2 DEF OnAccept, Goto, Calm, Waiting, TypeOK
    <2> QED
        BY <1>1, <1>2, <2>1, LoopLeaves DEF OnAccept
<1>3. ASSUME NEW c \in Conns, OnRead(c) PROVE QueueInv'
    <2>1. Called(c) /\ (Goto(c, "read", "handling") \/ Goto(c, "unread", "closed"))
        BY <1>3 DEF OnRead
    <2>2. "handling" \notin Waiting /\ "closed" \notin Waiting
        BY DEF Waiting
    <2> QED
        BY <1>1, <2>1, <2>2, SessionLeaves
<1>4. ASSUME NEW c \in Conns, OnWrite(c) PROVE QueueInv'
    <2>1. Called(c) /\ Goto(c, "written", "closed") /\ "closed" \notin Waiting
        BY <1>4 DEF OnWrite, Waiting
    <2> QED
        BY <1>1, <2>1, SessionLeaves
<1>5. ASSUME NEW k \in Loops, DoAccept(k) \/ AsyncAccept(k) \/ AcceptFails(k) PROVE QueueInv'
    <2>1. Calm /\ (queue' = queue \/ Enqueue(k))
        BY <1>5 DEF DoAccept, AsyncAccept, AcceptFails, Calm
    <2> QED
        BY <1>1, <2>1, LoopJoins, QueueStays
<1>6. ASSUME NEW c \in Conns, OnReadEnds(c) \/ Connect(c) PROVE QueueInv'
    <2>1. Calm /\ queue' = queue
        BY <1>1, <1>6 DEF OnReadEnds, Connect, Goto, Calm, Waiting, TypeOK
    <2> QED
        BY <1>1, <2>1, QueueStays
<1>7. ASSUME NEW c \in Conns, KernelAccepts(c) PROVE QueueInv'
    <2>1. PICK k \in Loops : Goto(c, "backlog", "accepted") /\ Enqueue(k)
        BY <1>7 DEF KernelAccepts
    <2>2. Calm
        BY <1>1, <2>1 DEF Goto, Calm, Waiting, TypeOK
    <2> QED
        BY <1>1, <2>1, <2>2, LoopJoins
<1>8. ASSUME NEW c \in Conns, ReadEnds(c) PROVE QueueInv'
    <2>1. Enqueue(c) /\ (Goto(c, "reading", "unread") \/ Goto(c, "reading", "read"))
        BY <1>8 DEF ReadEnds
    <2>2. "reading" \notin Waiting /\ "unread" \in Waiting /\ "read" \in Waiting
        BY DEF Waiting
    <2> QED
        BY <1>1, <2>1, <2>2, SessionJoins
<1>9. ASSUME NEW c \in Conns, WriteEnds(c) PROVE QueueInv'
    <2>1. Enqueue(c) /\ Goto(c, "writing", "written")
        BY <1>9 DEF WriteEnds
    <2>2. "writing" \notin Waiting /\ "written" \in Waiting
        BY DEF Waiting
    <2> QED
        BY <1>1, <2>1, <2>2, SessionJoins
<1>10. CASE CloseAcceptor
    <2>1. PICK aborted \in SetToSeqs({k \in Loops : loop[k] = "armed"}) :
              queue' = queue \o aborted
        BY <1>10 DEF CloseAcceptor
    <2>2. aborted \in Seq(Loops) /\ queue \in Seq(Loops \cup Conns)
        BY <1>1, AbortedType DEF TypeOK
    <2>3. Once(queue', Conns)
        BY <1>1, <2>1, <2>2, Apart, OfConcat DEF QueueInv
    <2>4. ASSUME NEW d \in Conns PROVE In(queue', d) <=> conn'[d] \in Waiting
        <3>1. In(queue', d) <=> In(queue, d)
            BY <2>1, <2>2, Apart, OfConcat
        <3>2. conn'[d] \in Waiting <=> conn[d] \in Waiting
            BY <1>10 DEF CloseAcceptor, Waiting
        <3> QED
            BY <1>1, <3>1, <3>2 DEF QueueInv
    <2> QED
        BY <2>3, <2>4 DEF QueueInv, In, Once
<1>11. CASE Tick \/ Start \/ Stop \/ StopIoc \/ JoinThreads \/ UNCHANGED vars
    <2>1. queue' = queue /\ conn' = conn
        BY <1>11 DEF Tick, Start, Stop, StopIoc, JoinThreads, vars
    <2> QED
        BY <1>1, <2>1, QueueStays DEF Calm
<1> QED
    BY <1>1, <1>2, <1>3, <1>4, <1>5, <1>6, <1>7, <1>8, <1>9, <1>10, <1>11
       DEF Next, CallHandler, Handler, Kernel, Shutdown
-----------------------------------------------------------------------------
(* A session that has not got so far.                                       *)

\* Nobody sends a request in time to a server that has not started.
NotBegun == starts = 0 => app = "stopped" /\ early = {}

\* A session has not waited before its request is handled, it has no response
\* before the write ends, and is in time only once it was read.
Fresh ==
    \A c \in Conns :
        /\ conn[c] \notin {"handling", "writing", "written"} => waited[c] = 0
        /\ conn[c] # "written" => response[c] = "none"
        /\ conn[c] \in {"new", "backlog", "accepted", "reading"} => c \notin early

\* Before the first Start no session was read or answered.
LEMMA InitFresh == Init => NotBegun /\ Fresh
BY DEF Init, NotBegun, Fresh

\* Every step keeps a session fresh until it is read.
LEMMA StepFresh == TypeOK /\ NotBegun /\ Fresh /\ [Next]_vars => (NotBegun /\ Fresh)'
<1>1. SUFFICES ASSUME TypeOK, NotBegun, Fresh, [Next]_vars PROVE (NotBegun /\ Fresh)'
    OBVIOUS
<1>2. ASSUME NEW k \in Loops, OnAccept(k) \/ DoAccept(k) \/ AsyncAccept(k) \/ AcceptFails(k)
      PROVE  (NotBegun /\ Fresh)'
    <2>1. UNCHANGED <<appVars, timeVars, response>>
        BY <1>2 DEF OnAccept, DoAccept, AsyncAccept, AcceptFails
    <2>2. \A c \in Conns : \/ conn'[c] = conn[c]
                           \/ conn[c] = "accepted" /\ conn'[c] \in {"reading", "closed"}
        BY <1>1, <1>2 DEF OnAccept, DoAccept, AsyncAccept, AcceptFails, Goto, TypeOK
    <2> QED
        BY <1>1, <2>1, <2>2 DEF NotBegun, Fresh, appVars, timeVars
<1>3. ASSUME NEW c \in Conns, OnRead(c) \/ OnWrite(c) PROVE (NotBegun /\ Fresh)'
    <2>1. \/ Goto(c, "read", "handling") /\ UNCHANGED <<timeVars, response>>
          \/ (Goto(c, "unread", "closed") \/ Goto(c, "written", "closed")) /\ Forget(c)
        BY <1>3 DEF OnRead, OnWrite
    <2>2. UNCHANGED appVars
        BY <1>3 DEF OnRead, OnWrite
    <2>3. NotBegun'
        BY <1>1, <2>1, <2>2 DEF NotBegun, Forget, timeVars, appVars
    <2>4. CASE Goto(c, "read", "handling") /\ UNCHANGED <<timeVars, response>>
        BY <1>1, <2>3, <2>4 DEF Fresh, Goto, timeVars, TypeOK
    <2>5. CASE (Goto(c, "unread", "closed") \/ Goto(c, "written", "closed")) /\ Forget(c)
        BY <1>1, <2>3, <2>5 DEF Fresh, Goto, Forget, TypeOK
    <2> QED
        BY <2>1, <2>4, <2>5
<1>4. ASSUME NEW c \in Conns, OnReadEnds(c) \/ Connect(c) \/ KernelAccepts(c)
      PROVE  (NotBegun /\ Fresh)'
    <2>1. UNCHANGED <<appVars, timeVars, response>>
        BY <1>4 DEF OnReadEnds, Connect, KernelAccepts
    <2>2. \/ Goto(c, "handling", "writing")
          \/ Goto(c, "new", "backlog")
          \/ Goto(c, "backlog", "accepted")
        BY <1>4 DEF OnReadEnds, Connect, KernelAccepts
    <2> QED
        BY <1>1, <2>1, <2>2 DEF NotBegun, Fresh, Goto, appVars, timeVars, TypeOK
<1>5. ASSUME NEW c \in Conns, ReadEnds(c) PROVE (NotBegun /\ Fresh)'
    <2>1. NotBegun'
        BY <1>1, <1>5 DEF ReadEnds, NotBegun, appVars
    <2>2. Goto(c, "reading", "unread") \/ Goto(c, "reading", "read")
        BY <1>5 DEF ReadEnds
    <2>3. UNCHANGED <<waited, response>> /\ early' \subseteq early \cup {c}
        BY <1>5 DEF ReadEnds
    <2> QED
        BY <1>1, <2>1, <2>2, <2>3 DEF Fresh, Goto, TypeOK
<1>6. ASSUME NEW c \in Conns, WriteEnds(c) PROVE (NotBegun /\ Fresh)'
    <2>1. Goto(c, "writing", "written") /\ UNCHANGED <<appVars, timeVars>>
        BY <1>6 DEF WriteEnds
    <2>2. \A d \in Conns \ {c} : response'[d] = response[d]
        BY <1>1, <1>6 DEF WriteEnds, TypeOK
    <2> QED
        BY <1>1, <2>1, <2>2 DEF NotBegun, Fresh, Goto, appVars, timeVars, TypeOK
<1>7. CASE Tick
    <2>1. UNCHANGED <<appVars, conn, early, response>>
        BY <1>7 DEF Tick
    <2>2. \A c \in Conns : conn[c] # "handling" => waited'[c] = waited[c]
        BY <1>1, <1>7 DEF Tick, TypeOK
    <2> QED
        BY <1>1, <2>1, <2>2 DEF NotBegun, Fresh, appVars
<1>8. CASE Start \/ Stop \/ StopIoc \/ JoinThreads \/ UNCHANGED vars
    <2>1. UNCHANGED <<conn, timeVars, response>>
        BY <1>8 DEF Start, Stop, StopIoc, JoinThreads, vars
    <2>2. NotBegun'
        BY <1>1, <1>8
           DEF Start, Stop, StopIoc, JoinThreads, vars, appVars, timeVars, NotBegun, TypeOK
    <2> QED
        BY <1>1, <2>1, <2>2 DEF Fresh, timeVars
<1>9. CASE CloseAcceptor
    <2>1. UNCHANGED <<starts, timeVars, response>> /\ app = "close"
        BY <1>9 DEF CloseAcceptor
    <2>2. \A c \in Conns : \/ conn'[c] = conn[c]
                           \/ conn[c] = "backlog" /\ conn'[c] = "closed"
        BY <1>1, <1>9 DEF CloseAcceptor, TypeOK
    <2> QED
        BY <1>1, <2>1, <2>2 DEF NotBegun, Fresh, timeVars
<1> QED
    BY <1>1, <1>2, <1>3, <1>4, <1>5, <1>6, <1>7, <1>8, <1>9
       DEF Next, CallHandler, Handler, Kernel, Shutdown
-----------------------------------------------------------------------------
(* The waits that are still ahead of a request.                             *)

\* The requests that will be handled before that of c, and those that are being
\* handled and may take longer than rest.
Ahead(c)   == {d \in Conns : conn[d] = "read" /\ Before(queue, d, c)}
Slow(rest) == {d \in Conns : conn[d] = "handling" /\ waited[d] + rest < SyncTimeout}

\* The deadline leaves time for some turns of the io threads, a rest, and the wait
\* of c itself; after the turns and the rest, a thread is free for c.
InTime(c) ==
    \E turns, rest \in Nat :
        /\ age[c] + SyncTimeout + turns * SyncTimeout + rest < Deadline
        /\ Cardinality(Ahead(c) \cup Slow(rest)) < IoThreads * (turns + 1)

IocRuns == app \in {"serving", "close", "stopIoc"}

\* A request that was read early will be handled, and answered, in time.
LateInv ==
    starts = 1 => \A c \in early :
        /\ conn[c] = "read" /\ IocRuns => InTime(c)
        /\ conn[c] = "handling" => age[c] + SyncTimeout < Deadline + waited[c]
        /\ conn[c] = "writing" => age[c] < Deadline

\* A set of sessions is finite.
LEMMA SessionsFinite ==
    ASSUME NEW T, T \subseteq Conns
    PROVE  IsFiniteSet(T) /\ Cardinality(T) \in Nat /\ Cardinality(T) <= Cardinality(Conns)
BY TransportAssumption, FS_Subset, FS_CardinalityType

\* All io threads together take every connection once in Turns waits.
LEMMA TurnsTakeAll == Turns \in Nat /\ Cardinality(Conns) <= IoThreads * Turns
<1>1. Cardinality(Conns) \in Nat /\ IoThreads \in Nat \ {0}
    BY SessionsFinite, TransportAssumption
<1> QED
    BY <1>1, TurnsEnough DEF Turns

\* A session stays in time while nobody gets before it and it does not get older.
LEMMA StaysInTime ==
    ASSUME NEW c \in Conns, InTime(c), age'[c] = age[c],
           \A rest \in Nat : (Ahead(c) \cup Slow(rest))' \subseteq Ahead(c) \cup Slow(rest)
    PROVE  InTime(c)'
<1>1. PICK turns, rest \in Nat :
          /\ age[c] + SyncTimeout + turns * SyncTimeout + rest < Deadline
          /\ Cardinality(Ahead(c) \cup Slow(rest)) < IoThreads * (turns + 1)
    BY DEF InTime
<1> DEFINE now == Ahead(c) \cup Slow(rest)
           next == (Ahead(c) \cup Slow(rest))'
<1>2. now \subseteq Conns /\ next \subseteq now
    BY DEF Ahead, Slow
<1>3. IsFiniteSet(now) /\ Cardinality(now) \in Nat
    BY <1>2, SessionsFinite
<1>4. Cardinality(next) \in Nat /\ Cardinality(next) <= Cardinality(now)
    <2> HIDE DEF now, next
    <2> QED
        BY <1>2, <1>3, FS_Subset, FS_CardinalityType
<1>5. IoThreads * (turns + 1) \in Nat
    BY TransportAssumption
<1>6. Cardinality(next) < IoThreads * (turns + 1)
    <2>1. Cardinality(now) < IoThreads * (turns + 1)
        BY <1>1
    <2> HIDE DEF now, next
    <2> QED
        BY <1>3, <1>4, <1>5, <2>1
<1> QED
    BY <1>1, <1>6 DEF InTime

\* Steps of other sessions, and of the accept loops, keep the invariant.
LEMMA OthersStay ==
    ASSUME TypeOK, LateInv, starts' = starts, early' \subseteq early, IocRuns' => IocRuns,
           \A d \in Conns : conn'[d] \in {"read", "handling", "writing"} =>
               /\ age'[d] = age[d] /\ waited'[d] = waited[d]
               /\ conn'[d] = conn[d] \/ (conn[d] = "handling" /\ conn'[d] = "writing"),
           \A d, e \in Conns :
               conn[e] = "read" /\ Before(queue', d, e) => Before(queue, d, e)
    PROVE  LateInv'
<1>1. SUFFICES ASSUME starts = 1, NEW c \in early'
               PROVE  /\ (conn'[c] = "read" /\ IocRuns') => InTime(c)'
                      /\ conn'[c] = "handling" => age'[c] + SyncTimeout < Deadline + waited'[c]
                      /\ conn'[c] = "writing" => age'[c] < Deadline
    BY DEF LateInv
<1>2. c \in Conns /\ c \in early
    BY DEF TypeOK
<1>3. ASSUME conn'[c] = "read", IocRuns' PROVE InTime(c)'
    <2>1. InTime(c) /\ conn[c] = "read"
        BY <1>1, <1>2, <1>3 DEF LateInv
    <2>2. ASSUME NEW rest \in Nat
          PROVE  (Ahead(c) \cup Slow(rest))' \subseteq Ahead(c) \cup Slow(rest)
        <3>1. Ahead(c)' \subseteq Ahead(c)
            <4>1. ASSUME NEW d \in Conns, conn'[d] = "read", Before(queue', d, c)
                  PROVE  d \in Ahead(c)
                BY <1>2, <2>1, <4>1 DEF Ahead
            <4> QED
                BY <4>1 DEF Ahead, Before
        <3>2. Slow(rest)' \subseteq Slow(rest)
            BY DEF Slow
        <3> QED
            BY <3>1, <3>2
    <2> QED
        BY <1>2, <1>3, <2>1, <2>2, StaysInTime
<1>4. ASSUME conn'[c] = "handling" PROVE age'[c] + SyncTimeout < Deadline + waited'[c]
    BY <1>1, <1>2, <1>4 DEF LateInv
<1>5. ASSUME conn'[c] = "writing" PROVE age'[c] < Deadline
    <2>1. CASE conn[c] = "writing"
        BY <1>1, <1>2, <1>5, <2>1 DEF LateInv
    <2>2. CASE conn[c] = "handling"
        <3>1. age[c] + SyncTimeout < Deadline + waited[c] /\ age'[c] = age[c]
            BY <1>1, <1>2, <1>5, <2>2 DEF LateInv
        <3>2. age[c] \in Nat /\ waited[c] \in Nat /\ waited[c] <= SyncTimeout
              /\ SyncTimeout \in Nat /\ Deadline \in Nat
            BY <1>2, TransportAssumption DEF TypeOK
        <3> QED
            BY <3>1, <3>2
    <2> QED
        BY <1>2, <1>5, <2>1, <2>2
<1> QED
    BY <1>3, <1>4, <1>5

\* A request is handled when its session comes first in the queue, and is ahead of
\* all others until then.
LEMMA HandlingInTime ==
    ASSUME TypeOK, QueueInv, Fresh, LateInv, NEW b \in Conns, Called(b),
           Goto(b, "read", "handling"), UNCHANGED <<appVars, timeVars>>
    PROVE  LateInv'
<1>1. SUFFICES ASSUME starts = 1, NEW c \in early
               PROVE  /\ (conn'[c] = "read" /\ IocRuns) => InTime(c)'
                      /\ conn'[c] = "handling" => age[c] + SyncTimeout < Deadline + waited[c]
                      /\ conn'[c] = "writing" => age[c] < Deadline
    BY DEF LateInv, IocRuns, appVars, timeVars
<1>2. /\ c \in Conns /\ conn[b] = "read" /\ waited[b] = 0 /\ IocRuns /\ UNCHANGED <<age, waited>>
      /\ \A d \in Conns : conn'[d] = IF d = b THEN "handling" ELSE conn[d]
    BY DEF Goto, Called, ThreadFree, IocRuns, Fresh, timeVars, TypeOK
<1>3. /\ queue \in Seq(Loops \cup Conns) /\ queue # <<>> /\ Head(queue) = b
      /\ queue' = Tail(queue)
    BY DEF TypeOK, Called
<1>4. CASE c = b
    <2>1. PICK turns, rest \in Nat : age[c] + SyncTimeout + turns * SyncTimeout + rest < Deadline
        BY <1>1, <1>2, <1>4 DEF LateInv, InTime
    <2>2. age[c] \in Nat /\ SyncTimeout \in Nat /\ Deadline \in Nat /\ turns * SyncTimeout \in Nat
        BY <1>2, TransportAssumption DEF TypeOK
    <2>3. age[c] + SyncTimeout < Deadline + 0
        BY <2>1, <2>2
    <2> QED
        BY <1>2, <1>4, <2>3
<1>5. CASE c # b /\ conn[c] = "read"
    <2>1. InTime(c)
        BY <1>1, <1>2, <1>5 DEF LateInv
    <2>2. b \in Ahead(c)
        <3>1. In(queue, c)
            BY <1>2, <1>5 DEF QueueInv, Waiting
        <3>2. Before(queue, b, c)
            BY <1>3, <1>5, <3>1, OfTail
        <3> QED
            BY <1>2, <3>2 DEF Ahead
    <2>3. ASSUME NEW rest \in Nat
          PROVE  (Ahead(c) \cup Slow(rest))' \subseteq Ahead(c) \cup Slow(rest)
        <3>1. Ahead(c)' \subseteq Ahead(c)
            <4>1. ASSUME NEW d \in Conns, conn'[d] = "read", Before(queue', d, c)
                  PROVE  d \in Ahead(c)
                <5>1. conn[d] = "read"
                    BY <1>2, <4>1
                <5>2. Before(queue, d, c)
                    BY <1>3, <4>1, OfTail
                <5> QED
                    BY <5>1, <5>2 DEF Ahead
            <4> QED
                BY <4>1 DEF Ahead, Before
        <3>2. Slow(rest)' \subseteq Slow(rest) \cup {b}
            BY <1>2 DEF Slow
        <3> QED
            BY <2>2, <3>1, <3>2
    <2>4. InTime(c)'
        BY <1>2, <2>1, <2>3, StaysInTime
    <2> QED
        BY <1>2, <1>5, <2>4
<1>6. CASE c # b /\ conn[c] # "read"
    BY <1>1, <1>2, <1>6 DEF LateInv
<1> QED
    BY <1>4, <1>5, <1>6

\* A request that is read early has time for every turn it may have to wait.
LEMMA ReadInTime ==
    ASSUME TypeOK, QueueInv, Fresh, LateInv, NEW b \in Conns, Enqueue(b),
           Goto(b, "reading", "read"), UNCHANGED <<appVars, age, waited>>,
           early' = IF LeavesTimeForWaits(age[b]) THEN early \cup {b} ELSE early
    PROVE  LateInv'
<1>1. SUFFICES ASSUME starts = 1, NEW c \in early'
               PROVE  /\ (conn'[c] = "read" /\ IocRuns) => InTime(c)'
                      /\ conn'[c] = "handling" => age[c] + SyncTimeout < Deadline + waited[c]
                      /\ conn'[c] = "writing" => age[c] < Deadline
    BY DEF LateInv, IocRuns, appVars
<1>2. /\ c \in Conns /\ conn[b] = "reading" /\ b \notin early /\ UNCHANGED <<age, waited>>
      /\ \A d \in Conns : conn'[d] = IF d = b THEN "read" ELSE conn[d]
    BY DEF Goto, Fresh, TypeOK
<1>3. queue \in Seq(Loops \cup Conns) /\ b \in Loops \cup Conns /\ queue' = Append(queue, b)
      /\ ~In(queue, b)
    BY <1>2 DEF TypeOK, Enqueue, QueueInv, Waiting
<1>4. CASE c = b
    <2>1. age[c] + Turns * SyncTimeout < Deadline
        BY <1>2, <1>4 DEF LeavesTimeForWaits
    <2>2. /\ Turns \in Nat /\ IoThreads \in Nat \ {0} /\ SyncTimeout \in Nat /\ Deadline \in Nat
          /\ age[c] \in Nat
          /\ Cardinality(Conns) \in Nat /\ Cardinality(Conns) <= IoThreads * Turns
        BY <1>2, TransportAssumption, TurnsTakeAll, SessionsFinite DEF TypeOK
    <2> DEFINE T == (Ahead(c) \cup Slow(0))'
    <2>3. T \subseteq Conns \ {c}
        <3>1. ASSUME Before(queue', c, c) PROVE FALSE
            <4>1. PICK i, j \in 1..Len(queue') : i < j /\ queue'[i] = c /\ queue'[j] = c
                BY <3>1 DEF Before
            <4>2. Once(queue', Conns)
                BY <1>3, OfAppend DEF QueueInv
            <4>3. i = j
                BY <1>2, <4>1, <4>2 DEF Once
            <4> QED
                BY <4>1, <4>3
        <3> QED
            BY <1>2, <1>4, <3>1 DEF Ahead, Slow, Before
    <2>4. Cardinality(T) < Cardinality(Conns)
        <3> HIDE DEF T
        <3>1. IsFiniteSet(Conns) /\ Cardinality(Conns \ {c}) = Cardinality(Conns) - 1
            BY <1>2, TransportAssumption, FS_RemoveElement
        <3>2. IsFiniteSet(Conns \ {c})
            BY <3>1, FS_RemoveElement
        <3>3. Cardinality(T) <= Cardinality(Conns \ {c}) /\ Cardinality(T) \in Nat
            BY <2>3, <3>2, FS_Subset, FS_CardinalityType
        <3> QED
            BY <2>2, <3>1, <3>3
    <2>5. Cardinality(T) \in Nat
        <3>1. T \subseteq Conns
            BY <2>3
        <3> QED
            BY <3>1, SessionsFinite
    <2> HIDE DEF T
    <2>6. Turns # 0
        BY <2>2, <2>4, <2>5
    <2>7. PICK turns \in Nat : Turns = turns + 1
        <3>1. Turns - 1 \in Nat /\ Turns = (Turns - 1) + 1
            BY <2>2, <2>6
        <3> QED
            BY <3>1
    <2>8. age[c] + SyncTimeout + turns * SyncTimeout + 0 < Deadline
        <3>1. /\ (turns + 1) * SyncTimeout = SyncTimeout + turns * SyncTimeout
              /\ turns * SyncTimeout \in Nat
            BY <2>2
        <3> QED
            BY <2>1, <2>2, <2>7, <3>1
    <2>9. Cardinality(T) < IoThreads * (turns + 1)
        <3>1. IoThreads * (turns + 1) \in Nat /\ Cardinality(Conns) <= IoThreads * (turns + 1)
            BY <2>2, <2>7
        <3> QED
            BY <2>2, <2>4, <2>5, <3>1
    <2>10. InTime(c)'
        BY <1>2, <2>8, <2>9 DEF T, InTime
    <2> QED
        BY <1>2, <1>4, <2>10
<1>5. CASE c # b /\ conn[c] = "read"
    <2>1. IocRuns => InTime(c)
        BY <1>1, <1>2, <1>5 DEF LateInv
    <2>2. ASSUME NEW rest \in Nat
          PROVE  (Ahead(c) \cup Slow(rest))' \subseteq Ahead(c) \cup Slow(rest)
        <3>1. Ahead(c)' \subseteq Ahead(c)
            <4>1. ASSUME NEW d \in Conns, conn'[d] = "read", Before(queue', d, c)
                  PROVE  d \in Ahead(c)
                <5>1. Before(queue, d, c)
                    BY <1>3, <1>5, <4>1, OfAppend
                <5>2. d # b
                    BY <1>3, <5>1 DEF Before, In
                <5> QED
                    BY <1>2, <4>1, <5>1, <5>2 DEF Ahead
            <4> QED
                BY <4>1 DEF Ahead, Before
        <3>2. Slow(rest)' \subseteq Slow(rest)
            BY <1>2 DEF Slow
        <3> QED
            BY <3>1, <3>2
    <2>3. IocRuns => InTime(c)'
        BY <1>2, <2>1, <2>2, StaysInTime
    <2> QED
        BY <1>2, <1>5, <2>3
<1>6. CASE c # b /\ conn[c] # "read"
    <2>1. c \in early
        BY <1>6
    <2> QED
        BY <1>1, <1>2, <1>6, <2>1 DEF LateInv
<1> QED
    BY <1>4, <1>5, <1>6

\* While a request is queued all io threads handle requests, and each of those has
\* waited a little longer when time passes.
LEMMA AllThreadsWait ==
    ASSUME TypeOK, QueueInv, Tick, IocRuns, NEW c \in Conns, conn[c] = "read"
    PROVE  /\ IoThreads <= Cardinality(Slow(0))
           /\ Slow(0) = {d \in Conns : conn[d] = "handling"}
           /\ \A d \in Conns : conn[d] = "handling" => waited'[d] = waited[d] + 1
           /\ 1 <= SyncTimeout
<1> DEFINE handling == {d \in Conns : conn[d] = "handling"}
<1>1. queue # <<>>
    BY DEF QueueInv, Waiting, In
<1>2. ~(Cardinality(Busy) < IoThreads) /\ Busy \subseteq Conns
    BY <1>1 DEF Tick, ThreadFree, IocRuns
<1>3. Busy = handling
    BY <1>2, Apart DEF Busy
<1>4. \A d \in Conns : conn[d] = "handling" => waited[d] < SyncTimeout
    BY DEF Tick, MayWait
<1>5. \A d \in Conns : waited[d] \in Nat
    BY DEF TypeOK
<1>6. Slow(0) = handling
    BY <1>4, <1>5 DEF Slow
<1>7. \A d \in Conns : conn[d] = "handling" => waited'[d] = waited[d] + 1
    BY <1>4 DEF Tick
<1>8. handling # {}
    <2>1. Cardinality(handling) # 0
        BY <1>2, <1>3, TransportAssumption
    <2> QED
        BY <2>1, FS_EmptySet
<1>9. 1 <= SyncTimeout
    <2>1. PICK d \in Conns : conn[d] = "handling"
        BY <1>8
    <2> QED
        BY <1>4, <1>5, <2>1, TransportAssumption
<1>10. IoThreads <= Cardinality(Slow(0))
    <2>1. Cardinality(handling) \in Nat
        BY SessionsFinite
    <2> HIDE DEF handling
    <2> QED
        BY <1>2, <1>3, <1>6, <2>1, TransportAssumption
<1> QED
    BY <1>6, <1>7, <1>9, <1>10

\* Time shortens the waits ahead of a request as it does the deadline: a rest by
\* what has passed, and when none is left, all threads begin their next turn.
LEMMA TimeShortensWaits ==
    ASSUME TypeOK, QueueInv, Tick, IocRuns, NEW c \in Conns, conn[c] = "read", InTime(c)
    PROVE  InTime(c)'
<1>1. PICK turns, rest \in Nat :
          /\ age[c] + SyncTimeout + turns * SyncTimeout + rest < Deadline
          /\ Cardinality(Ahead(c) \cup Slow(rest)) < IoThreads * (turns + 1)
    BY DEF InTime
<1>2. /\ IoThreads <= Cardinality(Slow(0))
      /\ Slow(0) = {d \in Conns : conn[d] = "handling"}
      /\ \A d \in Conns : conn[d] = "handling" => waited'[d] = waited[d] + 1
      /\ 1 <= SyncTimeout
    BY AllThreadsWait
<1>3. /\ IoThreads \in Nat \ {0} /\ SyncTimeout \in Nat /\ Deadline \in Nat /\ age[c] \in Nat
      /\ \A d \in Conns : waited[d] \in Nat
      /\ turns * SyncTimeout \in Nat /\ IoThreads * turns \in Nat
      /\ IoThreads * (turns + 1) = IoThreads * turns + IoThreads
    BY TransportAssumption DEF TypeOK
<1>4. age'[c] = age[c] + 1
    <2>1. age[c] < Deadline
        BY <1>1, <1>3
    <2> QED
        BY <2>1 DEF Tick, Older
<1>5. Ahead(c)' = Ahead(c) /\ conn' = conn
    BY DEF Tick, Ahead, Before
<1>6. CASE rest # 0
    <2>1. PICK less \in Nat : rest = less + 1
        <3>1. rest - 1 \in Nat /\ rest = (rest - 1) + 1
            BY <1>6
        <3> QED
            BY <3>1
    <2>2. Slow(less)' = Slow(rest)
        BY <1>2, <1>3, <1>5, <2>1 DEF Slow
    <2>3. age'[c] + SyncTimeout + turns * SyncTimeout + less < Deadline
        BY <1>1, <1>3, <1>4, <2>1
    <2>4. Cardinality((Ahead(c) \cup Slow(less))') < IoThreads * (turns + 1)
        BY <1>1, <1>5, <2>2
    <2> QED
        BY <2>3, <2>4 DEF InTime
<1>7. CASE rest = 0
    <2>1. /\ IsFiniteSet(Ahead(c)) /\ Cardinality(Ahead(c)) \in Nat
          /\ IsFiniteSet(Slow(0)) /\ Cardinality(Slow(0)) \in Nat
        BY SessionsFinite DEF Ahead, Slow
    <2>2. Ahead(c) \cap Slow(0) = {}
        BY DEF Ahead, Slow
    <2>3. Cardinality(Ahead(c) \cup Slow(0)) = Cardinality(Ahead(c)) + Cardinality(Slow(0))
        BY <2>1, <2>2, FS_Union, FS_EmptySet
    <2>4. Cardinality(Ahead(c)) < IoThreads * turns
        BY <1>1, <1>2, <1>3, <1>7, <2>1, <2>3
    <2>5. turns # 0
        BY <1>3, <2>1, <2>4
    <2>6. PICK fewer \in Nat : turns = fewer + 1
        <3>1. turns - 1 \in Nat /\ turns = (turns - 1) + 1
            BY <2>5
        <3> QED
            BY <3>1
    <2>7. PICK less \in Nat : SyncTimeout = less + 1
        <3>1. SyncTimeout - 1 \in Nat /\ SyncTimeout = (SyncTimeout - 1) + 1
            BY <1>2, <1>3
        <3> QED
            BY <3>1
    <2>8. age'[c] + SyncTimeout + fewer * SyncTimeout + less < Deadline
        <3>1. (fewer + 1) * SyncTimeout = fewer * SyncTimeout + SyncTimeout
              /\ fewer * SyncTimeout \in Nat
            BY <1>3
        <3>2. age[c] + SyncTimeout + (fewer * SyncTimeout + SyncTimeout) < Deadline
            BY <1>1, <1>3, <1>7, <2>6, <3>1
        <3> QED
            BY <1>3, <1>4, <2>7, <3>1, <3>2
    <2>9. Slow(less)' = {}
        <3>1. \A d \in Conns : conn[d] = "handling" => ~(waited'[d] + less < SyncTimeout)
            BY <1>2, <1>3, <2>7
        <3> QED
            BY <1>5, <3>1 DEF Slow
    <2>10. Cardinality((Ahead(c) \cup Slow(less))') < IoThreads * (fewer + 1)
        BY <1>5, <2>4, <2>6, <2>9
    <2> QED
        BY <2>8, <2>10 DEF InTime
<1> QED
    BY <1>6, <1>7

\* Time keeps the invariant.
LEMMA TickInTime ==
    ASSUME TypeOK, QueueInv, LateInv, Tick
    PROVE  LateInv'
<1>1. SUFFICES ASSUME starts = 1, NEW c \in early
               PROVE  /\ (conn[c] = "read" /\ IocRuns) => InTime(c)'
                      /\ conn[c] = "handling" => age'[c] + SyncTimeout < Deadline + waited'[c]
                      /\ conn[c] # "writing"
    <2>1. UNCHANGED <<app, starts, early, conn>>
        BY DEF Tick, appVars
    <2> QED
        BY <1>1, <2>1 DEF LateInv, IocRuns
<1>2. c \in Conns /\ conn[c] # "writing"
    BY DEF TypeOK, Tick
<1>3. ASSUME conn[c] = "read", IocRuns PROVE InTime(c)'
    BY <1>1, <1>2, <1>3, TimeShortensWaits DEF LateInv
<1>4. ASSUME conn[c] = "handling" PROVE age'[c] + SyncTimeout < Deadline + waited'[c]
    <2>1. age[c] + SyncTimeout < Deadline + waited[c]
        BY <1>1, <1>4 DEF LateInv
    <2>2. waited'[c] = waited[c] + 1
        BY <1>2, <1>4 DEF Tick, MayWait
    <2>3. age'[c] = age[c] \/ age'[c] = age[c] + 1
        BY <1>2 DEF Tick, Older
    <2>4. age[c] \in Nat /\ waited[c] \in Nat /\ SyncTimeout \in Nat /\ Deadline \in Nat
        BY <1>2, TransportAssumption DEF TypeOK
    <2> QED
        BY <2>1, <2>2, <2>3, <2>4
<1> QED
    BY <1>2, <1>3, <1>4

\* At first no request was read.
LEMMA InitLate == Init => LateInv
BY DEF Init, LateInv

\* Every step keeps requests that were read early in time.
LEMMA StepLate ==
    TypeOK /\ TypeOK' /\ QueueInv /\ NotBegun /\ Fresh /\ LateInv /\ [Next]_vars => LateInv'
<1>1. SUFFICES ASSUME TypeOK, QueueInv, NotBegun, Fresh, LateInv, [Next]_vars PROVE LateInv'
    OBVIOUS
<1>2. queue \in Seq(Loops \cup Conns)
    BY <1>1 DEF TypeOK
<1>3. ASSUME NEW x, Called(x), NEW d, NEW e, Before(queue', d, e) PROVE Before(queue, d, e)
    BY <1>2, <1>3, OfTail DEF Called
<1>4. ASSUME NEW x \in Loops \cup Conns, Enqueue(x), NEW d, NEW e, e # x, Before(queue', d, e)
      PROVE  Before(queue, d, e)
    BY <1>2, <1>4, OfAppend DEF Enqueue
<1>5. ASSUME NEW k \in Loops, OnAccept(k) PROVE LateInv'
    <2>1. Called(k) /\ UNCHANGED <<appVars, timeVars>>
        BY <1>5 DEF OnAccept
    <2>2. \A d \in Conns : conn'[d] \in {"read", "handling", "writing"} => conn'[d] = conn[d]
        BY <1>1, <1>5 DEF OnAccept, Goto, TypeOK
    <2>3. \A d, e \in Conns : Before(queue', d, e) => Before(queue, d, e)
        BY <1>3, <2>1
    <2> QED
        BY <1>1, <2>1, <2>2, <2>3, OthersStay DEF appVars, timeVars, IocRuns
<1>6. ASSUME NEW c \in Conns, OnRead(c) PROVE LateInv'
    <2>1. CASE Goto(c, "read", "handling")
        <3>1. Called(c) /\ UNCHANGED <<appVars, timeVars>>
            BY <1>6, <2>1 DEF OnRead, Goto
        <3> QED
            BY <1>1, <2>1, <3>1, HandlingInTime
    <2>2. CASE ~Goto(c, "read", "handling")
        <3>1. Called(c) /\ Goto(c, "unread", "closed") /\ Forget(c) /\ UNCHANGED appVars
            BY <1>6, <2>2 DEF OnRead
        <3>2. \A d, e \in Conns : Before(queue', d, e) => Before(queue, d, e)
            BY <1>3, <3>1
        <3>3. \A d \in Conns : conn'[d] \in {"read", "handling", "writing"} =>
                  age'[d] = age[d] /\ waited'[d] = waited[d] /\ conn'[d] = conn[d]
            BY <1>1, <3>1 DEF Goto, Forget, TypeOK
        <3>4. early' \subseteq early
            BY <3>1 DEF Forget
        <3> QED
            BY <1>1, <3>1, <3>2, <3>3, <3>4, OthersStay DEF appVars, IocRuns
    <2> QED
        BY <2>1, <2>2
<1>7. ASSUME NEW c \in Conns, OnWrite(c) PROVE LateInv'
    <2>1. Called(c) /\ Goto(c, "written", "closed") /\ Forget(c) /\ UNCHANGED appVars
        BY <1>7 DEF OnWrite
    <2>2. \A d, e \in Conns : Before(queue', d, e) => Before(queue, d, e)
        BY <1>3, <2>1
    <2>3. \A d \in Conns : conn'[d] \in {"read", "handling", "writing"} =>
              age'[d] = age[d] /\ waited'[d] = waited[d] /\ conn'[d] = conn[d]
        BY <1>1, <2>1 DEF Goto, Forget, TypeOK
    <2>4. early' \subseteq early
        BY <2>1 DEF Forget
    <2> QED
        BY <1>1, <2>1, <2>2, <2>3, <2>4, OthersStay DEF appVars, IocRuns
<1>8. ASSUME NEW k \in Loops, DoAccept(k) \/ AsyncAccept(k) \/ AcceptFails(k) PROVE LateInv'
    <2>1. UNCHANGED <<appVars, timeVars, conn>> /\ (queue' = queue \/ Enqueue(k))
        BY <1>8 DEF DoAccept, AsyncAccept, AcceptFails
    <2>2. \A d, e \in Conns : Before(queue', d, e) => Before(queue, d, e)
        BY <1>4, <2>1, Apart
    <2> QED
        BY <1>1, <2>1, <2>2, OthersStay DEF appVars, timeVars, IocRuns
<1>9. ASSUME NEW c \in Conns, OnReadEnds(c) \/ Connect(c) PROVE LateInv'
    <2>1. UNCHANGED <<appVars, timeVars, queue>>
        BY <1>9 DEF OnReadEnds, Connect
    <2>2. \A d \in Conns : conn'[d] \in {"read", "handling", "writing"} =>
              conn'[d] = conn[d] \/ (conn[d] = "handling" /\ conn'[d] = "writing")
        BY <1>1, <1>9 DEF OnReadEnds, Connect, Goto, TypeOK
    <2> QED
        BY <1>1, <2>1, <2>2, OthersStay DEF appVars, timeVars, IocRuns
<1>10. ASSUME NEW c \in Conns, KernelAccepts(c) PROVE LateInv'
    <2>1. PICK k \in Loops : Goto(c, "backlog", "accepted") /\ Enqueue(k)
        BY <1>10 DEF KernelAccepts
    <2>2. UNCHANGED <<appVars, timeVars>>
        BY <1>10 DEF KernelAccepts
    <2>3. \A d, e \in Conns : Before(queue', d, e) => Before(queue, d, e)
        BY <1>4, <2>1, Apart
    <2>4. \A d \in Conns : conn'[d] \in {"read", "handling", "writing"} => conn'[d] = conn[d]
        BY <1>1, <2>1 DEF Goto, TypeOK
    <2> QED
        BY <1>1, <2>2, <2>3, <2>4, OthersStay DEF appVars, timeVars, IocRuns
<1>11. ASSUME NEW c \in Conns, ReadEnds(c) PROVE LateInv'
    <2>1. Enqueue(c) /\ UNCHANGED <<appVars, age, waited>>
        BY <1>11 DEF ReadEnds
    <2>2. CASE Goto(c, "reading", "read")
              /\ early' = IF LeavesTimeForWaits(age[c]) THEN early \cup {c} ELSE early
        BY <1>1, <2>1, <2>2, ReadInTime
    <2>3. CASE Goto(c, "reading", "unread") /\ UNCHANGED early
        <3>1. \A d, e \in Conns : conn[e] = "read" /\ Before(queue', d, e) => Before(queue, d, e)
            BY <1>4, <2>1, <2>3 DEF Goto
        <3>2. \A d \in Conns : conn'[d] \in {"read", "handling", "writing"} => conn'[d] = conn[d]
            BY <1>1, <2>3 DEF Goto, TypeOK
        <3> QED
            BY <1>1, <2>1, <2>3, <3>1, <3>2, OthersStay DEF appVars, IocRuns
    <2> QED
        BY <1>11, <2>2, <2>3 DEF ReadEnds
<1>12. ASSUME NEW c \in Conns, WriteEnds(c) PROVE LateInv'
    <2>1. Goto(c, "writing", "written") /\ Enqueue(c) /\ UNCHANGED <<appVars, timeVars>>
        BY <1>12 DEF WriteEnds
    <2>2. \A d, e \in Conns : conn[e] = "read" /\ Before(queue', d, e) => Before(queue, d, e)
        BY <1>4, <2>1 DEF Goto
    <2>3. \A d \in Conns : conn'[d] \in {"read", "handling", "writing"} => conn'[d] = conn[d]
        BY <1>1, <2>1 DEF Goto, TypeOK
    <2> QED
        BY <1>1, <2>1, <2>2, <2>3, OthersStay DEF appVars, timeVars, IocRuns
<1>13. CASE Tick
    BY <1>1, <1>13, TickInTime
<1>14. CASE Start
    <2>1. starts' = starts + 1 /\ early' = early /\ starts \in Nat
        BY <1>1, <1>14 DEF Start, timeVars, TypeOK
    <2>2. starts' = 1 => early' = {}
        BY <1>1, <2>1 DEF NotBegun
    <2> QED
        BY <2>2 DEF LateInv
<1>15. CASE Stop \/ StopIoc \/ JoinThreads \/ UNCHANGED vars
    <2>1. UNCHANGED <<starts, queue, conn, timeVars>>
        BY <1>15 DEF Stop, StopIoc, JoinThreads, vars, appVars
    <2>2. IocRuns' => IocRuns
        BY <1>15 DEF Stop, StopIoc, JoinThreads, vars, appVars, IocRuns
    <2> QED
        BY <1>1, <2>1, <2>2, OthersStay DEF timeVars
<1>16. CASE CloseAcceptor
    <2>1. PICK aborted \in SetToSeqs({k \in Loops : loop[k] = "armed"}) :
              queue' = queue \o aborted
        BY <1>16 DEF CloseAcceptor
    <2>2. aborted \in Seq(Loops)
        BY AbortedType
    <2>3. \A d, e \in Conns : Before(queue', d, e) => Before(queue, d, e)
        BY <1>2, <2>1, <2>2, Apart, OfConcat
    <2>4. UNCHANGED <<starts, timeVars>> /\ IocRuns
        BY <1>16 DEF CloseAcceptor, IocRuns
    <2>5. \A d \in Conns : conn'[d] \in {"read", "handling", "writing"} => conn'[d] = conn[d]
        BY <1>1, <1>16 DEF CloseAcceptor, TypeOK
    <2> QED
        BY <1>1, <2>3, <2>4, <2>5, OthersStay DEF timeVars
<1> QED
    BY <1>1, <1>5, <1>6, <1>7, <1>8, <1>9, <1>10, <1>11, <1>12, <1>13, <1>14, <1>15, <1>16
       DEF Next, CallHandler, Handler, Kernel, Shutdown

\* No response is late to a request that was read early.
LEMMA StepResponse ==
    TypeOK /\ NotBegun /\ Fresh /\ LateInv /\ LateOnlyIfReadLate /\ [Next]_vars
        => LateOnlyIfReadLate'
<1>1. SUFFICES ASSUME TypeOK, NotBegun, Fresh, LateInv, LateOnlyIfReadLate, [Next]_vars,
                      starts' = 1, NEW c \in early'
               PROVE  response'[c] # "late"
    BY DEF LateOnlyIfReadLate
<1>2. ASSUME NEW b \in Conns, OnRead(b) \/ OnWrite(b) PROVE response'[c] # "late"
    <2>1. UNCHANGED starts /\ (UNCHANGED <<timeVars, response>> \/ Forget(b))
        BY <1>2 DEF OnRead, OnWrite, appVars
    <2>2. c \in early /\ response'[c] = response[c]
        BY <1>1, <2>1 DEF Forget, timeVars, TypeOK
    <2> QED
        BY <1>1, <2>1, <2>2 DEF LateOnlyIfReadLate
<1>3. ASSUME NEW b \in Conns, ReadEnds(b) PROVE response'[c] # "late"
    <2>1. /\ UNCHANGED <<starts, response>> /\ conn[b] = "reading"
          /\ early' \subseteq early \cup {b}
        BY <1>3 DEF ReadEnds, Goto, appVars
    <2>2. response[b] = "none"
        BY <1>1, <2>1 DEF Fresh
    <2> QED
        BY <1>1, <2>1, <2>2 DEF LateOnlyIfReadLate
<1>4. ASSUME NEW b \in Conns, WriteEnds(b) PROVE response'[c] # "late"
    <2>1. /\ UNCHANGED <<starts, early>> /\ conn[b] = "writing"
          /\ \E result \in {"sent", "lost"} \cup (IF age[b] = Deadline THEN {"late"} ELSE {}) :
                 response' = [response EXCEPT ![b] = result]
        BY <1>4 DEF WriteEnds, Goto, appVars, timeVars
    <2>2. CASE c = b
        <3>1. age[b] < Deadline /\ age[b] \in Nat /\ Deadline \in Nat
            BY <1>1, <2>1, <2>2, TransportAssumption DEF LateInv, TypeOK
        <3>2. age[b] # Deadline
            BY <3>1
        <3> QED
            BY <1>1, <2>1, <2>2, <3>2 DEF TypeOK
    <2>3. CASE c # b
        BY <1>1, <2>1, <2>3 DEF LateOnlyIfReadLate, TypeOK
    <2> QED
        BY <2>2, <2>3
<1>5. CASE Start
    <2>1. starts' = starts + 1 /\ early' = early /\ starts \in Nat
        BY <1>1, <1>5 DEF Start, timeVars, TypeOK
    <2> QED
        BY <1>1, <2>1 DEF NotBegun
<1>6. ASSUME UNCHANGED <<starts, early, response>> PROVE response'[c] # "late"
    BY <1>1, <1>6 DEF LateOnlyIfReadLate
<1>7. ASSUME NEW k \in Loops, OnAccept(k) \/ DoAccept(k) \/ AsyncAccept(k) \/ AcceptFails(k)
      PROVE  response'[c] # "late"
    BY <1>6, <1>7 DEF OnAccept, DoAccept, AsyncAccept, AcceptFails, appVars, timeVars
<1>8. ASSUME NEW b \in Conns, OnReadEnds(b) \/ Connect(b) \/ KernelAccepts(b)
      PROVE  response'[c] # "late"
    BY <1>6, <1>8 DEF OnReadEnds, Connect, KernelAccepts, appVars, timeVars
<1>9. CASE Tick \/ Stop \/ CloseAcceptor \/ StopIoc \/ JoinThreads \/ UNCHANGED vars
    BY <1>6, <1>9 DEF Tick, Stop, CloseAcceptor, StopIoc, JoinThreads, vars, appVars, timeVars
<1> QED
    BY <1>1, <1>2, <1>3, <1>4, <1>5, <1>7, <1>8, <1>9
       DEF Next, CallHandler, Handler, Kernel, Shutdown

\* A response misses the deadline of its session only if the client took too long to
\* send its request, for any number of connections and io threads and any timeouts
\* (expires_after in Run of HttpServer.cpp, and the waits of HandleSyncRequest).
THEOREM LateOnlyIfReadLateKept == Spec => []LateOnlyIfReadLate
<1> DEFINE Inv == TypeOK /\ QueueInv /\ NotBegun /\ Fresh /\ LateInv /\ LateOnlyIfReadLate
<1>1. Init => Inv
    <2>1. Init => LateOnlyIfReadLate
        BY DEF Init, LateOnlyIfReadLate
    <2> QED
        BY <2>1, InitType, InitQueue, InitFresh, InitLate
<1>2. Inv /\ [Next]_vars => Inv'
    BY StepType, StepQueue, StepFresh, StepLate, StepResponse
<1> QED
    BY <1>1, <1>2, PTL DEF Spec
===============================================================================
