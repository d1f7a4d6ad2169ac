-------------------------- MODULE TcpConnectionProofs --------------------------
(***************************************************************************)
(* For any connections on any IO loops, any pool tasks and queues of any   *)
(* length: a connection is up once and then down, it is destroyed when it  *)
(* is closed, and neither the functors of forceClose nor epoll, which have *)
(* bare pointers, outlast it.  And of the base loop's timers (TimerQueue). *)
(***************************************************************************)
EXTENDS TcpConnection, TimerQueue, SequenceTheorems, TLAPS

IoName == {"connectEstablished", "forceCloseInLoop", "sendInLoop", "connectDestroyed"}

\* connectEstablished is there no more than once.
Once(c, q) ==
    \A i, k \in DOMAIN q : q[i] = Functor("connectEstablished", c) /\ q[k] = q[i] => k = i

\* Each forceClose of the connection is followed by its destruction.
Trailing(c, q) ==
    \A i \in DOMAIN q : q[i] = Functor("forceCloseInLoop", c) =>
        \E k \in DOMAIN q : k > i /\ q[k] = Functor("connectDestroyed", c)
-----------------------------------------------------------------------------
(* Queues. *)

LEMMA Functors ==
    ASSUME NEW f, NEW g, NEW c, NEW d
    PROVE  Functor(f, c) = Functor(g, d) <=> f = g /\ c = d
<1>1. Functor(f, c).fn = f /\ Functor(f, c).conn = c BY DEF Functor
<1>2. Functor(g, d).fn = g /\ Functor(g, d).conn = d BY DEF Functor
<1> QED BY <1>1, <1>2

\* A functor that is queued.
LEMMA Appending ==
    ASSUME NEW S, NEW q \in Seq(S), NEW f, NEW c, Functor(f, c) \in S, NEW d
    PROVE  LET p == Append(q, Functor(f, c)) IN
           /\ p \in Seq(S)
           /\ \A g : InQueue(g, d, p) <=> InQueue(g, d, q) \/ (g = f /\ d = c)
           /\ (~(f = "connectEstablished" /\ d = c) \/ ~InQueue("connectEstablished", c, q))
                 /\ Once(d, q) => Once(d, p)
           /\ ~(f = "forceCloseInLoop" /\ d = c) /\ Trailing(d, q) => Trailing(d, p)
           /\ f = "connectDestroyed" /\ d = c => Trailing(d, p)
<1> DEFINE e == Functor(f, c)
           p == Append(q, e)
           n == Len(q)
<1>1. /\ n \in Nat /\ DOMAIN q = 1 .. n
      /\ p \in Seq(S) /\ DOMAIN p = 1 .. n + 1 /\ p[n + 1] = e
      /\ \A i \in 1 .. n : p[i] = q[i]
    BY LenProperties, AppendProperties
<1> HIDE DEF p, n
<1>2. \A i \in DOMAIN p : i \in DOMAIN q \/ i = n + 1
    BY ONLY <1>1
<1>3. /\ DOMAIN q \subseteq DOMAIN p /\ n + 1 \in DOMAIN p /\ n + 1 \notin DOMAIN q
      /\ \A i \in DOMAIN q : n + 1 > i
      /\ \A i \in DOMAIN q : p[i] = q[i]
    BY ONLY <1>1
<1>4. ASSUME NEW g PROVE InQueue(g, d, p) <=> InQueue(g, d, q) \/ (g = f /\ d = c)
    <2>1. e = Functor(g, d) <=> g = f /\ d = c BY Functors
    <2> QED BY <1>1, <1>2, <1>3, <2>1 DEF InQueue
<1>5. ASSUME Once(d, q),
             ~(f = "connectEstablished" /\ d = c) \/ ~InQueue("connectEstablished", c, q)
      PROVE  Once(d, p)
    <2> SUFFICES ASSUME NEW i \in DOMAIN p, NEW k \in DOMAIN p,
                        p[i] = Functor("connectEstablished", d), p[k] = p[i]
                 PROVE  k = i
        BY DEF Once
    <2>1. e = Functor("connectEstablished", d) => f = "connectEstablished" /\ d = c BY Functors
    <2>2. CASE i \in DOMAIN q /\ k \in DOMAIN q BY <1>3, <1>5, <2>2 DEF Once
    <2>3. CASE i = n + 1 /\ k = n + 1 BY <2>3
    <2>4. CASE i = n + 1 /\ k \in DOMAIN q
        BY <1>1, <1>3, <1>5, <2>1, <2>4 DEF InQueue
    <2>5. CASE k = n + 1 /\ i \in DOMAIN q
        BY <1>1, <1>3, <1>5, <2>1, <2>5 DEF InQueue
    <2> QED BY <1>2, <2>2, <2>3, <2>4, <2>5
<1>6. ASSUME Trailing(d, q), ~(f = "forceCloseInLoop" /\ d = c) PROVE Trailing(d, p)
    <2>1. e # Functor("forceCloseInLoop", d) BY <1>6, Functors
    <2> QED BY <1>1, <1>2, <1>3, <1>6, <2>1 DEF Trailing
<1>7. ASSUME f = "connectDestroyed", d = c PROVE Trailing(d, p)
    <2>1. e # Functor("forceCloseInLoop", d) /\ e = Functor("connectDestroyed", d)
        BY <1>7, Functors
    <2> QED BY <1>1, <1>2, <1>3, <2>1 DEF Trailing
<1> QED BY <1>1, <1>4, <1>5, <1>6, <1>7 DEF p

\* The functor at the head, when it has run.
LEMMA Taking ==
    ASSUME NEW S, NEW q \in Seq(S), q # <<>>, NEW f, NEW c, Head(q) = Functor(f, c), NEW d
    PROVE  /\ Tail(q) \in Seq(S) /\ InQueue(f, c, q)
           /\ \A g : InQueue(g, d, Tail(q)) => InQueue(g, d, q)
           /\ \A g : ~(g = f /\ d = c) /\ InQueue(g, d, q) => InQueue(g, d, Tail(q))
           /\ Once(d, q) =>
                 /\ Once(d, Tail(q))
                 /\ f = "connectEstablished" /\ d = c => ~InQueue(f, d, Tail(q))
           /\ Trailing(d, q) => Trailing(d, Tail(q))
<1> DEFINE p == Tail(q)
           n == Len(q)
<1>1. /\ n \in Nat \ {0} /\ DOMAIN q = 1 .. n
      /\ p \in Seq(S) /\ DOMAIN p = 1 .. n - 1 /\ \A i \in 1 .. n - 1 : p[i] = q[i + 1]
    BY LenProperties, EmptySeq, HeadTailProperties
<1>2. q[1] = Functor(f, c) OBVIOUS
<1> HIDE DEF p, n
<1>3. /\ 1 \in DOMAIN q
      /\ \A i \in DOMAIN p : i + 1 \in DOMAIN q /\ i + 1 # 1 /\ p[i] = q[i + 1]
      /\ \A i \in DOMAIN q : i # 1 => i - 1 \in DOMAIN p /\ p[i - 1] = q[i]
    <2>1. ASSUME NEW i \in DOMAIN q, i # 1 PROVE i - 1 \in DOMAIN p /\ p[i - 1] = q[i]
        <3>1. i - 1 \in 1 .. n - 1 /\ (i - 1) + 1 = i BY ONLY <1>1, <2>1
        <3> QED BY <1>1, <3>1
    <2> QED BY <1>1, <2>1
<1>4. \A i, k \in DOMAIN p : i + 1 = k + 1 => i = k BY ONLY <1>1
<1>5. \A i \in DOMAIN p, k \in DOMAIN q : k > i + 1 => k # 1 /\ k - 1 > i BY ONLY <1>1
<1>6. InQueue(f, c, q) BY <1>2, <1>3 DEF InQueue
<1>7. ASSUME NEW g, InQueue(g, d, p) PROVE InQueue(g, d, q) BY <1>3, <1>7 DEF InQueue
<1>8. ASSUME NEW g, ~(g = f /\ d = c), InQueue(g, d, q) PROVE InQueue(g, d, p)
    <2>1. PICK i \in DOMAIN q : q[i] = Functor(g, d) BY <1>8 DEF InQueue
    <2>2. i # 1 BY <1>2, <1>8, <2>1, Functors
    <2> QED BY <1>3, <2>1, <2>2 DEF InQueue
<1>9. ASSUME Once(d, q)
      PROVE  Once(d, p) /\ (f = "connectEstablished" /\ d = c => ~InQueue(f, d, p))
    <2>1. Once(d, p) BY <1>3, <1>4, <1>9 DEF Once
    <2>2. ASSUME f = "connectEstablished", d = c, InQueue(f, d, p) PROVE FALSE
        <3>1. PICK i \in DOMAIN p : p[i] = Functor(f, d) BY <2>2 DEF InQueue
        <3>2. i + 1 \in DOMAIN q /\ i + 1 # 1 /\ q[i + 1] = q[1] BY <1>2, <1>3, <2>2, <3>1
        <3> QED BY <1>2, <1>3, <1>9, <2>2, <3>2 DEF Once
    <2> QED BY <2>1, <2>2
<1>10. ASSUME Trailing(d, q) PROVE Trailing(d, p)
    <2> SUFFICES ASSUME NEW i \in DOMAIN p, p[i] = Functor("forceCloseInLoop", d)
                 PROVE  \E k \in DOMAIN p : k > i /\ p[k] = Functor("connectDestroyed", d)
        BY DEF Trailing
    <2>1. PICK k \in DOMAIN q : k > i + 1 /\ q[k] = Functor("connectDestroyed", d)
        BY <1>3, <1>10 DEF Trailing
    <2> QED BY <1>3, <1>5, <2>1
<1> QED BY <1>1, <1>6, <1>7, <1>8, <1>9, <1>10 DEF p

\* The same of an IO loop's queue.
LEMMA Queued ==
    ASSUME TypeOK, NEW c \in Conn, NEW f \in IoName, QueueInIoLoop(c, f), NEW d \in Conn
    PROVE  LET q == ioQ[LoopOf[d]]
               p == ioQ'[LoopOf[d]] IN
           /\ ioQ' \in [IoLoop -> Seq(IoFunctors)]
           /\ \A g : InQueue(g, d, p) <=> InQueue(g, d, q) \/ (g = f /\ d = c)
           /\ (~(f = "connectEstablished" /\ d = c) \/ ~InQueue("connectEstablished", c, q))
                 /\ Once(d, q) => Once(d, p)
           /\ ~(f = "forceCloseInLoop" /\ d = c) /\ Trailing(d, q) => Trailing(d, p)
           /\ f = "connectDestroyed" /\ d = c => Trailing(d, p)
<1>1. /\ LoopOf[c] \in IoLoop /\ LoopOf[d] \in IoLoop
      /\ ioQ \in [IoLoop -> Seq(IoFunctors)] /\ Functor(f, c) \in IoFunctors
    BY LoopAssumption DEF TypeOK, Functor, IoFunctors, IoName
<1>2. LET p == Append(ioQ[LoopOf[c]], Functor(f, c)) IN
      /\ p \in Seq(IoFunctors)
      /\ \A g : InQueue(g, d, p) <=> InQueue(g, d, ioQ[LoopOf[c]]) \/ (g = f /\ d = c)
      /\ (~(f = "connectEstablished" /\ d = c)
              \/ ~InQueue("connectEstablished", c, ioQ[LoopOf[c]]))
            /\ Once(d, ioQ[LoopOf[c]]) => Once(d, p)
      /\ ~(f = "forceCloseInLoop" /\ d = c) /\ Trailing(d, ioQ[LoopOf[c]]) => Trailing(d, p)
      /\ f = "connectDestroyed" /\ d = c => Trailing(d, p)
    <2>1. ioQ[LoopOf[c]] \in Seq(IoFunctors) BY <1>1
    <2> QED BY ONLY <1>1, <2>1, Appending
<1>3. ioQ' = [ioQ EXCEPT ![LoopOf[c]] = Append(ioQ[LoopOf[c]], Functor(f, c))]
    BY DEF QueueInIoLoop
<1>4. ioQ' \in [IoLoop -> Seq(IoFunctors)] BY ONLY <1>1, <1>2, <1>3
<1>5. CASE LoopOf[d] = LoopOf[c]
    <2>1. ioQ'[LoopOf[d]] = Append(ioQ[LoopOf[d]], Functor(f, c)) BY ONLY <1>1, <1>3, <1>5
    <2> QED BY ONLY <1>2, <1>4, <1>5, <2>1
<1>6. CASE LoopOf[d] # LoopOf[c]
    <2>1. ioQ'[LoopOf[d]] = ioQ[LoopOf[d]] /\ d # c BY ONLY <1>1, <1>3, <1>6
    <2> QED BY ONLY <1>4, <2>1
<1> QED BY <1>5, <1>6

LEMMA Dequeued ==
    ASSUME TypeOK, NEW c \in Conn, NEW f, Running(f, c), Dequeue(c), NEW d \in Conn
    PROVE  LET q == ioQ[LoopOf[d]]
               p == ioQ'[LoopOf[d]] IN
           /\ ioQ' \in [IoLoop -> Seq(IoFunctors)] /\ InQueue(f, c, ioQ[LoopOf[c]])
           /\ \A g : InQueue(g, d, p) => InQueue(g, d, q)
           /\ \A g : ~(g = f /\ d = c) /\ InQueue(g, d, q) => InQueue(g, d, p)
           /\ Once(d, q) =>
                 /\ Once(d, p)
                 /\ f = "connectEstablished" /\ d = c => ~InQueue(f, d, p)
           /\ Trailing(d, q) => Trailing(d, p)
<1>1. /\ LoopOf[c] \in IoLoop /\ LoopOf[d] \in IoLoop
      /\ ioQ \in [IoLoop -> Seq(IoFunctors)]
    BY LoopAssumption DEF TypeOK
<1>2. LET q == ioQ[LoopOf[c]]
          p == Tail(q) IN
      /\ p \in Seq(IoFunctors) /\ InQueue(f, c, q)
      /\ \A g : InQueue(g, d, p) => InQueue(g, d, q)
      /\ \A g : ~(g = f /\ d = c) /\ InQueue(g, d, q) => InQueue(g, d, p)
      /\ Once(d, q) =>
            /\ Once(d, p)
            /\ f = "connectEstablished" /\ d = c => ~InQueue(f, d, p)
      /\ Trailing(d, q) => Trailing(d, p)
    <2>1. /\ ioQ[LoopOf[c]] \in Seq(IoFunctors) /\ ioQ[LoopOf[c]] # <<>>
          /\ Head(ioQ[LoopOf[c]]) = Functor(f, c)
        BY <1>1 DEF Running
    <2> QED BY ONLY <2>1, Taking
<1>3. ioQ' = [ioQ EXCEPT ![LoopOf[c]] = Tail(ioQ[LoopOf[c]])] BY DEF Dequeue
<1>4. ioQ' \in [IoLoop -> Seq(IoFunctors)] BY ONLY <1>1, <1>2, <1>3
<1>5. CASE LoopOf[d] = LoopOf[c]
    <2>1. ioQ'[LoopOf[d]] = Tail(ioQ[LoopOf[d]]) BY ONLY <1>1, <1>3, <1>5
    <2> QED BY ONLY <1>2, <1>4, <1>5, <2>1
<1>6. CASE LoopOf[d] # LoopOf[c]
    <2>1. ioQ'[LoopOf[d]] = ioQ[LoopOf[d]] /\ d # c BY ONLY <1>1, <1>3, <1>6
    <2> QED BY ONLY <1>2, <1>4, <2>1
<1> QED BY <1>5, <1>6

\* The queue of the base loop.
LEMMA RemovalQueued ==
    ASSUME TypeOK, NEW c \in Conn, RemoveConnection(c), NEW d \in Conn
    PROVE  /\ baseQ' \in Seq(BaseFunctors)
           /\ InQueue("removeConnectionInLoop", d, baseQ')
                 <=> InQueue("removeConnectionInLoop", d, baseQ) \/ d = c
<1>1. baseQ \in Seq(BaseFunctors) /\ Functor("removeConnectionInLoop", c) \in BaseFunctors
    BY DEF TypeOK, Functor, BaseFunctors
<1>2. baseQ' = Append(baseQ, Functor("removeConnectionInLoop", c)) BY DEF RemoveConnection
<1> QED BY ONLY <1>1, <1>2, Appending

LEMMA RemovalTaken ==
    ASSUME TypeOK, NEW c \in Conn, RemoveConnectionInLoop(c), NEW d \in Conn
    PROVE  /\ baseQ' \in Seq(BaseFunctors)
           /\ InQueue("removeConnectionInLoop", c, baseQ)
           /\ InQueue("removeConnectionInLoop", d, baseQ') =>
                 InQueue("removeConnectionInLoop", d, baseQ)
           /\ d # c /\ InQueue("removeConnectionInLoop", d, baseQ) =>
                 InQueue("removeConnectionInLoop", d, baseQ')
<1>1. /\ baseQ \in Seq(BaseFunctors) /\ baseQ # <<>>
      /\ Head(baseQ) = Functor("removeConnectionInLoop", c)
      /\ baseQ' = Tail(baseQ)
    BY DEF TypeOK, RemoveConnectionInLoop
<1> QED BY ONLY <1>1, Taking
-----------------------------------------------------------------------------
(* Types. *)

LEMMA EventsType ==
    ASSUME TypeOK, NEW c \in Conn, NEW ev \in SUBSET {"read", "write"}, SetEvents(c, ev)
    PROVE  /\ index' \in [Conn -> {"kNew", "kAdded", "kDelete"}]
           /\ events' \in [Conn -> SUBSET {"read", "write"}]
BY DEF TypeOK, SetEvents

LEMMA ForceCloseType ==
    ASSUME TypeOK, NEW c \in Conn, ForceClose(c)
    PROVE  /\ state' \in [Conn -> {"none", "kConnecting", "kConnected", "kDisconnecting",
                                   "kDisconnected"}]
           /\ ioQ' \in [IoLoop -> Seq(IoFunctors)]
<1>1. CASE state[c] \in {"kConnected", "kDisconnecting"}
    <2>1. QueueInIoLoop(c, "forceCloseInLoop") BY <1>1 DEF ForceClose
    <2>2. ioQ' \in [IoLoop -> Seq(IoFunctors)] BY <2>1, Queued DEF IoName
    <2> QED BY <1>1, <2>2 DEF ForceClose, TypeOK
<1>2. CASE state[c] \notin {"kConnected", "kDisconnecting"} BY <1>2 DEF ForceClose, TypeOK
<1> QED BY <1>1, <1>2

LEMMA TypeStep == TypeOK /\ [Next]_vars => TypeOK'
<1> SUFFICES ASSUME TypeOK, [Next]_vars PROVE TypeOK' OBVIOUS
<1> USE DEF chanVars, sockVars, hbVars
<1>1. ASSUME NEW c \in Conn, RemoveConnectionInLoop(c) PROVE TypeOK'
    <2>1. QueueInIoLoop(c, "connectDestroyed") BY <1>1 DEF RemoveConnectionInLoop
    <2>2. ioQ' \in [IoLoop -> Seq(IoFunctors)] BY <2>1, Queued DEF IoName
    <2>3. baseQ' \in Seq(BaseFunctors) BY <1>1, RemovalTaken
    <2> QED BY <1>1, <2>2, <2>3 DEF RemoveConnectionInLoop, BaseLoopFree, TypeOK
<1>2. ASSUME HeartBeatCheck PROVE TypeOK'
    BY <1>2 DEF HeartBeatCheck, TypeOK
<1>3. ASSUME NEW c \in Conn, NewConnection(c) PROVE TypeOK'
    <2>1. QueueInIoLoop(c, "connectEstablished") BY <1>3 DEF NewConnection
    <2>2. ioQ' \in [IoLoop -> Seq(IoFunctors)] BY <2>1, Queued DEF IoName
    <2> QED BY <1>3, <2>2 DEF NewConnection, TypeOK
<1>4. ASSUME NEW c \in Conn, HeartBeatVisit(c) PROVE TypeOK'
    <2>1. CASE ~context[c] BY <1>4, <2>1 DEF HeartBeatVisit, TypeOK
    <2>2. CASE context[c] /\ stale[c]
        <3>1. ForceClose(c) BY <1>4, <2>2 DEF HeartBeatVisit
        <3> QED BY <1>4, <2>2, <3>1, ForceCloseType DEF HeartBeatVisit, TypeOK
    <2>3. CASE context[c] /\ ~stale[c] BY <1>4, <2>3 DEF HeartBeatVisit, TypeOK
    <2> QED BY <2>1, <2>2, <2>3
<1>5. ASSUME NEW c \in Conn, ConnectEstablished(c) PROVE TypeOK'
    <2>1. ioQ' \in [IoLoop -> Seq(IoFunctors)] BY <1>5, Dequeued DEF ConnectEstablished
    <2>2. events[c] \cup {"read"} \in SUBSET {"read", "write"} BY DEF TypeOK
    <2> QED BY <1>5, <2>1, <2>2, EventsType DEF ConnectEstablished, TypeOK
<1>6. ASSUME NEW c \in Conn, ForceCloseInLoop(c) PROVE TypeOK'
    <2>1. ioQ' \in [IoLoop -> Seq(IoFunctors)] BY <1>6, Dequeued DEF ForceCloseInLoop
    <2>2. CASE state[c] \in {"kConnected", "kDisconnecting"}
        <3>1. SetEvents(c, {}) /\ RemoveConnection(c)
            BY <1>6, <2>2 DEF ForceCloseInLoop, HandleClose
        <3>2. baseQ' \in Seq(BaseFunctors) BY <3>1, RemovalQueued
        <3> QED BY <1>6, <2>1, <2>2, <3>1, <3>2, EventsType DEF ForceCloseInLoop, TypeOK
    <2>3. CASE state[c] \notin {"kConnected", "kDisconnecting"}
        BY <1>6, <2>1, <2>3 DEF ForceCloseInLoop, TypeOK
    <2> QED BY <2>2, <2>3
<1>7. ASSUME NEW c \in Conn, ConnectDestroyed(c) PROVE TypeOK'
    <2>1. ioQ' \in [IoLoop -> Seq(IoFunctors)] BY <1>7, Dequeued DEF ConnectDestroyed
    <2> QED BY <1>7, <2>1 DEF ConnectDestroyed, TypeOK
<1>8. ASSUME NEW c \in Conn, SendInLoop(c) PROVE TypeOK'
    <2>1. ioQ' \in [IoLoop -> Seq(IoFunctors)] BY <1>8, Dequeued DEF SendInLoop
    <2>2. events[c] \cup {"write"} \in SUBSET {"read", "write"} BY DEF TypeOK
    <2>3. /\ UNCHANGED <<state, shutWrite, context, stale, sweep, connections, baseQ, job,
                         peer, reported>>
          /\ crashed' \in BOOLEAN /\ lateSend' \in [Conn -> BOOLEAN]
          /\ outputBuffer' \in [Conn -> BOOLEAN]
        <3> HIDE DEF Alive
        <3>1. lateSend' = lateSend \/ lateSend' = [lateSend EXCEPT ![c] = @ \/ state[c] = "kDisconnected"]
            BY <1>8 DEF SendInLoop
        <3>2. lateSend' \in [Conn -> BOOLEAN] BY <3>1 DEF TypeOK
        <3> QED BY <1>8, <3>2 DEF SendInLoop, TypeOK
    <2>4. UNCHANGED <<index, events>> \/ SetEvents(c, events[c] \cup {"write"})
        BY <1>8 DEF SendInLoop
    <2>5. /\ index' \in [Conn -> {"kNew", "kAdded", "kDelete"}]
          /\ events' \in [Conn -> SUBSET {"read", "write"}]
        BY <2>2, <2>4, EventsType DEF TypeOK
    <2> QED BY <2>1, <2>3, <2>5 DEF TypeOK
<1>9. ASSUME NEW c \in Conn, CloseEvent(c) PROVE TypeOK'
    <2>1. SetEvents(c, {}) /\ RemoveConnection(c) BY <1>9 DEF CloseEvent, HandleClose
    <2>2. baseQ' \in Seq(BaseFunctors) BY <2>1, RemovalQueued
    <2> QED BY <1>9, <2>1, <2>2, EventsType DEF CloseEvent, TypeOK
<1>10. ASSUME NEW c \in Conn, HeartBeatMessage(c) PROVE TypeOK'
    BY <1>10 DEF HeartBeatMessage, TypeOK
<1>11. ASSUME NEW c \in Conn, NEW j \in Job, Message(c, j) PROVE TypeOK'
    BY <1>11 DEF Message, TypeOK
<1>12. ASSUME NEW c \in Conn, HandleWrite(c) PROVE TypeOK'
    <2>1. events[c] \ {"write"} \in SUBSET {"read", "write"} BY DEF TypeOK
    <2> QED BY <1>12, <2>1, EventsType DEF HandleWrite, TypeOK
<1>13. ASSUME NEW j \in Job, SendTest(j) PROVE TypeOK'
    <2>1. job[j] \in [at : {"queued", "tested"}, conn : Conn]
        BY <1>13 DEF SendTest, TypeOK, NoJob
    <2>2. [job[j] EXCEPT !.at = "tested"] \in [at : {"queued", "tested"}, conn : Conn]
        BY <2>1
    <2> QED BY <1>13, <2>2 DEF SendTest, TypeOK
<1>14. ASSUME NEW j \in Job, SendQueue(j) PROVE TypeOK'
    <2>1. job[j].conn \in Conn BY <1>14 DEF SendQueue, TypeOK, NoJob
    <2>2. ioQ' \in [IoLoop -> Seq(IoFunctors)] BY <1>14, <2>1, Queued DEF SendQueue, IoName
    <2> QED BY <1>14, <2>2 DEF SendQueue, TypeOK
<1>15. ASSUME NEW c \in Conn, NEW how \in {"fin", "gone"}, PeerLeaves(c, how) PROVE TypeOK'
    BY <1>15 DEF PeerLeaves, TypeOK
<1>16. ASSUME NEW c \in Conn, GoStale(c) PROVE TypeOK'
    BY <1>16 DEF GoStale, TypeOK
<1>17. CASE UNCHANGED vars BY <1>17 DEF vars, TypeOK
<1> QED
    BY <1>1, <1>2, <1>3, <1>4, <1>5, <1>6, <1>7, <1>8, <1>9, <1>10, <1>11, <1>12, <1>13,
       <1>14, <1>15, <1>16, <1>17
       DEF Next, BaseFunctor, IoFunctor, JobStep
-----------------------------------------------------------------------------
(* The life of one connection. *)

HasTask(c) == \E j \in Job : job[j].at # "idle" /\ job[j].conn = c

\* What the invariants say of one connection.
ConnInv(c) ==
    LET q == ioQ[LoopOf[c]] IN
    /\ InQueue("connectEstablished", c, q) => state[c] = "kConnecting"
    /\ Once(c, q)
    /\ ~Begun(c) =>
          /\ index[c] = "kNew" /\ ~HasTask(c)
          /\ ~InQueue("removeConnectionInLoop", c, baseQ) /\ ~InQueue("connectDestroyed", c, q)
          /\ ~InQueue("forceCloseInLoop", c, q) /\ ~InQueue("sendInLoop", c, q)
    /\ \/ state[c] \notin {"kConnecting", "kConnected", "kDisconnecting"}
       \/ c \in connections \/ Closing(c)
    /\ reported[c] = "new" <=> ~Begun(c)
    /\ reported[c] = "down" <=> state[c] = "kDisconnected"
    /\ index[c] # "kAdded" \/ lateSend[c] \/ c \in connections \/ Closing(c)
    /\ \/ state[c] \notin {"kConnected", "kDisconnecting"}
       \/ "read" \in events[c] \/ Closing(c)
    /\ \/ c \in connections \/ InQueue("removeConnectionInLoop", c, baseQ)
       \/ Trailing(c, q)

LifeInv == \A c \in Conn : ConnInv(c)

LEMMA LifeSuffices ==
    ASSUME TypeOK, LifeInv
    PROVE  TcpInv /\ ForceCloseOutlived /\ RegisteredIsOwned /\ DeafIsClosing
<1>1. Established BY DEF LifeInv, ConnInv, Established, InQueue, Once
<1>2. NothingBefore
    BY DEF LifeInv, ConnInv, NothingBefore, Closing, HasTask
<1>3. Held BY DEF LifeInv, ConnInv, Held
<1>4. Reported BY DEF LifeInv, ConnInv, Reported
<1>5. ForceCloseOutlived BY DEF LifeInv, ConnInv, ForceCloseOutlived, Trailing
<1>6. RegisteredIsOwned BY DEF LifeInv, ConnInv, RegisteredIsOwned
<1>7. DeafIsClosing BY DEF LifeInv, ConnInv, DeafIsClosing
<1> QED BY <1>1, <1>2, <1>3, <1>4, <1>5, <1>6, <1>7 DEF TcpInv

\* No functor of d has come or gone.
QueuesKept(d) ==
    LET q == ioQ[LoopOf[d]]
        p == ioQ'[LoopOf[d]] IN
    /\ \A f \in IoName : InQueue(f, d, p) <=> InQueue(f, d, q)
    /\ InQueue("removeConnectionInLoop", d, baseQ') <=> InQueue("removeConnectionInLoop", d, baseQ)
    /\ Once(d, q) => Once(d, p)
    /\ Trailing(d, q) => Trailing(d, p)

\* A step that leaves a connection alone.
LeftAlone(d) ==
    /\ state'[d] = state[d] /\ index'[d] = index[d] /\ events'[d] = events[d]
    /\ reported'[d] = reported[d] /\ lateSend'[d] = lateSend[d]
    /\ d \in connections' <=> d \in connections
    /\ HasTask(d)' => HasTask(d)
    /\ QueuesKept(d)

LEMMA Apart == ASSUME NEW d \in Conn, ConnInv(d), LeftAlone(d) PROVE ConnInv(d)'
BY DEF ConnInv, LeftAlone, QueuesKept, IoName, Begun, Closing

LEMMA SameTasks == ASSUME UNCHANGED job, NEW d \in Conn PROVE HasTask(d)' => HasTask(d)
BY DEF HasTask

\* A step that touches no queue, or the queue of an IO loop for another connection.
LEMMA NoQueue ==
    ASSUME UNCHANGED <<ioQ, baseQ>>, NEW d \in Conn PROVE QueuesKept(d)
BY DEF QueuesKept

LEMMA Initially == Init => TypeOK /\ LifeInv
<1> SUFFICES ASSUME Init PROVE TypeOK /\ LifeInv OBVIOUS
<1>1. TypeOK
    <2>1. <<>> \in Seq(BaseFunctors) /\ <<>> \in Seq(IoFunctors) BY EmptySeq
    <2> QED BY <2>1 DEF Init, TypeOK
<1>2. ASSUME NEW c \in Conn PROVE ConnInv(c)
    <2>1. ioQ[LoopOf[c]] = <<>> /\ baseQ = <<>> BY LoopAssumption DEF Init
    <2>2. DOMAIN <<>> = {} OBVIOUS
    <2>3. \A f : ~InQueue(f, c, <<>>) BY <2>2 DEF InQueue
    <2>4. Once(c, <<>>) /\ Trailing(c, <<>>) BY <2>2 DEF Once, Trailing
    <2>5. ~HasTask(c) BY DEF Init, HasTask, NoJob
    <2> QED BY <2>1, <2>3, <2>4, <2>5 DEF Init, ConnInv, Begun, Closing
<1> QED BY <1>1, <1>2 DEF LifeInv

LEMMA NewConnectionKeeps ==
    ASSUME TypeOK, LifeInv, NEW c \in Conn, NewConnection(c), NEW d \in Conn
    PROVE  ConnInv(d)'
<1>1. /\ QueueInIoLoop(c, "connectEstablished") /\ state[c] = "none"
      /\ state' = [state EXCEPT ![c] = "kConnecting"] /\ connections' = connections \cup {c}
      /\ UNCHANGED <<index, events, reported, lateSend, job, baseQ>>
    BY DEF NewConnection, chanVars
<1>2. ConnInv(d) /\ ConnInv(c) BY DEF LifeInv
<1>3. HasTask(d)' => HasTask(d) BY <1>1, SameTasks
<1>4. LET q == ioQ[LoopOf[d]]
          p == ioQ'[LoopOf[d]] IN
      /\ \A g : InQueue(g, d, p) <=> InQueue(g, d, q) \/ (g = "connectEstablished" /\ d = c)
      /\ (d # c \/ ~InQueue("connectEstablished", c, q)) /\ Once(d, q) => Once(d, p)
      /\ Trailing(d, q) => Trailing(d, p)
    BY <1>1, Queued DEF IoName
<1>5. CASE d # c
    <2>1. QueuesKept(d) BY <1>1, <1>4, <1>5 DEF QueuesKept
    <2> QED BY <1>1, <1>2, <1>3, <1>5, <2>1, Apart DEF LeftAlone, TypeOK
<1>6. CASE d = c
    <2>1. ~Begun(c) /\ ~Begun(c)' /\ state'[c] = "kConnecting" BY <1>1 DEF Begun, TypeOK
    <2>2. ~InQueue("connectEstablished", c, ioQ[LoopOf[c]]) BY <1>1, <1>2 DEF ConnInv
    <2> QED BY <1>1, <1>2, <1>3, <1>4, <1>6, <2>1, <2>2 DEF ConnInv
<1> QED BY <1>5, <1>6

LEMMA RemovalKeeps ==
    ASSUME TypeOK, LifeInv, NEW c \in Conn, RemoveConnectionInLoop(c), NEW d \in Conn
    PROVE  ConnInv(d)'
<1>1. /\ QueueInIoLoop(c, "connectDestroyed") /\ connections' = connections \ {c}
      /\ UNCHANGED <<state, index, events, reported, lateSend, job>>
    BY DEF RemoveConnectionInLoop, chanVars
<1>2. ConnInv(d) BY DEF LifeInv
<1>3. HasTask(d)' => HasTask(d) BY <1>1, SameTasks
<1>4. LET q == ioQ[LoopOf[d]]
          p == ioQ'[LoopOf[d]] IN
      /\ \A g : InQueue(g, d, p) <=> InQueue(g, d, q) \/ (g = "connectDestroyed" /\ d = c)
      /\ Once(d, q) => Once(d, p)
      /\ Trailing(d, q) => Trailing(d, p)
      /\ d = c => Trailing(d, p)
    BY <1>1, Queued DEF IoName
<1>5. /\ InQueue("removeConnectionInLoop", c, baseQ)
      /\ InQueue("removeConnectionInLoop", d, baseQ') =>
            InQueue("removeConnectionInLoop", d, baseQ)
      /\ d # c /\ InQueue("removeConnectionInLoop", d, baseQ) =>
            InQueue("removeConnectionInLoop", d, baseQ')
    BY RemovalTaken
<1>6. CASE d # c
    <2>1. QueuesKept(d) BY <1>4, <1>5, <1>6 DEF QueuesKept
    <2> QED BY <1>1, <1>2, <1>3, <1>6, <2>1, Apart DEF LeftAlone
<1>7. CASE d = c
    <2>1. Begun(c) /\ Begun(c)' BY <1>1, <1>2, <1>5, <1>7 DEF ConnInv, Begun
    <2>2. Closing(c)' BY <1>4, <1>7 DEF Closing
    <2> QED BY <1>1, <1>2, <1>4, <1>7, <2>1, <2>2 DEF ConnInv
<1> QED BY <1>6, <1>7

\* forceClose changes state_ in the one way and queues its functor.
LEMMA VisitKeeps ==
    ASSUME TypeOK, LifeInv, NEW c \in Conn, HeartBeatVisit(c), NEW d \in Conn
    PROVE  ConnInv(d)'
<1>1. UNCHANGED <<index, events, reported, lateSend, job, connections, baseQ>>
    BY DEF HeartBeatVisit, chanVars
<1>2. ConnInv(d) BY DEF LifeInv
<1>3. HasTask(d)' => HasTask(d) BY <1>1, SameTasks
<1>4. CASE UNCHANGED <<state, ioQ>>
    BY <1>1, <1>2, <1>3, <1>4, NoQueue, Apart DEF LeftAlone
<1>5. CASE ~UNCHANGED <<state, ioQ>>
    <2>1. /\ c \in connections /\ state[c] \in {"kConnected", "kDisconnecting"}
          /\ state' = [state EXCEPT ![c] = "kDisconnecting"]
          /\ QueueInIoLoop(c, "forceCloseInLoop")
        BY <1>5 DEF HeartBeatVisit, ForceClose, TypeOK
    <2>2. LET q == ioQ[LoopOf[d]]
              p == ioQ'[LoopOf[d]] IN
          /\ \A g : InQueue(g, d, p) <=> InQueue(g, d, q) \/ (g = "forceCloseInLoop" /\ d = c)
          /\ Once(d, q) => Once(d, p)
          /\ d # c /\ Trailing(d, q) => Trailing(d, p)
        BY <2>1, Queued DEF IoName
    <2>3. CASE d # c
        <3>1. QueuesKept(d) BY <1>1, <2>2, <2>3 DEF QueuesKept
        <3> QED BY <1>1, <1>2, <1>3, <2>1, <2>3, <3>1, Apart DEF LeftAlone, TypeOK
    <2>4. CASE d = c
        <3>1. Begun(c) /\ Begun(c)' /\ state'[c] = "kDisconnecting"
            BY <2>1 DEF Begun, TypeOK
        <3>2. Closing(c) => Closing(c)' BY <1>1, <2>2, <2>4 DEF Closing
        <3> QED BY <1>1, <1>2, <2>1, <2>2, <2>4, <3>1, <3>2 DEF ConnInv
    <2> QED BY <2>3, <2>4
<1> QED BY <1>4, <1>5

\* A functor that runs on the IO loop.
LEMMA TakenOf ==
    ASSUME TypeOK, NEW c \in Conn, NEW f \in IoName, Running(f, c), Dequeue(c),
           UNCHANGED baseQ, NEW d \in Conn, d # c
    PROVE  QueuesKept(d)
<1>1. LET q == ioQ[LoopOf[d]]
          p == ioQ'[LoopOf[d]] IN
      /\ \A g : InQueue(g, d, p) => InQueue(g, d, q)
      /\ \A g : d # c /\ InQueue(g, d, q) => InQueue(g, d, p)
      /\ Once(d, q) => Once(d, p)
      /\ Trailing(d, q) => Trailing(d, p)
    BY Dequeued
<1> QED BY <1>1 DEF QueuesKept

LEMMA EstablishedKeeps ==
    ASSUME TypeOK, LifeInv, NEW c \in Conn, ConnectEstablished(c), NEW d \in Conn
    PROVE  ConnInv(d)'
<1>1. /\ Running("connectEstablished", c) /\ Dequeue(c)
      /\ state' = [state EXCEPT ![c] = "kConnected"]
      /\ SetEvents(c, events[c] \cup {"read"})
      /\ reported' = [reported EXCEPT ![c] = "up"]
      /\ UNCHANGED <<connections, lateSend, job, baseQ>>
    BY DEF ConnectEstablished
<1>2. ConnInv(d) BY DEF LifeInv
<1>3. HasTask(d)' => HasTask(d) BY <1>1, SameTasks
<1>4. CASE d # c
    <2>1. QueuesKept(d) BY <1>1, <1>4, TakenOf DEF IoName
    <2>2. index'[d] = index[d] /\ events'[d] = events[d]
        BY <1>1, <1>4 DEF SetEvents, TypeOK
    <2> QED BY <1>1, <1>2, <1>3, <1>4, <2>1, <2>2, Apart DEF LeftAlone, TypeOK
<1>5. CASE d = c
    <2>1. LET q == ioQ[LoopOf[c]]
              p == ioQ'[LoopOf[c]] IN
          /\ InQueue("connectEstablished", c, q) /\ ~InQueue("connectEstablished", c, p)
          /\ \A g : InQueue(g, c, p) => InQueue(g, c, q)
          /\ \A g : g # "connectEstablished" /\ InQueue(g, c, q) => InQueue(g, c, p)
          /\ Once(c, p)
          /\ Trailing(c, q) => Trailing(c, p)
        BY <1>1, <1>2, <1>5, Dequeued DEF ConnInv
    <2>2. /\ state[c] = "kConnecting" /\ state'[c] = "kConnected" /\ reported'[c] = "up"
          /\ "read" \in events'[c]
        BY <1>1, <1>2, <1>5, <2>1 DEF ConnInv, SetEvents, TypeOK
    <2>3. Begun(c)' /\ (Closing(c) => Closing(c)')
        BY <1>1, <2>1, <2>2 DEF Begun, Closing
    <2> QED BY <1>1, <1>2, <1>5, <2>1, <2>2, <2>3 DEF ConnInv
<1> QED BY <1>4, <1>5

LEMMA DestroyedKeeps ==
    ASSUME TypeOK, LifeInv, NEW c \in Conn, ConnectDestroyed(c), NEW d \in Conn
    PROVE  ConnInv(d)'
<1>1. /\ Running("connectDestroyed", c) /\ Dequeue(c)
      /\ state' = [state EXCEPT ![c] = "kDisconnected"]
      /\ events' = [events EXCEPT ![c] = {}]
      /\ index' = [index EXCEPT ![c] = "kNew"]
      /\ reported' = [reported EXCEPT ![c] = "down"]
      /\ UNCHANGED <<connections, lateSend, job, baseQ>>
    BY DEF ConnectDestroyed
<1>2. ConnInv(d) BY DEF LifeInv
<1>3. HasTask(d)' => HasTask(d) BY <1>1, SameTasks
<1>4. CASE d # c
    <2>1. QueuesKept(d) BY <1>1, <1>4, TakenOf DEF IoName
    <2> QED BY <1>1, <1>2, <1>3, <1>4, <2>1, Apart DEF LeftAlone, TypeOK
<1>5. CASE d = c
    <2>1. LET q == ioQ[LoopOf[c]]
              p == ioQ'[LoopOf[c]] IN
          /\ InQueue("connectDestroyed", c, q)
          /\ \A g : InQueue(g, c, p) => InQueue(g, c, q)
          /\ Once(c, p)
          /\ Trailing(c, q) => Trailing(c, p)
        BY <1>1, <1>2, <1>5, Dequeued DEF ConnInv
    <2>2. /\ Begun(c) /\ Begun(c)' /\ state'[c] = "kDisconnected" /\ reported'[c] = "down"
          /\ index'[c] = "kNew"
        BY <1>1, <1>2, <1>5, <2>1 DEF ConnInv, Begun, TypeOK
    <2>3. ~InQueue("connectEstablished", c, ioQ'[LoopOf[c]])
        BY <1>2, <1>5, <2>1, <2>2 DEF ConnInv, Begun
    <2> QED BY <1>1, <1>2, <1>5, <2>1, <2>2, <2>3 DEF ConnInv
<1> QED BY <1>4, <1>5

\* A connection that is closed: handleClose of c, after the functor at the head or without one.
LEMMA ClosedKeeps ==
    ASSUME TypeOK, LifeInv, NEW c \in Conn, NEW d \in Conn,
           Begun(c), SetEvents(c, {}), RemoveConnection(c),
           UNCHANGED <<state, reported, lateSend, job, connections>>,
           \A g : InQueue(g, d, ioQ'[LoopOf[d]]) => InQueue(g, d, ioQ[LoopOf[d]]),
           d # c => \A g : InQueue(g, d, ioQ[LoopOf[d]]) => InQueue(g, d, ioQ'[LoopOf[d]]),
           Once(d, ioQ[LoopOf[d]]) => Once(d, ioQ'[LoopOf[d]]),
           Trailing(d, ioQ[LoopOf[d]]) => Trailing(d, ioQ'[LoopOf[d]])
    PROVE  ConnInv(d)'
<1>1. ConnInv(d) BY DEF LifeInv
<1>2. HasTask(d)' => HasTask(d) BY SameTasks
<1>3. InQueue("removeConnectionInLoop", d, baseQ')
          <=> InQueue("removeConnectionInLoop", d, baseQ) \/ d = c
    BY RemovalQueued
<1>4. CASE d # c
    <2>1. QueuesKept(d) BY <1>3, <1>4 DEF QueuesKept
    <2>2. index'[d] = index[d] /\ events'[d] = events[d]
        BY <1>4 DEF SetEvents, TypeOK
    <2> QED BY <1>1, <1>2, <1>4, <2>1, <2>2, Apart DEF LeftAlone
<1>5. CASE d = c
    <2>1. Closing(c)' /\ Begun(c)' BY <1>3, <1>5 DEF Closing, Begun
    <2> QED BY <1>1, <1>3, <1>5, <2>1 DEF ConnInv
<1> QED BY <1>4, <1>5

LEMMA ForceCloseKeeps ==
    ASSUME TypeOK, LifeInv, NEW c \in Conn, ForceCloseInLoop(c), NEW d \in Conn
    PROVE  ConnInv(d)'
<1>1. /\ Running("forceCloseInLoop", c) /\ Dequeue(c)
      /\ UNCHANGED <<state, reported, lateSend, job, connections>>
    BY DEF ForceCloseInLoop, hbVars
<1>2. ConnInv(d) /\ ConnInv(c) BY DEF LifeInv
<1>3. LET q == ioQ[LoopOf[d]]
          p == ioQ'[LoopOf[d]] IN
      /\ InQueue("forceCloseInLoop", c, ioQ[LoopOf[c]])
      /\ \A g : InQueue(g, d, p) => InQueue(g, d, q)
      /\ \A g : ~(g = "forceCloseInLoop" /\ d = c) /\ InQueue(g, d, q) => InQueue(g, d, p)
      /\ Once(d, q) => Once(d, p)
      /\ Trailing(d, q) => Trailing(d, p)
    BY <1>1, Dequeued
<1>4. Begun(c) BY <1>2, <1>3 DEF ConnInv
<1>5. CASE state[c] \in {"kConnected", "kDisconnecting"}
    <2>1. SetEvents(c, {}) /\ RemoveConnection(c)
        BY <1>5 DEF ForceCloseInLoop, HandleClose
    <2>2. d # c => \A g : InQueue(g, d, ioQ[LoopOf[d]]) => InQueue(g, d, ioQ'[LoopOf[d]])
        BY <1>3
    <2> QED BY <1>1, <1>3, <1>4, <2>1, <2>2, ClosedKeeps
<1>6. CASE state[c] \notin {"kConnected", "kDisconnecting"}
    <2>1. UNCHANGED <<index, events, baseQ>> BY <1>6 DEF ForceCloseInLoop, chanVars
    <2>2. HasTask(d)' => HasTask(d) BY <1>1, SameTasks
    <2>3. CASE d # c
        <3>1. QueuesKept(d) BY <1>1, <2>1, <2>3, TakenOf DEF IoName
        <3> QED BY <1>1, <1>2, <2>1, <2>2, <3>1, Apart DEF LeftAlone
    <2>4. CASE d = c
        <3>1. Begun(c)' /\ (Closing(c) <=> Closing(c)')
            BY <1>1, <1>3, <1>4, <2>1, <2>4 DEF Closing, Begun
        <3> QED BY <1>1, <1>2, <1>3, <1>4, <2>1, <2>4, <3>1 DEF ConnInv
    <2> QED BY <2>3, <2>4
<1> QED BY <1>5, <1>6

LEMMA CloseEventKeeps ==
    ASSUME TypeOK, LifeInv, NEW c \in Conn, CloseEvent(c), NEW d \in Conn
    PROVE  ConnInv(d)'
<1>1. /\ index[c] = "kAdded" /\ SetEvents(c, {}) /\ RemoveConnection(c)
      /\ UNCHANGED <<state, reported, lateSend, job, connections, ioQ>>
    BY DEF CloseEvent, HandleClose, Registered, hbVars
<1>2. Begun(c) BY <1>1 DEF LifeInv, ConnInv
<1> QED BY <1>1, <1>2, ClosedKeeps

\* A registered channel that is told to look for other events, or a send that does it.
LEMMA SendKeeps ==
    ASSUME TypeOK, LifeInv, NEW c \in Conn, SendInLoop(c), NEW d \in Conn
    PROVE  ConnInv(d)'
<1>1. /\ Running("sendInLoop", c) /\ Dequeue(c)
      /\ UNCHANGED <<state, reported, job, connections, baseQ>>
    BY DEF SendInLoop, hbVars
<1>2. \/ UNCHANGED <<index, events>> /\ lateSend' = lateSend
      \/ /\ lateSend' = [lateSend EXCEPT ![c] = lateSend[c] \/ state[c] = "kDisconnected"]
         /\ UNCHANGED <<index, events>> \/ SetEvents(c, events[c] \cup {"write"})
    BY DEF SendInLoop, chanVars
<1>3. ConnInv(d) BY DEF LifeInv
<1>4. HasTask(d)' => HasTask(d) BY <1>1, SameTasks
<1>5. CASE d # c
    <2>1. QueuesKept(d) BY <1>1, <1>5, TakenOf DEF IoName
    <2>2. index'[d] = index[d] /\ events'[d] = events[d] /\ lateSend'[d] = lateSend[d]
        BY <1>2, <1>5 DEF SetEvents, TypeOK
    <2> QED BY <1>1, <1>3, <1>4, <2>1, <2>2, Apart DEF LeftAlone
<1>6. CASE d = c
    <2>1. LET q == ioQ[LoopOf[c]]
              p == ioQ'[LoopOf[c]] IN
          /\ InQueue("sendInLoop", c, q)
          /\ \A g : InQueue(g, c, p) => InQueue(g, c, q)
          /\ \A g : g # "sendInLoop" /\ InQueue(g, c, q) => InQueue(g, c, p)
          /\ Once(c, p)
          /\ Trailing(c, q) => Trailing(c, p)
        BY <1>1, <1>3, <1>6, Dequeued DEF ConnInv
    <2>2. Begun(c) BY <1>3, <1>6, <2>1 DEF ConnInv
    <2>3. Begun(c)' /\ (Closing(c) => Closing(c)') BY <1>1, <2>1, <2>2 DEF Begun, Closing
    <2>4. "read" \in events'[c] <=> "read" \in events[c]
        BY <1>2 DEF SetEvents, TypeOK
    <2>5. \/ state[c] \in {"kConnected", "kDisconnecting"}
          \/ lateSend'[c]
          \/ index'[c] = index[c] /\ lateSend'[c] = lateSend[c]
        BY <1>2, <2>2 DEF Begun, TypeOK
    <2>6. lateSend[c] => lateSend'[c] BY <1>2 DEF TypeOK
    <2> QED BY <1>1, <1>3, <1>6, <2>1, <2>2, <2>3, <2>4, <2>5, <2>6 DEF ConnInv
<1> QED BY <1>5, <1>6

LEMMA WriteKeeps ==
    ASSUME TypeOK, LifeInv, NEW c \in Conn, HandleWrite(c), NEW d \in Conn
    PROVE  ConnInv(d)'
<1>1. /\ index[c] = "kAdded" /\ SetEvents(c, events[c] \ {"write"})
      /\ UNCHANGED <<state, reported, lateSend, job, connections, ioQ, baseQ>>
    BY DEF HandleWrite, Registered, hbVars
<1>2. ConnInv(d) BY DEF LifeInv
<1>3. HasTask(d)' => HasTask(d) BY <1>1, SameTasks
<1>4. CASE d # c
    <2>1. QueuesKept(d) BY <1>1, NoQueue
    <2>2. index'[d] = index[d] /\ events'[d] = events[d]
        BY <1>1, <1>4 DEF SetEvents, TypeOK
    <2> QED BY <1>1, <1>2, <1>3, <2>1, <2>2, Apart DEF LeftAlone
<1>5. CASE d = c
    <2>1. "read" \in events'[c] <=> "read" \in events[c]
        BY <1>1 DEF SetEvents, TypeOK
    <2>2. Begun(c) /\ Begun(c)' /\ (Closing(c)' <=> Closing(c))
        BY <1>1, <1>2, <1>5 DEF ConnInv, Begun, Closing
    <2> QED BY <1>1, <1>2, <1>5, <2>1, <2>2 DEF ConnInv
<1> QED BY <1>4, <1>5
-----------------------------------------------------------------------------
(* The pool. *)

LEMMA MessageKeeps ==
    ASSUME TypeOK, LifeInv, NEW c \in Conn, NEW j \in Job, Message(c, j), NEW d \in Conn
    PROVE  ConnInv(d)'
<1>1. /\ index[c] = "kAdded" /\ job' = [job EXCEPT ![j] = [at |-> "queued", conn |-> c]]
      /\ UNCHANGED <<state, index, events, reported, lateSend, connections, ioQ, baseQ>>
    BY DEF Message, Registered, chanVars
<1>2. ConnInv(d) /\ ConnInv(c) BY DEF LifeInv
<1>3. Begun(c) BY <1>1, <1>2 DEF ConnInv
<1>4. HasTask(d)' => HasTask(d) \/ d = c BY <1>1 DEF HasTask, TypeOK
<1>5. QueuesKept(d) BY <1>1, NoQueue
<1>6. CASE d # c BY <1>1, <1>2, <1>4, <1>5, <1>6, Apart DEF LeftAlone
<1>7. CASE d = c
    <2>1. Begun(c)' /\ (Closing(c)' <=> Closing(c)) BY <1>1, <1>3 DEF Begun, Closing
    <2> QED BY <1>1, <1>2, <1>3, <1>7, <2>1 DEF ConnInv
<1> QED BY <1>6, <1>7

LEMMA SendTestKeeps ==
    ASSUME TypeOK, LifeInv, NEW j \in Job, SendTest(j), NEW d \in Conn
    PROVE  ConnInv(d)'
<1>1. UNCHANGED <<state, index, events, reported, lateSend, connections, ioQ, baseQ>>
    BY DEF SendTest, chanVars
<1>2. ConnInv(d) BY DEF LifeInv
<1>3. HasTask(d)' => HasTask(d)
    <2>1. job[j].at # "idle" /\ job' = [job EXCEPT ![j] =
              IF state[job[j].conn] = "kConnected" THEN [job[j] EXCEPT !.at = "tested"]
              ELSE NoJob]
        BY DEF SendTest
    <2>2. job[j] \in [at : {"queued", "tested"}, conn : Conn] BY <2>1 DEF TypeOK, NoJob
    <2>3. job'[j].at # "idle" => job'[j].conn = job[j].conn BY <2>1, <2>2 DEF TypeOK, NoJob
    <2>4. \A k \in Job : k # j => job'[k] = job[k] BY <2>1 DEF TypeOK
    <2> QED BY <2>1, <2>3, <2>4 DEF HasTask
<1> QED BY <1>1, <1>2, <1>3, NoQueue, Apart DEF LeftAlone

LEMMA SendQueueKeeps ==
    ASSUME TypeOK, LifeInv, NEW j \in Job, SendQueue(j), NEW d \in Conn
    PROVE  ConnInv(d)'
<1> DEFINE c == job[j].conn
<1>1. /\ job[j].at = "tested" /\ QueueInIoLoop(c, "sendInLoop")
      /\ job' = [job EXCEPT ![j] = NoJob]
      /\ UNCHANGED <<state, index, events, reported, lateSend, connections, baseQ>>
    BY DEF SendQueue, chanVars
<1>2. c \in Conn BY <1>1 DEF TypeOK, NoJob
<1>3. ConnInv(d) /\ ConnInv(c) BY <1>2 DEF LifeInv
<1>4. HasTask(c) BY <1>1 DEF HasTask
<1>5. Begun(c) BY <1>3, <1>4 DEF ConnInv
<1>6. HasTask(d)' => HasTask(d) BY <1>1 DEF HasTask, NoJob, TypeOK
<1> HIDE DEF c
<1>7. LET q == ioQ[LoopOf[d]]
          p == ioQ'[LoopOf[d]] IN
      /\ \A g : InQueue(g, d, p) <=> InQueue(g, d, q) \/ (g = "sendInLoop" /\ d = c)
      /\ Once(d, q) => Once(d, p)
      /\ Trailing(d, q) => Trailing(d, p)
    BY <1>1, <1>2, Queued DEF IoName
<1>8. CASE d # c
    <2>1. QueuesKept(d) BY <1>1, <1>7, <1>8 DEF QueuesKept
    <2> QED BY <1>1, <1>3, <1>6, <2>1, Apart DEF LeftAlone
<1>9. CASE d = c
    <2>1. Begun(d) /\ Begun(d)' /\ (Closing(d) => Closing(d)')
        BY <1>1, <1>5, <1>7, <1>9 DEF Begun, Closing
    <2> QED BY <1>1, <1>3, <1>6, <1>7, <2>1 DEF ConnInv
<1> QED BY <1>8, <1>9
-----------------------------------------------------------------------------
(* All of it. *)

\* The steps of the clients, of the clock and of the check's beginning.
LEMMA OthersKeep ==
    ASSUME LifeInv, NEW d \in Conn,
           UNCHANGED <<state, index, events, reported, lateSend, connections, job, ioQ, baseQ>>
    PROVE  ConnInv(d)'
<1>1. ConnInv(d) BY DEF LifeInv
<1>2. HasTask(d)' => HasTask(d) BY SameTasks
<1> QED BY <1>1, <1>2, NoQueue, Apart DEF LeftAlone

LEMMA LifeStep == TypeOK /\ LifeInv /\ [Next]_vars => LifeInv'
<1> SUFFICES ASSUME TypeOK, LifeInv, [Next]_vars, NEW d \in Conn PROVE ConnInv(d)'
    BY DEF LifeInv
<1> USE DEF chanVars, sockVars, hbVars
<1>1. CASE BaseFunctor BY <1>1, RemovalKeeps DEF BaseFunctor
<1>2. CASE HeartBeatCheck BY <1>2, OthersKeep DEF HeartBeatCheck
<1>3. ASSUME NEW c \in Conn, NewConnection(c) PROVE ConnInv(d)' BY <1>3, NewConnectionKeeps
<1>4. ASSUME NEW c \in Conn, HeartBeatVisit(c) PROVE ConnInv(d)' BY <1>4, VisitKeeps
<1>5. ASSUME NEW c \in Conn, IoFunctor(c) PROVE ConnInv(d)'
    BY <1>5, EstablishedKeeps, ForceCloseKeeps, DestroyedKeeps, SendKeeps DEF IoFunctor
<1>6. ASSUME NEW c \in Conn, CloseEvent(c) PROVE ConnInv(d)' BY <1>6, CloseEventKeeps
<1>7. ASSUME NEW c \in Conn, HeartBeatMessage(c) PROVE ConnInv(d)'
    BY <1>7, OthersKeep DEF HeartBeatMessage
<1>8. ASSUME NEW c \in Conn, HandleWrite(c) PROVE ConnInv(d)' BY <1>8, WriteKeeps
<1>9. ASSUME NEW c \in Conn, GoStale(c) PROVE ConnInv(d)' BY <1>9, OthersKeep DEF GoStale
<1>10. ASSUME NEW c \in Conn, NEW j \in Job, Message(c, j) PROVE ConnInv(d)'
    BY <1>10, MessageKeeps
<1>11. ASSUME NEW c \in Conn, NEW how \in {"fin", "gone"}, PeerLeaves(c, how)
       PROVE  ConnInv(d)'
    BY <1>11, OthersKeep DEF PeerLeaves
<1>12. ASSUME NEW j \in Job, JobStep(j) PROVE ConnInv(d)'
    BY <1>12, SendTestKeeps, SendQueueKeeps DEF JobStep
<1>13. CASE UNCHANGED vars BY <1>13, OthersKeep DEF vars
<1> QED
    BY <1>1, <1>2, <1>3, <1>4, <1>5, <1>6, <1>7, <1>8, <1>9, <1>10, <1>11, <1>12, <1>13
       DEF Next

\* A connection is reported up when it was new, and down when it was up or down.
LEMMA Reports ==
    ASSUME TypeOK, LifeInv, [Next]_vars
    PROVE  \/ reported' = reported
           \/ \E c \in Conn :
                 /\ reported[c] = "new" /\ state[c] = "kConnecting"
                 /\ reported' = [reported EXCEPT ![c] = "up"]
                 /\ state' = [state EXCEPT ![c] = "kConnected"]
           \/ \E c \in Conn :
                 /\ reported[c] \in {"up", "down"}
                 /\ reported' = [reported EXCEPT ![c] = "down"]
                 /\ state' = [state EXCEPT ![c] = "kDisconnected"]
<1> DEFINE Goal ==
        \/ reported' = reported
        \/ \E c \in Conn :
              /\ reported[c] = "new" /\ state[c] = "kConnecting"
              /\ reported' = [reported EXCEPT ![c] = "up"]
              /\ state' = [state EXCEPT ![c] = "kConnected"]
        \/ \E c \in Conn :
              /\ reported[c] \in {"up", "down"}
              /\ reported' = [reported EXCEPT ![c] = "down"]
              /\ state' = [state EXCEPT ![c] = "kDisconnected"]
<1>1. ASSUME NEW c \in Conn, ConnectEstablished(c) PROVE Goal
    <2>1. InQueue("connectEstablished", c, ioQ[LoopOf[c]])
        BY <1>1, Dequeued DEF ConnectEstablished
    <2>2. state[c] = "kConnecting" /\ reported[c] = "new"
        BY <2>1 DEF LifeInv, ConnInv, Begun
    <2> QED BY <1>1, <2>2 DEF ConnectEstablished
<1>2. ASSUME NEW c \in Conn, ConnectDestroyed(c) PROVE Goal
    <2>1. InQueue("connectDestroyed", c, ioQ[LoopOf[c]])
        BY <1>2, Dequeued DEF ConnectDestroyed
    <2>2. reported[c] \in {"up", "down"} BY <2>1 DEF LifeInv, ConnInv, TypeOK
    <2> QED BY <1>2, <2>2 DEF ConnectDestroyed
<1>3. (\E c \in Conn : ConnectEstablished(c) \/ ConnectDestroyed(c)) \/ reported' = reported
    BY DEF Next, BaseFunctor, IoFunctor, JobStep, RemoveConnectionInLoop, HeartBeatCheck,
           NewConnection, HeartBeatVisit, ForceCloseInLoop, SendInLoop, CloseEvent,
           HeartBeatMessage, HandleWrite, GoStale, Message, PeerLeaves, SendTest, SendQueue, vars
<1> HIDE DEF Goal
<1>4. Goal BY <1>1, <1>2, <1>3 DEF Goal
<1> QED BY <1>4 DEF Goal

LEMMA Forward ==
    ASSUME TypeOK, LifeInv, [Next]_vars, NEW d \in Conn
    PROVE  Rank(state[d]) <= Rank(state'[d])
<1>1. /\ state[d] \in {"none", "kConnecting", "kConnected", "kDisconnecting", "kDisconnected"}
      /\ state \in [Conn -> {"none", "kConnecting", "kConnected", "kDisconnecting",
                             "kDisconnected"}]
    BY DEF TypeOK
<1>2. CASE reported' # reported
    <2>1. PICK c \in Conn :
              \/ state[c] = "kConnecting" /\ state' = [state EXCEPT ![c] = "kConnected"]
              \/ state' = [state EXCEPT ![c] = "kDisconnected"]
        BY <1>2, Reports
    <2> QED BY ONLY <1>1, <2>1, d \in Conn DEF Rank
<1>3. CASE reported' = reported
    <2>1. \/ state' = state
          \/ \E c \in Conn : \/ NewConnection(c) \/ HeartBeatVisit(c)
                             \/ ConnectEstablished(c) \/ ConnectDestroyed(c)
        BY DEF Next, BaseFunctor, IoFunctor, JobStep, RemoveConnectionInLoop, HeartBeatCheck,
               ForceCloseInLoop, SendInLoop, CloseEvent, HeartBeatMessage, HandleWrite,
               GoStale, Message, PeerLeaves, SendTest, SendQueue, vars
    <2>2. ASSUME NEW c \in Conn, NewConnection(c)
          PROVE  state[c] = "none" /\ state' = [state EXCEPT ![c] = "kConnecting"]
        BY <2>2 DEF NewConnection
    <2>3. ASSUME NEW c \in Conn, HeartBeatVisit(c)
          PROVE  \/ state' = state
                 \/ /\ state[c] \in {"kConnected", "kDisconnecting"}
                    /\ state' = [state EXCEPT ![c] = "kDisconnecting"]
        BY <2>3 DEF HeartBeatVisit, ForceClose
    <2>4. ASSUME NEW c \in Conn, ConnectEstablished(c) PROVE state' = state
        <3>1. InQueue("connectEstablished", c, ioQ[LoopOf[c]])
            BY <2>4, Dequeued DEF ConnectEstablished
        <3>2. reported[c] = "new" BY <3>1 DEF LifeInv, ConnInv, Begun
        <3> QED BY <1>3, <2>4, <3>2 DEF ConnectEstablished, TypeOK
    <2>5. ASSUME NEW c \in Conn, ConnectDestroyed(c)
          PROVE  state' = [state EXCEPT ![c] = "kDisconnected"]
        BY <2>5 DEF ConnectDestroyed
    <2>6. \/ state' = state
          \/ \E c \in Conn :
                \/ state[c] = "none" /\ state' = [state EXCEPT ![c] = "kConnecting"]
                \/ /\ state[c] \in {"kConnected", "kDisconnecting"}
                   /\ state' = [state EXCEPT ![c] = "kDisconnecting"]
                \/ state' = [state EXCEPT ![c] = "kDisconnected"]
        BY <2>1, <2>2, <2>3, <2>4, <2>5
    <2> QED BY ONLY <1>1, <2>6, d \in Conn DEF Rank
<1> QED BY <1>2, <1>3

LEMMA Correct == Spec => [](TypeOK /\ LifeInv)
<1>1. TypeOK /\ LifeInv /\ [Next]_vars => (TypeOK /\ LifeInv)'
    BY TypeStep, LifeStep
<1> QED BY Initially, <1>1, PTL DEF Spec

\* For any connections, loops and tasks: the types, the order of the functors of a
\* connection, and that the server has it until it destroys it (TcpServer.cc, TcpConnection.cc).
THEOREM LivesAreSound == Spec => []TcpInv
<1>1. TypeOK /\ LifeInv => TcpInv BY LifeSuffices
<1> QED BY Correct, <1>1, PTL

\* The bare pointer of forceClose's functor is outlived (TcpConnection.cc:214).
THEOREM PointersAreOutlived == Spec => []ForceCloseOutlived
<1>1. TypeOK /\ LifeInv => ForceCloseOutlived BY LifeSuffices
<1> QED BY Correct, <1>1, PTL

\* epoll's bare pointers are, but for a late send's (Epoller.cc:68-116).
THEOREM ChannelsAreOwned == Spec => []RegisteredIsOwned
<1>1. TypeOK /\ LifeInv => RegisteredIsOwned BY LifeSuffices
<1> QED BY Correct, <1>1, PTL

\* Nobody is in the map without being read (TcpConnection.cc:117-122).
THEOREM DeafAreClosed == Spec => []DeafIsClosing
<1>1. TypeOK /\ LifeInv => DeafIsClosing BY LifeSuffices
<1> QED BY Correct, <1>1, PTL

\* state_ goes forward only (TcpConnection.cc:34-36, 208-213, 230-233).
THEOREM StatesGoForward == Spec => StateForward
<1>1. TypeOK /\ LifeInv /\ [Next]_vars
          => [\A c \in Conn : Rank(state[c]) <= Rank(state'[c])]_state
    BY Forward
<1> QED BY Correct, <1>1, PTL DEF Spec, StateForward

\* The connection callback's promise: up once, then down (TcpServer.cc:59, 75).
THEOREM CallbackIsLife == Spec => ImplementsLife
<1>1. Init => Life!LInit BY DEF Init, Life!LInit
<1>2. TypeOK /\ LifeInv /\ [Next]_vars => [Life!LNext]_reported
    <2> SUFFICES ASSUME TypeOK, LifeInv, [Next]_vars PROVE [Life!LNext]_reported
        OBVIOUS
    <2>1. CASE reported' = reported BY <2>1
    <2>2. ASSUME NEW c \in Conn, reported[c] = "new", reported' = [reported EXCEPT ![c] = "up"]
          PROVE  Life!LNext
        BY <2>2 DEF Life!LNext, Life!Up
    <2>3. ASSUME NEW c \in Conn, reported[c] \in {"up", "down"},
                 reported' = [reported EXCEPT ![c] = "down"]
          PROVE  [Life!LNext]_reported
        <3>1. CASE reported[c] = "up" BY <2>3, <3>1 DEF Life!LNext, Life!Down
        <3>2. CASE reported[c] = "down" BY <2>3, <3>2 DEF TypeOK
        <3> QED BY <2>3, <3>1, <3>2
    <2> QED BY <2>1, <2>2, <2>3, Reports
<1> QED BY Correct, <1>1, <1>2, PTL DEF Spec, ImplementsLife, Life!LSpec
-----------------------------------------------------------------------------
(***************************************************************************)
(* For every set of timers, every interval and every first delay: the      *)
(* descriptor of a TimerQueue is set for its earliest timer whenever the   *)
(* loop may poll, and every timer is in one place.                         *)
(***************************************************************************)


\* What addTimer's functor does to the list and the descriptor (TimerQueue.cc:123-145).
LEMMA InsertArms ==
    ASSUME TimerTypeOK, NEW t \in Timer, NEW n \in Nat, Insert(t, n),
           \A u \in timers : timerfd # Disarmed /\ (timerfd <= due[u] \/ timerfd <= Floor)
    PROVE  /\ timerfd' \in Nat \cup {Disarmed}
           /\ \A u \in timers : timerfd' # Disarmed /\ (timerfd' <= due[u] \/ timerfd' <= Floor)
           /\ timerfd' # Disarmed /\ (timerfd' <= n \/ timerfd' <= Floor)
<1>1. CASE (\A u \in timers : n < due[u] \/ n = 0) /\ ResetTimerfd(n)
    <2>1. timerfd' \in Nat /\ timerfd' # Disarmed /\ (timerfd' <= n \/ timerfd' <= Floor)
        BY <1>1 DEF ResetTimerfd, Later, Floor, Disarmed
    <2>2. ASSUME NEW u \in timers PROVE timerfd' <= due[u] \/ timerfd' <= Floor
        <3>1. due[u] \in Nat BY DEF TimerTypeOK
        <3> QED BY <1>1, <3>1 DEF ResetTimerfd, Later, Floor
    <2> QED BY <2>1, <2>2
<1>2. CASE (\E u \in timers : due[u] <= n) /\ UNCHANGED timerfd
    <2>1. PICK u \in timers : due[u] <= n BY <1>2
    <2>2. due[u] \in Nat BY DEF TimerTypeOK
    <2>3. timerfd \in Nat \cup {Disarmed} BY DEF TimerTypeOK
    <2> QED BY <1>2, <2>1, <2>2, <2>3 DEF Floor, Disarmed
<1> QED BY <1>1, <1>2 DEF Insert

\* The same of the whole list, when only t's expiration is new.
LEMMA InsertKeepsArmed ==
    ASSUME TimerTypeOK, NEW t \in Timer, NEW n \in Nat, Insert(t, n), t \notin timers,
           \A u \in timers : timerfd # Disarmed /\ (timerfd <= due[u] \/ timerfd <= Floor),
           due' \in [Timer -> Nat], due'[t] = n, \A u \in timers : due'[u] = due[u]
    PROVE  \A u \in timers' : timerfd' # Disarmed /\ (timerfd' <= due'[u] \/ timerfd' <= Floor)
<1>1. timers' = timers \cup {t} BY DEF Insert
<1>2. \A u \in timers : timerfd' # Disarmed /\ (timerfd' <= due[u] \/ timerfd' <= Floor)
    BY InsertArms
<1>3. timerfd' # Disarmed /\ (timerfd' <= n \/ timerfd' <= Floor)
    BY InsertArms
<1> QED BY <1>1, <1>2, <1>3

\* Insert outside of handleRead, and inside, where the invariant asks nothing of the
\* descriptor but its type.
LEMMA InsertType ==
    ASSUME TimerTypeOK, NEW t \in Timer, NEW n \in Nat, Insert(t, n)
    PROVE  timers' = timers \cup {t} /\ timerfd' \in Nat \cup {Disarmed}
BY DEF Insert, ResetTimerfd, Later, Floor, Disarmed, TimerTypeOK

LEMMA TimersInitially == TimerInit => TimerInv
<1> SUFFICES ASSUME TimerInit PROVE TimerInv OBVIOUS
<1> USE DEF TimerInit
<1>1. TimerTypeOK BY DEF TimerTypeOK
<1>2. Armed BY DEF Armed
<1>3. OnePlace BY DEF OnePlace
<1> QED BY <1>1, <1>2, <1>3 DEF TimerInv

LEMMA AddTimerKeeps ==
    ASSUME TimerInv, NEW t \in Timer, AddTimer(t) PROVE TimerInv'
<1> USE DEF TimerInv
<1>1. Delay[t] \in Nat BY TimerAssumption
<1>2. timers' = timers \cup {t} /\ timerfd' \in Nat \cup {Disarmed}
    BY <1>1, InsertType DEF AddTimer
<1>3. due' \in [Timer -> Nat] BY <1>1 DEF AddTimer, TimerTypeOK
<1>4. life' \in [Timer -> {"new", "queued", "live", "deleted"}]
    BY DEF AddTimer, TimerTypeOK
<1>5. TimerTypeOK' BY <1>2, <1>3, <1>4 DEF AddTimer, loopVars, TimerTypeOK
<1>6. t \notin timers /\ t \notin toRun /\ t \notin ran BY DEF AddTimer, OnePlace
<1>7. OnePlace' BY <1>2, <1>6 DEF AddTimer, loopVars, OnePlace, TimerTypeOK
<1>8. Armed'
    <2> SUFFICES ASSUME pc # "expired"
                 PROVE \A u \in timers' : timerfd' # Disarmed
                                            /\ (timerfd' <= due'[u] \/ timerfd' <= Floor)
        BY DEF Armed, AddTimer, loopVars
    <2>1. due'[t] = Delay[t] /\ \A u \in timers : due'[u] = due[u]
        BY <1>6 DEF AddTimer, TimerTypeOK
    <2>2. \A u \in timers : timerfd # Disarmed /\ (timerfd <= due[u] \/ timerfd <= Floor)
        BY DEF Armed
    <2> QED BY <1>1, <1>3, <1>6, <2>1, <2>2, InsertKeepsArmed DEF AddTimer
<1> QED BY <1>5, <1>7, <1>8

LEMMA QueueTimerKeeps ==
    ASSUME TimerInv, NEW t \in Timer, QueueTimer(t) PROVE TimerInv'
<1> USE DEF TimerInv
<1>1. Delay[t] \in Nat BY TimerAssumption
<1>2. t \notin timers BY DEF QueueTimer, OnePlace
<1>3. TimerTypeOK' BY <1>1 DEF QueueTimer, loopVars, TimerTypeOK
<1>4. OnePlace' BY <1>2 DEF QueueTimer, loopVars, OnePlace, TimerTypeOK
<1>5. Armed' BY <1>2 DEF QueueTimer, loopVars, Armed, TimerTypeOK
<1> QED BY <1>3, <1>4, <1>5

LEMMA AddTimerInLoopKeeps ==
    ASSUME TimerInv, NEW t \in Timer, AddTimerInLoop(t) PROVE TimerInv'
<1> USE DEF TimerInv
<1>1. due[t] \in Nat BY DEF TimerTypeOK
<1>2. timers' = timers \cup {t} /\ timerfd' \in Nat \cup {Disarmed}
    BY <1>1, InsertType DEF AddTimerInLoop
<1>3. TimerTypeOK' BY <1>2 DEF AddTimerInLoop, loopVars, TimerTypeOK
<1>4. t \notin timers /\ t \notin toRun /\ t \notin ran BY DEF AddTimerInLoop, OnePlace
<1>5. OnePlace' BY <1>2, <1>4 DEF AddTimerInLoop, loopVars, OnePlace, TimerTypeOK
<1>6. Armed'
    <2>1. \A u \in timers : timerfd # Disarmed /\ (timerfd <= due[u] \/ timerfd <= Floor)
        BY DEF Armed, AddTimerInLoop
    <2>2. due' \in [Timer -> Nat] /\ due'[t] = due[t] /\ \A u \in timers : due'[u] = due[u]
        BY DEF AddTimerInLoop, TimerTypeOK
    <2>3. \A u \in timers' : timerfd' # Disarmed
                              /\ (timerfd' <= due'[u] \/ timerfd' <= Floor)
        BY <1>1, <1>4, <2>1, <2>2, InsertKeepsArmed DEF AddTimerInLoop
    <2> QED BY <2>3 DEF Armed
<1> QED BY <1>3, <1>5, <1>6

LEMMA HandleReadKeeps ==
    ASSUME TimerInv, HandleRead PROVE TimerInv'
<1> USE DEF TimerInv
<1>1. TimerTypeOK' BY DEF HandleRead, TimerTypeOK, Disarmed
<1>2. toRun = {} /\ ran = {} BY DEF HandleRead, TimerTypeOK
<1>3. OnePlace' BY <1>2 DEF HandleRead, OnePlace
<1>4. Armed' BY DEF HandleRead, Armed
<1> QED BY <1>1, <1>3, <1>4

LEMMA RunTimerKeeps ==
    ASSUME TimerInv, NEW t \in Timer, RunTimer(t) PROVE TimerInv'
<1> USE DEF TimerInv
<1>1. TimerTypeOK' BY DEF RunTimer, TimerTypeOK
<1>2. OnePlace' BY DEF RunTimer, OnePlace
<1>3. Armed' BY DEF RunTimer, Armed
<1> QED BY <1>1, <1>2, <1>3

\* reset (TimerQueue.cc:90-110): what repeats is back in the list, and the descriptor is
\* set to the earliest of all.
LEMMA ResetKeeps ==
    ASSUME TimerInv, Reset PROVE TimerInv'
<1> USE DEF TimerInv
<1>1. \A t \in Timer : Restart(t) \in Nat
    BY TimerAssumption DEF Restart, Later, TimerTypeOK
<1>2. due' \in [Timer -> Nat]
    BY <1>1 DEF Reset, TimerTypeOK
<1>3. life' \in [Timer -> {"new", "queued", "live", "deleted"}]
    BY DEF Reset, TimerTypeOK
<1>4. timers' \subseteq Timer BY DEF Reset, TimerTypeOK
<1>5. timerfd' \in Nat \cup {Disarmed}
    BY <1>2 DEF Reset, ResetTimerfd, Later, Floor, Disarmed, TimerTypeOK
<1>6. TimerTypeOK'
    BY <1>2, <1>3, <1>4, <1>5 DEF Reset, TimerTypeOK
<1>7. OnePlace'
    <2>1. toRun' = {} /\ ran' = {} BY DEF Reset
    <2> SUFFICES ASSUME NEW t \in Timer PROVE life'[t] = "live" <=> t \in timers'
        BY <2>1 DEF OnePlace
    <2>2. life[t] = "live" <=> t \in timers \cup ran BY DEF OnePlace, Reset
    <2>3. t \in timers => t \notin ran BY DEF OnePlace
    <2>4. life'[t] = IF t \in ran /\ ~Repeats(t) THEN "deleted" ELSE life[t] BY DEF Reset
    <2>5. timers' = timers \cup {u \in ran : Repeats(u)} BY DEF Reset
    <2> QED BY <2>2, <2>3, <2>4, <2>5
<1>8. Armed'
    <2> SUFFICES ASSUME timers' # {}
                 PROVE \A u \in timers' : timerfd' # Disarmed
                                            /\ (timerfd' <= due'[u] \/ timerfd' <= Floor)
        BY DEF Armed
    <2>1. PICK t \in Timer : Earliest(t, timers', due') /\ ResetTimerfd(due'[t])
        BY DEF Reset
    <2>2. due'[t] \in Nat BY <1>2
    <2> TAKE u \in timers'
    <2>3. due'[u] \in Nat /\ due'[t] <= due'[u] BY <1>2, <1>4, <2>1 DEF Earliest
    <2> QED BY <2>1, <2>2, <2>3 DEF ResetTimerfd, Later, Floor, Disarmed
<1> QED BY <1>6, <1>7, <1>8

\* A tick brings the descriptor's time and every timer's nearer by the same.
LEMMA TickKeeps ==
    ASSUME TimerInv, Tick PROVE TimerInv'
<1> USE DEF TimerInv
<1>1. due' \in [Timer -> Nat] BY DEF Tick, Later, TimerTypeOK
<1>2. timerfd' \in Nat \cup {Disarmed} BY DEF Tick, TimerTypeOK, Disarmed
<1>3. since' \in Nat BY DEF Tick, TimerTypeOK
<1>4. TimerTypeOK' BY <1>1, <1>2, <1>3 DEF Tick, TimerTypeOK
<1>5. OnePlace' BY DEF Tick, OnePlace
<1>6. Armed'
    <2> SUFFICES ASSUME pc # "expired", NEW u \in timers
                 PROVE timerfd' # Disarmed /\ (timerfd' <= due'[u] \/ timerfd' <= Floor)
        BY DEF Armed, Tick
    <2>1. timerfd # Disarmed /\ (timerfd <= due[u] \/ timerfd <= Floor) BY DEF Armed
    <2>2. timerfd \in Nat /\ due[u] \in Nat BY <2>1 DEF TimerTypeOK
    <2>3. timerfd' = IF timerfd > 0 THEN timerfd - 1 ELSE timerfd BY DEF Tick
    <2>4. due'[u] = Later(due[u] - 1, 0) BY DEF Tick, TimerTypeOK
    <2> QED BY <2>1, <2>2, <2>3, <2>4 DEF Later, Floor, Disarmed
<1> QED BY <1>4, <1>5, <1>6

\* The descriptor's time alone comes nearer: it may be readable before a timer is due.
LEMMA LagKeeps ==
    ASSUME TimerInv, Lag PROVE TimerInv'
<1> USE DEF TimerInv, Lag, loopVars
<1>1. timerfd' \in Nat BY DEF TimerTypeOK, Disarmed
<1>2. TimerTypeOK' BY <1>1 DEF TimerTypeOK
<1>3. OnePlace' BY DEF OnePlace
<1>4. Armed'
    <2> SUFFICES ASSUME pc # "expired", NEW u \in timers
                 PROVE timerfd' # Disarmed /\ (timerfd' <= due[u] \/ timerfd' <= Floor)
        BY DEF Armed
    <2>1. timerfd \in Nat /\ due[u] \in Nat BY DEF TimerTypeOK, Disarmed
    <2>2. timerfd <= due[u] \/ timerfd <= Floor BY DEF Armed
    <2> QED BY <1>1, <2>1, <2>2 DEF Floor, Disarmed
<1> QED BY <1>2, <1>3, <1>4

LEMMA TimersInductive == TimerInv /\ [TimerNext]_timerVars => TimerInv'
<1> SUFFICES ASSUME TimerInv, [TimerNext]_timerVars PROVE TimerInv' OBVIOUS
<1>1. CASE EnterLoop \/ PollTimer \/ PollOther \/ BeginFunctors \/ EndFunctors
    <2> USE DEF EnterLoop, PollTimer, PollOther, BeginFunctors, EndFunctors, TimerInv
    <2>1. TimerTypeOK' BY <1>1 DEF TimerTypeOK
    <2>2. OnePlace' BY <1>1 DEF OnePlace
    <2>3. Armed' BY <1>1 DEF Armed
    <2> QED BY <2>1, <2>2, <2>3
<1>2. CASE EndTimer
    <2> USE DEF EndTimer, TimerInv
    <2>1. TimerTypeOK' BY <1>2 DEF TimerTypeOK
    <2>2. OnePlace' BY <1>2 DEF OnePlace
    <2>3. Armed' BY <1>2 DEF Armed
    <2> QED BY <2>1, <2>2, <2>3
<1>3. CASE HandleRead BY <1>3, HandleReadKeeps
<1>4. CASE Reset BY <1>4, ResetKeeps
<1>5. CASE \E t \in Timer : RunTimer(t) BY <1>5, RunTimerKeeps
<1>6. CASE Tick BY <1>6, TickKeeps
<1>7. CASE \E t \in Timer : AddTimer(t) \/ QueueTimer(t) \/ AddTimerInLoop(t)
    BY <1>7, AddTimerKeeps, QueueTimerKeeps, AddTimerInLoopKeeps
<1>8. CASE UNCHANGED timerVars
    <2> USE DEF timerVars, TimerInv
    <2>1. TimerTypeOK' BY <1>8 DEF TimerTypeOK
    <2>2. OnePlace' BY <1>8 DEF OnePlace
    <2>3. Armed' BY <1>8 DEF Armed
    <2> QED BY <2>1, <2>2, <2>3
<1>9. CASE Lag BY <1>9, LagKeeps
<1> QED BY <1>1, <1>2, <1>3, <1>4, <1>5, <1>6, <1>7, <1>8, <1>9 DEF TimerNext, LoopStep

\* The loop never sleeps past a timer, and no timer is lost, run twice in a pass or used
\* after its deletion (TimerQueue.cc:76-146).
THEOREM TimersArmed == TimerSpec => []TimerInv
<1>1. TimerInit => TimerInv BY TimersInitially
<1>2. TimerInv /\ [TimerNext]_timerVars => TimerInv' BY TimersInductive
<1> QED BY <1>1, <1>2, PTL DEF TimerSpec
=============================================================================
