---------------------------- MODULE TcpConnection ----------------------------
(***************************************************************************)
(* The life of the chat server's connections: TcpServer and the heartbeat  *)
(* check on the base loop, TcpConnection, its Channel and the Epoller on   *)
(* an IO loop, and the pool tasks that send from other threads.            *)
(*                                                                         *)
(* A loop is the FIFO of its pending functors (module Executor, which      *)
(* EventLoop implements).  What runs on a loop thread is one step: within  *)
(* it no other thread writes what it reads, except state_, of which each   *)
(* step below says what may have changed.  The base loop is not an IO loop *)
(* (main.cc:25 asks for four IO threads).                                  *)
(***************************************************************************)
EXTENDS Naturals, Sequences, FiniteSets

CONSTANTS Conn,      \* the connections ever accepted
          IoLoop,    \* the IO loops
          LoopOf,    \* the IO loop of each connection (EventLoopThreadPool::getNextLoop)
          Job,       \* the tasks that may be in the thread pool at one time
          MaxQueue   \* bound: no check begins and no message arrives while a loop
                     \* has this many functors pending

ASSUME LoopAssumption  == LoopOf \in [Conn -> IoLoop]
ASSUME QueueAssumption == MaxQueue \in Nat \ {0}

VARIABLES
    state,        \* state_, or "none" before the connection is accepted
    index,        \* the channel's index_: kNew, kAdded (registered with epoll), kDelete
    events,       \* the channel's events_
    outputBuffer, \* outputBuffer_ is not empty
    context,      \* the HeartBeatContext has been set
    stale,        \* lastCheckTime is more than 30 s old
    connections,  \* connections_, the server's map
    baseQ,        \* pending functors of the base loop
    ioQ,          \* pending functors of each IO loop
    sweep,        \* the connections heartBeatCheck has still to visit
    job,          \* what each pool task is doing, and the connection it holds
    peer,         \* the client's end: "open", "fin" (closed or reset), "gone" (silent)
    shutWrite,    \* our end has been shut down for writing
    reported,     \* the last report of the connection callback
    lateSend,     \* a sendInLoop has run after connectDestroyed
    crashed       \* the process has terminated

vars == <<state, index, events, outputBuffer, context, stale, connections, baseQ, ioQ,
          sweep, job, peer, shutWrite, reported, lateSend, crashed>>

chanVars == <<index, events>>
sockVars == <<outputBuffer, shutWrite>>
hbVars   == <<context, stale, sweep>>

NoJob == [at |-> "idle"]

Functor(f, c) == [fn |-> f, conn |-> c]
BaseFunctors  == [fn : {"removeConnectionInLoop"}, conn : Conn]
IoFunctors    == [fn : {"connectEstablished", "forceCloseInLoop", "sendInLoop",
                        "connectDestroyed"}, conn : Conn]

Room == Len(baseQ) < MaxQueue /\ \A l \in IoLoop : Len(ioQ[l]) < MaxQueue

\* The functors that capture a TcpConnectionPtr; the others capture this.
OwningFunctors == {"connectEstablished", "connectDestroyed", "removeConnectionInLoop"}

InQueue(f, c, q) == \E i \in DOMAIN q : q[i] = Functor(f, c)

\* A shared_ptr to the connection exists.
Alive(c) ==
    \/ c \in connections \cup sweep
    \/ \E f \in OwningFunctors : InQueue(f, c, baseQ) \/ InQueue(f, c, ioQ[LoopOf[c]])
    \/ \E j \in Job : job[j].at # "idle" /\ job[j].conn = c

Init ==
    /\ state = [c \in Conn |-> "none"]
    /\ index = [c \in Conn |-> "kNew"]
    /\ events = [c \in Conn |-> {}]
    /\ outputBuffer = [c \in Conn |-> FALSE]
    /\ context = [c \in Conn |-> FALSE]
    /\ stale = [c \in Conn |-> FALSE]
    /\ connections = {}
    /\ baseQ = <<>>
    /\ ioQ = [l \in IoLoop |-> <<>>]
    /\ sweep = {}
    /\ job = [j \in Job |-> NoJob]
    /\ peer = [c \in Conn |-> "open"]
    /\ shutWrite = [c \in Conn |-> FALSE]
    /\ reported = [c \in Conn |-> "new"]
    /\ lateSend = [c \in Conn |-> FALSE]
    /\ crashed = FALSE
-----------------------------------------------------------------------------
(* The pieces that the handlers share. *)

\* Channel::update and Epoller::updateChannel with events_ = ev: a channel that
\* is not registered is added whatever ev is.
SetEvents(c, ev) ==
    /\ events' = [events EXCEPT ![c] = ev]
    /\ index' = [index EXCEPT ![c] = IF @ = "kAdded" /\ ev = {} THEN "kDelete" ELSE "kAdded"]

QueueInIoLoop(c, f) == ioQ' = [ioQ EXCEPT ![LoopOf[c]] = Append(@, Functor(f, c))]

\* removeConnection, the close callback, which runs on the IO thread.
RemoveConnection(c) == baseQ' = Append(baseQ, Functor("removeConnectionInLoop", c))

\* forceClose
ForceClose(c) ==
    IF state[c] \in {"kConnected", "kDisconnecting"}
    THEN /\ state' = [state EXCEPT ![c] = "kDisconnecting"]
         /\ QueueInIoLoop(c, "forceCloseInLoop")
    ELSE UNCHANGED <<state, ioQ>>

\* Seeded bug: the close callback is not called.
HandleCloseSilent(c) == SetEvents(c, {}) /\ UNCHANGED baseQ

\* Seeded bug: only a connection that is still kConnected is closed.
HandleCloseUpOnly(c) ==
    IF state[c] = "kConnected"
    THEN SetEvents(c, {}) /\ RemoveConnection(c)
    ELSE UNCHANGED <<chanVars, baseQ>>

\* handleClose: disableAll, then closeCallback_.  state_ is left alone.
HandleClose(c) ==
    /\ SetEvents(c, {})
    /\ RemoveConnection(c)

\* The functor at the head of the IO loop's queue, and its removal.
Running(f, c) ==
    /\ ~crashed
    /\ ioQ[LoopOf[c]] # <<>>
    /\ Head(ioQ[LoopOf[c]]) = Functor(f, c)

Dequeue(c) == ioQ' = [ioQ EXCEPT ![LoopOf[c]] = Tail(@)]
-----------------------------------------------------------------------------
(* The base loop. *)

BaseLoopFree == ~crashed /\ sweep = {}

\* Seeded bug: nextConnId_ is not incremented, so the name of a connection that
\* has gone is given out again.
NewConnectionReused(c) ==
    /\ BaseLoopFree
    /\ state[c] \in {"none", "kDisconnected"}
    /\ c \notin connections
    /\ state' = [state EXCEPT ![c] = "kConnecting"]
    /\ connections' = connections \cup {c}
    /\ QueueInIoLoop(c, "connectEstablished")
    /\ UNCHANGED <<chanVars, sockVars, hbVars, baseQ, job, peer, reported, lateSend, crashed>>

\* The acceptor's callback: TcpServer::newConnection.
NewConnection(c) ==
    /\ BaseLoopFree
    /\ state[c] = "none"
    /\ state' = [state EXCEPT ![c] = "kConnecting"]
    /\ connections' = connections \cup {c}
    /\ QueueInIoLoop(c, "connectEstablished")
    /\ UNCHANGED <<chanVars, sockVars, hbVars, baseQ, job, peer, reported, lateSend, crashed>>

\* Seeded bug: the removal does not run on the base loop, and meets a check.
RemoveConnectionAnytime(c) ==
    /\ ~crashed
    /\ baseQ # <<>>
    /\ Head(baseQ) = Functor("removeConnectionInLoop", c)
    /\ baseQ' = Tail(baseQ)
    /\ connections' = connections \ {c}
    /\ QueueInIoLoop(c, "connectDestroyed")
    /\ UNCHANGED <<state, chanVars, sockVars, hbVars, job, peer, reported, lateSend, crashed>>

\* Seeded bug: the server drops its pointer without queueing connectDestroyed.
RemoveConnectionDrops(c) ==
    /\ BaseLoopFree
    /\ baseQ # <<>>
    /\ Head(baseQ) = Functor("removeConnectionInLoop", c)
    /\ baseQ' = Tail(baseQ)
    /\ connections' = connections \ {c}
    /\ UNCHANGED <<state, chanVars, sockVars, hbVars, ioQ, job, peer, reported, lateSend, crashed>>

RemoveConnectionInLoop(c) ==
    /\ BaseLoopFree
    /\ baseQ # <<>>
    /\ Head(baseQ) = Functor("removeConnectionInLoop", c)
    /\ baseQ' = Tail(baseQ)
    /\ connections' = connections \ {c}
    /\ QueueInIoLoop(c, "connectDestroyed")
    /\ UNCHANGED <<state, chanVars, sockVars, hbVars, job, peer, reported, lateSend, crashed>>

\* The timer's callback, Service::heartBeatCheck, begins its pass.
HeartBeatCheck ==
    /\ BaseLoopFree
    /\ connections # {}
    /\ Room
    /\ sweep' = connections
    /\ UNCHANGED <<state, chanVars, sockVars, context, stale, connections, baseQ, ioQ, job,
                   peer, reported, lateSend, crashed>>

\* Seeded bug: a connection without a context is closed, whatever its state_.
HeartBeatVisitUntested(c) ==
    /\ ~crashed
    /\ c \in sweep
    /\ sweep' = sweep \ {c}
    /\ IF stale[c] \/ ~context[c]
       THEN /\ state' = [state EXCEPT ![c] = "kDisconnecting"]
            /\ QueueInIoLoop(c, "forceCloseInLoop")
       ELSE UNCHANGED <<state, ioQ>>
    /\ UNCHANGED <<chanVars, sockVars, context, stale, connections, baseQ, job, peer,
                   reported, lateSend, crashed>>

\* One turn of its loop.  The any_cast of a context that the IO thread has not
\* set yet throws out of the loop thread.  forceClose's test of state_ and its
\* assignment are one step: with the context set, the connection is past
\* connectEstablished, and being in connections_ it is before connectDestroyed.
HeartBeatVisit(c) ==
    /\ ~crashed
    /\ c \in sweep
    /\ IF ~context[c]
       THEN /\ crashed' = TRUE
            /\ UNCHANGED <<state, ioQ, sweep>>
       ELSE /\ sweep' = sweep \ {c}
            /\ UNCHANGED crashed
            /\ IF stale[c] THEN ForceClose(c) ELSE UNCHANGED <<state, ioQ>>
    /\ UNCHANGED <<chanVars, sockVars, context, stale, connections, baseQ, job, peer,
                   reported, lateSend>>
-----------------------------------------------------------------------------
(* An IO loop: its functors. *)

\* Service::onConnection, called by it, sees a connection that is up and gives
\* it its HeartBeatContext.
ConnectEstablished(c) ==
    /\ Running("connectEstablished", c)
    /\ Dequeue(c)
    /\ state' = [state EXCEPT ![c] = "kConnected"]
    /\ SetEvents(c, events[c] \cup {"read"})
    /\ context' = [context EXCEPT ![c] = TRUE]
    /\ stale' = [stale EXCEPT ![c] = FALSE]
    /\ reported' = [reported EXCEPT ![c] = "up"]
    /\ UNCHANGED <<sockVars, connections, baseQ, sweep, job, peer, lateSend, crashed>>

ForceCloseInLoop(c) ==
    /\ Running("forceCloseInLoop", c)
    /\ Dequeue(c)
    /\ IF state[c] \in {"kConnected", "kDisconnecting"}
       THEN shutWrite' = [shutWrite EXCEPT ![c] = TRUE] /\ HandleClose(c)
       ELSE UNCHANGED <<shutWrite, chanVars, baseQ>>
    /\ UNCHANGED <<state, outputBuffer, hbVars, connections, job, peer, reported,
                   lateSend, crashed>>

\* Seeded bug: removeChannel is not called after disableAll.
ConnectDestroyedKeepsChannel(c) ==
    /\ Running("connectDestroyed", c)
    /\ Dequeue(c)
    /\ state' = [state EXCEPT ![c] = "kDisconnected"]
    /\ SetEvents(c, {})
    /\ reported' = [reported EXCEPT ![c] = "down"]
    /\ UNCHANGED <<sockVars, hbVars, connections, baseQ, job, peer, lateSend, crashed>>

\* The connection callback sees a connection that is down.  disableAll adds the
\* channel of a closed connection to epoll again and removeChannel deletes it.
ConnectDestroyed(c) ==
    /\ Running("connectDestroyed", c)
    /\ Dequeue(c)
    /\ state' = [state EXCEPT ![c] = "kDisconnected"]
    /\ events' = [events EXCEPT ![c] = {}]
    /\ index' = [index EXCEPT ![c] = "kNew"]
    /\ reported' = [reported EXCEPT ![c] = "down"]
    /\ UNCHANGED <<sockVars, hbVars, connections, baseQ, job, peer, lateSend, crashed>>

\* The whole message is written at once only when nothing is queued before it;
\* a short write and an error (our end is shut, EWOULDBLOCK) both leave the rest
\* in outputBuffer_ and ask for writability.  The functor captures this: when
\* the connection is gone, anything may happen, a crash or nothing at all.
SendInLoop(c) ==
    /\ Running("sendInLoop", c)
    /\ Dequeue(c)
    /\ \/ /\ ~Alive(c)
          /\ crashed' \in BOOLEAN
          /\ UNCHANGED <<chanVars, outputBuffer, lateSend>>
       \/ /\ Alive(c)
          /\ lateSend' = [lateSend EXCEPT ![c] = @ \/ state[c] = "kDisconnected"]
          /\ UNCHANGED crashed
          /\ \/ /\ "write" \notin events[c] /\ ~outputBuffer[c] /\ ~shutWrite[c]
                /\ UNCHANGED <<chanVars, outputBuffer>>
             \/ /\ outputBuffer' = [outputBuffer EXCEPT ![c] = TRUE]
                /\ IF "write" \in events[c]
                   THEN UNCHANGED chanVars
                   ELSE SetEvents(c, events[c] \cup {"write"})
    /\ UNCHANGED <<state, shutWrite, hbVars, connections, baseQ, job, peer, reported>>
-----------------------------------------------------------------------------
(* An IO loop: the events of a registered channel (Channel::handleEvent). *)

Registered(c) == ~crashed /\ index[c] = "kAdded"

\* The client has closed: read returns 0.  When reading is disabled epoll still
\* reports a connection both of whose ends are shut, as POLLHUP without POLLIN.
\* (A reset makes one read fail, which is only logged, before one returns 0.)
CloseEvent(c) ==
    /\ Registered(c)
    /\ peer[c] = "fin"
    /\ "read" \in events[c] \/ shutWrite[c]
    /\ HandleClose(c)
    /\ UNCHANGED <<state, sockVars, hbVars, connections, ioQ, job, peer, reported,
                   lateSend, crashed>>

\* Service::onMessage on "null": handleHeartBeat.
HeartBeatMessage(c) ==
    /\ Registered(c)
    /\ "read" \in events[c]
    /\ peer[c] # "gone"
    /\ stale' = [stale EXCEPT ![c] = FALSE]
    /\ UNCHANGED <<state, chanVars, sockVars, context, sweep, connections, baseQ, ioQ, job,
                   peer, reported, lateSend, crashed>>

\* Service::onMessage on any other message: a pool task that holds the connection.
Message(c, j) ==
    /\ Registered(c)
    /\ "read" \in events[c]
    /\ peer[c] # "gone"
    /\ job[j].at = "idle"
    /\ Room
    /\ job' = [job EXCEPT ![j] = [at |-> "queued", conn |-> c]]
    /\ UNCHANGED <<state, chanVars, sockVars, hbVars, connections, baseQ, ioQ, peer,
                   reported, lateSend, crashed>>

\* handleWrite, when it writes the last byte.
HandleWrite(c) ==
    /\ Registered(c)
    /\ "write" \in events[c]
    /\ ~shutWrite[c]
    /\ outputBuffer' = [outputBuffer EXCEPT ![c] = FALSE]
    /\ SetEvents(c, events[c] \ {"write"})
    /\ shutWrite' = [shutWrite EXCEPT ![c] = state[c] = "kDisconnecting"]
    /\ UNCHANGED <<state, hbVars, connections, baseQ, ioQ, job, peer, reported,
                   lateSend, crashed>>
-----------------------------------------------------------------------------
(* A pool thread answering a message: TcpConnection::send. *)

\* if (state_ == kConnected), read without synchronisation.  A connection that
\* is not up drops the message and the task ends.
SendTest(j) ==
    /\ ~crashed
    /\ job[j].at = "queued"
    /\ job' = [job EXCEPT ![j] =
                   IF state[@.conn] = "kConnected" THEN [@ EXCEPT !.at = "tested"] ELSE NoJob]
    /\ UNCHANGED <<state, chanVars, sockVars, hbVars, connections, baseQ, ioQ, peer,
                   reported, lateSend, crashed>>

\* runInLoop from another thread queues; then the task ends and its pointer goes.
SendQueue(j) ==
    /\ ~crashed
    /\ job[j].at = "tested"
    /\ QueueInIoLoop(job[j].conn, "sendInLoop")
    /\ job' = [job EXCEPT ![j] = NoJob]
    /\ UNCHANGED <<state, chanVars, sockVars, hbVars, connections, baseQ, peer, reported,
                   lateSend, crashed>>
-----------------------------------------------------------------------------
(* The clients and the clock. *)

\* The client closes, or vanishes without a word.
PeerLeaves(c, how) ==
    /\ peer[c] = "open"
    /\ state[c] # "none"
    /\ how \in {"fin", "gone"}
    /\ peer' = [peer EXCEPT ![c] = how]
    /\ UNCHANGED <<state, chanVars, sockVars, hbVars, connections, baseQ, ioQ, job,
                   reported, lateSend, crashed>>

\* Thirty seconds without a heartbeat.
GoStale(c) ==
    /\ context[c]
    /\ ~stale[c]
    /\ stale' = [stale EXCEPT ![c] = TRUE]
    /\ UNCHANGED <<state, chanVars, sockVars, context, sweep, connections, baseQ, ioQ, job,
                   peer, reported, lateSend, crashed>>
-----------------------------------------------------------------------------
IoFunctor(c) ==
    ConnectEstablished(c) \/ ForceCloseInLoop(c) \/ ConnectDestroyed(c) \/ SendInLoop(c)

BaseFunctor == \E c \in Conn : RemoveConnectionInLoop(c)

JobStep(j) == SendTest(j) \/ SendQueue(j)

Next ==
    \/ BaseFunctor
    \/ HeartBeatCheck
    \/ \E c \in Conn :
         \/ NewConnection(c) \/ HeartBeatVisit(c) \/ IoFunctor(c)
         \/ CloseEvent(c) \/ HeartBeatMessage(c) \/ HandleWrite(c) \/ GoStale(c)
         \/ \E j \in Job : Message(c, j)
         \/ \E how \in {"fin", "gone"} : PeerLeaves(c, how)
    \/ \E j \in Job : JobStep(j)

Spec == Init /\ [][Next]_vars

\* The loops run their functors and look at their channels (the base loop between
\* two checks of its timer, EventLoop.cc:73-85, hence SF), the check is on a timer,
\* its pass ends, pool threads run, and no heartbeat comes from a client that has
\* vanished.  Clients need not send, close or fall silent.
Fairness ==
    /\ SF_vars(BaseFunctor)
    /\ WF_vars(HeartBeatCheck)
    /\ \A c \in Conn :
         /\ WF_vars(HeartBeatVisit(c))
         /\ WF_vars(IoFunctor(c))
         /\ WF_vars(CloseEvent(c))
         /\ WF_vars(peer[c] = "gone" /\ GoStale(c))
    /\ \A j \in Job : WF_vars(JobStep(j))

FairSpec == Spec /\ Fairness
-----------------------------------------------------------------------------
\* The shape of a connection, its channel, the server's map, the loops' queues and
\* the pool; the check visits only connections that the server still has
\* (Service.cc:170-171 iterates over the map on the base loop).
TypeOK ==
    /\ state \in [Conn -> {"none", "kConnecting", "kConnected", "kDisconnecting", "kDisconnected"}]
    /\ index \in [Conn -> {"kNew", "kAdded", "kDelete"}]
    /\ events \in [Conn -> SUBSET {"read", "write"}]
    /\ outputBuffer \in [Conn -> BOOLEAN]
    /\ context \in [Conn -> BOOLEAN]
    /\ stale \in [Conn -> BOOLEAN]
    /\ connections \subseteq Conn
    /\ baseQ \in Seq(BaseFunctors)
    /\ ioQ \in [IoLoop -> Seq(IoFunctors)]
    /\ sweep \subseteq connections
    /\ job \in [Job -> {NoJob} \cup [at : {"queued", "tested"}, conn : Conn]]
    /\ peer \in [Conn -> {"open", "fin", "gone"}]
    /\ shutWrite \in [Conn -> BOOLEAN]
    /\ reported \in [Conn -> {"new", "up", "down"}]
    /\ lateSend \in [Conn -> BOOLEAN]
    /\ crashed \in BOOLEAN

\* The connection will be destroyed: removeConnectionInLoop or connectDestroyed
\* is pending and holds it.
Closing(c) ==
    InQueue("removeConnectionInLoop", c, baseQ) \/ InQueue("connectDestroyed", c, ioQ[LoopOf[c]])

\* The functor that forceClose queues captures a bare this (TcpConnection.cc:214);
\* whoever closes the connection in the meantime, its owner outlives the functor:
\* the server still has it, or is to remove it, or destroys it later in the queue.
ForceCloseOutlived ==
    \A c \in Conn : LET q == ioQ[LoopOf[c]] IN
        \A i \in DOMAIN q : q[i] = Functor("forceCloseInLoop", c) =>
            \/ c \in connections
            \/ InQueue("removeConnectionInLoop", c, baseQ)
            \/ \E k \in DOMAIN q : k > i /\ q[k] = Functor("connectDestroyed", c)

\* epoll holds a bare Channel* (Epoller.cc:68-116).  It is the channel of a
\* connection that the server has or is about to destroy, although a second
\* close adds a deleted channel again (TcpConnection.cc:117-122, 230-237), unless
\* a send that was tested before the connection went has run after it.
RegisteredIsOwned ==
    \A c \in Conn : index[c] = "kAdded" /\ ~lateSend[c] => c \in connections \/ Closing(c)

\* A connection that is up and no longer read is being taken down: no connection
\* stays in the server's map deaf to its client (TcpConnection.cc:117-122, 208-237).
DeafIsClosing ==
    \A c \in Conn :
        (state[c] \in {"kConnected", "kDisconnecting"} /\ "read" \notin events[c]) => Closing(c)

(* What makes them inductive. *)

\* The IO loop has begun to serve the connection.
Begun(c) == state[c] \notin {"none", "kConnecting"}

\* connectEstablished is queued once, and nothing comes before it.
Established ==
    \A c \in Conn : LET q == ioQ[LoopOf[c]] IN
        \A i \in DOMAIN q : q[i] = Functor("connectEstablished", c) =>
            /\ state[c] = "kConnecting"
            /\ \A k \in DOMAIN q : q[k] = q[i] => k = i

NothingBefore ==
    \A c \in Conn : ~Begun(c) =>
        /\ index[c] = "kNew" /\ ~Closing(c)
        /\ \A f \in {"forceCloseInLoop", "sendInLoop"} : ~InQueue(f, c, ioQ[LoopOf[c]])
        /\ \A j \in Job : job[j].at # "idle" => job[j].conn # c

\* The server has a connection until it destroys it.
Held ==
    \A c \in Conn :
        state[c] \in {"kConnecting", "kConnected", "kDisconnecting"} =>
            c \in connections \/ Closing(c)

\* What the callback has reported is what state_ has become.
Reported ==
    \A c \in Conn : /\ reported[c] = "new" <=> ~Begun(c)
                    /\ reported[c] = "down" <=> state[c] = "kDisconnected"

\* The shape of the state and what the steps of a connection's life owe to each other.
TcpInv == TypeOK /\ Established /\ NothingBefore /\ Held /\ Reported

\* The connection callback's reports follow the promised life cycle
\* (TcpServer.cc:59, 75; TcpConnection.cc:34-42, 230-237): up once, then down.
Life == INSTANCE ConnectionLife WITH phase <- reported
ImplementsLife == Life!LSpec

\* state_ goes forward only, although the base loop's forceClose and the IO
\* loop's handlers both assign it (TcpConnection.cc:34-36, 208-213, 230-233).
Rank(st) == CASE st = "none" -> 0 [] st = "kConnecting" -> 1 [] st = "kConnected" -> 2
              [] st = "kDisconnecting" -> 3 [] st = "kDisconnected" -> 4
StateForward == [][\A c \in Conn : Rank(state[c]) <= Rank(state'[c])]_state

\* A client that closes or vanishes is reported down in the end, by its FIN or by
\* the heartbeat check (Service.cc:92-114, 166-181), unless the process dies.
LeaverIsReported ==
    \A c \in Conn : (peer[c] # "open") ~> (reported[c] = "down" \/ crashed)
=============================================================================
