------------------------------- MODULE Connector -------------------------------
(***************************************************************************)
(* mylib::Connector (src/netlib/reactor/Connector.cc) under the TcpClient  *)
(* of one connection of the chat client: Neter's, whose owner waits for it *)
(* in another thread, or a file transfer's, which runs its own loop.       *)
(*                                                                         *)
(* The loop's thread takes all of the steps but the owner's; the kernel    *)
(* decides an attempt, the server listens or does not, and time passes     *)
(* between any two steps.  A retry timer is the time that it still has to  *)
(* run; that it runs is what module TimerQueue shows.  The delays never    *)
(* shrink, so the timers expire in the order in which they were set.       *)
(* stop, disconnect and restart are called by nobody: retry_ stays false.  *)
(***************************************************************************)
EXTENDS Integers, Sequences

CONSTANTS InitDelay, MaxDelay       \* kInitRetryDelayMs and kMaxRetryDelayMs

ASSUME DelayAssumption ==
    InitDelay \in Nat \ {0} /\ MaxDelay \in Nat /\ InitDelay <= MaxDelay

VARIABLES
    owner,      \* how far Neter::start, or FtpClient's constructor, is
    state,      \* state_
    delay,      \* retryDelayMs_
    retries,    \* the timers that will call startInLoop, oldest first
    channel,    \* channel_: none, or one that epoll has, or that was removed
    sock,       \* what has become of the attempt on its descriptor
    sockets,    \* how many descriptors of attempts are open
    resets,     \* queued functors that reset channel_
    pc,         \* where the loop's thread stands
    active,     \* epoll has reported the loop's timers, whose handler is still to run
    revents,    \* what it has reported of the channel and is not yet handled
    conn,       \* the TcpConnection made of the socket
    listening,  \* the server is there
    gaveUp,     \* history: connect() failed with an error that is not retried
    wild        \* history: a Channel was destroyed that epoll knows, or in its own handler

connectorVars == <<owner, state, delay, retries, channel, sock, sockets, resets, pc, active,
                   revents, conn, listening, gaveUp, wild>>

Later(a, b)  == IF a >= b THEN a ELSE b
Sooner(a, b) == IF a <= b THEN a ELSE b
-----------------------------------------------------------------------------
\* state_ is left out of the constructor's initialisers.
ConnectorInit ==
    /\ owner \in {"neter", "transfer"}
    /\ state \in {"disconnected", "connecting", "connected"}
    /\ delay = InitDelay
    /\ retries = <<>>
    /\ channel = "none" /\ sock = "none" /\ sockets = 0 /\ resets = 0
    /\ pc = "poll" /\ active = FALSE
    /\ revents = {}
    /\ conn = "none"
    /\ listening \in BOOLEAN
    /\ gaveUp = FALSE /\ wild = FALSE

\* channel_.reset(...) destroys the channel that is there.
Destroyed == wild \/ channel = "added" \/ (channel # "none" /\ revents # {})

\* connecting(sockfd)
Connecting ==
    /\ state' = "connecting"
    /\ channel' = "added" /\ sock' = "trying"
    /\ sockets' = sockets + 1
    /\ wild' = Destroyed
    /\ UNCHANGED <<delay, gaveUp>>

\* retry(sockfd), with the timers that are set and the descriptors left open.
Retry(timers, open) ==
    /\ sockets' = open
    /\ state' = "disconnected"
    /\ retries' = Append(timers, delay)
    /\ delay' = Sooner(2 * delay, MaxDelay)

\* startInLoop and connect, with the timers that are set: the attempt is under way; it
\* is refused at once, to be retried; or it fails with an error that is only logged
\* (Connector.cc:70-84).
StartInLoop(timers) ==
    \/ Connecting /\ retries' = timers
    \/ ~listening /\ Retry(timers, sockets) /\ UNCHANGED <<channel, sock, gaveUp, wild>>
    \/ /\ gaveUp' = TRUE /\ retries' = timers
       /\ UNCHANGED <<state, delay, channel, sock, sockets, wild>>

\* removeAndResetChannel: out of epoll now, and destroyed by a functor.
RemoveAndResetChannel ==
    /\ channel' = "removed"
    /\ resets' = resets + 1
    /\ UNCHANGED wild
-----------------------------------------------------------------------------
(* The owner. *)

\* TcpClient::connect: Neter's hands startInLoop to the loop, a transfer calls it.
ConnectNeter ==
    /\ owner = "neter"
    /\ owner' = "queued"
    /\ UNCHANGED <<state, delay, retries, channel, sock, sockets, resets, pc, active, revents, conn,
                   listening, gaveUp, wild>>

ConnectTransfer ==
    /\ owner = "transfer"
    /\ StartInLoop(retries)
    /\ owner' = "looping"
    /\ UNCHANGED <<resets, pc, active, revents, conn, listening>>

\* connCond_.wait returns.
Connected ==
    /\ owner = "waiting"
    /\ conn # "none"
    /\ owner' = "connected"
    /\ UNCHANGED <<state, delay, retries, channel, sock, sockets, resets, pc, active, revents, conn,
                   listening, gaveUp, wild>>
-----------------------------------------------------------------------------
(* The loop. *)

\* Seeded bug: the channel is enabled for reading, as a connection's is.
ReportedFailure ==
    IF channel = "added" /\ sock = "failed" THEN {"err", "out"} ELSE {}

\* What epoll_wait says of the channel, which is enabled for writing.
Reported ==
    IF channel # "added" THEN {}
    ELSE CASE sock = "failed" -> {"err", "out"}
           [] sock \in {"up", "self"} -> {"out"}
           [] OTHER -> {}

Expired == retries # <<>> /\ Head(retries) = 0

\* epoll_wait; it may return for the wakeup or the poll's timeout alone.
Poll ==
    /\ pc = "poll" /\ owner \notin {"neter", "transfer"}
    /\ revents' = Reported
    /\ active' = Expired
    /\ pc' = "events"
    /\ UNCHANGED <<owner, state, delay, retries, channel, sock, sockets, resets, conn,
                   listening, gaveUp, wild>>

\* handleError, of whatever state_.
HandleError ==
    /\ pc = "events" /\ "err" \in revents
    /\ RemoveAndResetChannel
    /\ Retry(retries, sockets - 1)
    /\ sock' = "none"
    /\ revents' = revents \ {"err"}
    /\ UNCHANGED <<owner, pc, active, conn, listening, gaveUp>>

\* Seeded bug: handleWrite does not look at state_.
HandleWriteUnguarded ==
    /\ pc = "events" /\ revents = {"out"}
    /\ RemoveAndResetChannel
    /\ \/ sock # "up" /\ Retry(retries, sockets - 1) /\ UNCHANGED conn
       \/ /\ sock = "up"
          /\ state' = "connected" /\ conn' = "up" /\ sockets' = 0
          /\ UNCHANGED <<delay, retries>>
    /\ sock' = "none"
    /\ revents' = {}
    /\ UNCHANGED <<owner, pc, active, listening, gaveUp>>

\* handleWrite: nothing if handleError has been here before; a retry if the socket has
\* an error by now or is connected to itself; or newConnection takes the socket.
ConnectorHandleWrite ==
    /\ pc = "events" /\ revents = {"out"}
    /\ \/ /\ state # "connecting"
          /\ UNCHANGED <<state, delay, retries, channel, sock, sockets, resets, conn, wild>>
       \/ /\ state = "connecting" /\ sock \in {"failed", "self"}
          /\ RemoveAndResetChannel
          /\ Retry(retries, sockets - 1)
          /\ sock' = "none"
          /\ UNCHANGED conn
       \/ /\ state = "connecting" /\ sock = "up"
          /\ RemoveAndResetChannel
          /\ state' = "connected" /\ conn' = "up" /\ sock' = "none"
          /\ sockets' = sockets - 1
          /\ UNCHANGED <<delay, retries>>
    /\ revents' = {}
    /\ UNCHANGED <<owner, pc, active, listening, gaveUp>>

\* TimerQueue::handleRead runs the retry timer that has expired.
RetryTimer ==
    /\ pc = "events" /\ active
    /\ active' = FALSE
    /\ StartInLoop(Tail(retries))
    /\ UNCHANGED <<owner, resets, pc, revents, conn, listening>>

\* handleClose on the connection: TcpClient::removeConnection, which does not restart.
RemoveConnection ==
    /\ pc = "events" /\ conn = "up"
    /\ conn' = "removed"
    /\ UNCHANGED <<owner, state, delay, retries, channel, sock, sockets, resets, pc, active,
                   revents, listening, gaveUp, wild>>

BeginFunctors ==
    /\ pc = "events" /\ ~active /\ revents = {}
    /\ pc' = "functors"
    /\ UNCHANGED <<owner, state, delay, retries, channel, sock, sockets, resets, active,
                   revents, conn, listening, gaveUp, wild>>

\* The functor that Neter's owner has queued.
StartFunctor ==
    /\ pc = "functors" /\ owner = "queued"
    /\ owner' = "waiting"
    /\ StartInLoop(retries)
    /\ UNCHANGED <<resets, pc, active, revents, conn, listening>>

\* The functor of removeAndResetChannel.
ResetFunctor ==
    /\ pc = "functors" /\ resets > 0
    /\ resets' = resets - 1
    /\ channel' = "none"
    /\ wild' = Destroyed
    /\ UNCHANGED <<owner, state, delay, retries, sock, sockets, pc, active, revents, conn,
                   listening, gaveUp>>

\* connectDestroyed calls onConnection, which ends the process or quits the loop.
DownFunctor ==
    /\ pc = "functors" /\ conn = "removed"
    /\ conn' = "down"
    /\ pc' = "exited"
    /\ UNCHANGED <<owner, state, delay, retries, channel, sock, sockets, resets, active,
                   revents, listening, gaveUp, wild>>

\* The pass ends once what the handlers have queued before it has run.
EndFunctors ==
    /\ pc = "functors" /\ resets = 0 /\ conn # "removed"
    /\ pc' = "poll"
    /\ UNCHANGED <<owner, state, delay, retries, channel, sock, sockets, resets, active,
                   revents, conn, listening, gaveUp, wild>>
-----------------------------------------------------------------------------
(* The kernel, the server and the clock. *)

\* An attempt ends: the server has accepted it, it has failed, or the socket has been
\* connected to itself.
Decide ==
    /\ sock = "trying"
    /\ sock' \in IF listening THEN {"up"} ELSE {"failed", "self"}
    /\ UNCHANGED <<owner, state, delay, retries, channel, sockets, resets, pc, active,
                   revents, conn, listening, gaveUp, wild>>

\* The server comes and goes; with it goes a connection that nobody has seen yet.
Listen ==
    /\ listening' = ~listening
    /\ sock' = IF listening /\ sock = "up" THEN "failed" ELSE sock
    /\ UNCHANGED <<owner, state, delay, retries, channel, sockets, resets, pc, active,
                   revents, conn, gaveUp, wild>>

Tick ==
    /\ retries' = [i \in DOMAIN retries |-> Later(retries[i] - 1, 0)]
    /\ UNCHANGED <<owner, state, delay, channel, sock, sockets, resets, pc, active, revents,
                   conn, listening, gaveUp, wild>>

LoopStep ==
    \/ Poll \/ HandleError \/ ConnectorHandleWrite \/ RetryTimer \/ BeginFunctors
    \/ StartFunctor \/ ResetFunctor \/ DownFunctor \/ EndFunctors

OwnerStep == ConnectNeter \/ ConnectTransfer \/ Connected

ConnectorNext == OwnerStep \/ LoopStep \/ RemoveConnection \/ Decide \/ Listen \/ Tick

ConnectorSpec == ConnectorInit /\ [][ConnectorNext]_connectorVars

\* The threads are scheduled, a functor is run by a pass that begins after it was queued,
\* an attempt ends some time, and time passes.  Nothing is assumed of the server.
ConnectorFairness ==
    /\ WF_connectorVars(OwnerStep)
    /\ WF_connectorVars(LoopStep)
    /\ SF_connectorVars(StartFunctor)
    /\ WF_connectorVars(Decide)
    /\ WF_connectorVars(Tick)

ConnectorFairSpec == ConnectorSpec /\ ConnectorFairness
-----------------------------------------------------------------------------
ConnectorTypeOK ==
    /\ owner \in {"neter", "transfer", "queued", "looping", "waiting", "connected"}
    /\ state \in {"disconnected", "connecting", "connected"}
    /\ delay \in Nat /\ InitDelay <= delay /\ delay <= MaxDelay
    /\ retries \in Seq(Nat)
    /\ channel \in {"none", "added", "removed"}
    /\ sock \in {"none", "trying", "up", "failed", "self"}
    /\ sockets \in Nat /\ resets \in Nat
    /\ pc \in {"poll", "events", "functors", "exited"}
    /\ active \in BOOLEAN
    /\ revents \in {{}, {"out"}, {"err", "out"}}
    /\ conn \in {"none", "up", "removed", "down"}
    /\ listening \in BOOLEAN /\ gaveUp \in BOOLEAN /\ wild \in BOOLEAN

\* The connector is never idle and never doubled (Connector.cc:88-175): once it has been
\* started there is exactly one attempt under way, or one timer for the next, or the
\* connection, or an error that ended it, and no descriptor is open but the attempt's.
Started == owner \notin {"neter", "transfer", "queued"}
OneAttempt ==
    /\ sockets = IF channel = "added" THEN 1 ELSE 0
    /\ Len(retries) <= 1
    /\ channel = "added" => Started /\ retries = <<>> /\ conn = "none" /\ ~gaveUp
    /\ retries # <<>> => Started /\ conn = "none" /\ ~gaveUp
    /\ conn # "none" => Started /\ ~gaveUp
    /\ Started => channel = "added" \/ retries # <<>> \/ conn # "none" \/ gaveUp

\* No Channel is destroyed that epoll would still report, nor one whose handler is
\* running (Connector.cc:88-97, 167-175).
ChannelOutlives == ~wild

\* What the steps of a pass owe to each other.
Passes ==
    /\ channel = "added" <=> sock # "none"
    /\ channel = "added" => resets = 0 /\ state = "connecting" /\ ~active
    /\ revents = {"out"} /\ channel # "added" => state = "disconnected"
    /\ revents = {"err", "out"} => channel = "added"
    /\ revents # {} => pc = "events" /\ channel # "none" /\ ~active
    /\ active => pc = "events" /\ Expired /\ resets = 0
    /\ ~Started => resets = 0 /\ ~gaveUp
    /\ pc = "poll" => resets = 0 /\ channel # "removed"
    /\ channel = "removed" <=> resets = 1
    /\ resets <= 1

ConnectorInv == ConnectorTypeOK /\ OneAttempt /\ ChannelOutlives /\ Passes

\* If the server is there for good, a client that has begun to connect is connected, or
\* an error that is not retried has ended it (Connector.cc:47-117).
Reaches ==
    (<>[]listening /\ <>Started) => <>(conn # "none" \/ gaveUp)
=============================================================================
