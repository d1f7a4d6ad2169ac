# WeeeChatroom in TLA+

A model-checked and partly proved description of WeeeChatroom: a chat server
(`src/server`) on a reactor library of its own (`src/netlib`), with MySQL and
Redis behind it and a terminal client (`src/client`) in front. The modules are
translated from the code; file and line numbers refer to the repository.

Check a run with `tlc -config <run>.cfg <MC module>`, a proof module with
`tlapm <module>.tla`. `PROJECT.json` lists components, runs, the seeded bugs
that every property must find, the source lines behind every definition,
findings, hazards and theorems.

## 1. The system

```
 client  --TCP, length-prefixed JSON-->  TcpServer: base loop + 4 IO loops
                                              | onMessage
                                              v
                              Service: threadPool_ (8), chatThreadPool_ (24)
                                              | one handler per message
                       table of online users  |  MySQL tables   Redis lists and sets
                       (onlienUsersMutex_)    |  <---- every 2 s, base loop ----
```

`main.cc` starts a server with four IO loops. The base loop accepts
connections, removes closed ones, looks for silent clients every 20 seconds and
moves cached messages from Redis to MySQL every 2. An IO loop reads frames; a
heartbeat is handled there, everything else becomes a task of a thread pool.
Handlers read and write the table of online users, MySQL and Redis, and answer
with `TcpConnection::send`, which queues a functor on the connection's loop.
A file server runs on a loop of its own.

| component | state | operations | what is hard | correct when |
|---|---|---|---|---|
| EventLoop, EventLoopThread | pending functors, eventfd, `quit_` | `loop`, `queueInLoop`, `quit` | pushes and quits race with the loop's poll and swap | no wakeup or quit is lost; functors run once, in order |
| TimerQueue | ordered set of timers, timerfd | `addTimer`, `handleRead`, `reset` | timers added from callbacks and other threads, callbacks longer than an interval, a clock that lags | the descriptor is always set for the earliest timer; each runs |
| TcpServer, TcpConnection, Channel, Epoller | connections, `state_`, registered events, buffers | accept, callbacks, `send`, `forceClose`, removal | three threads; bare pointers in functors and in epoll; two ways to close | up once, then down; nothing outlives its owner |
| Connector, TcpClient | state, delay, channel | connect, retry, new connection | error and writable event of one failed attempt; a Channel reset from its own handler | one attempt or one retry at a time; a connection once the server stays |
| Service, Loginer, Chatter | table of online users, offline lists | login, delivery, disconnection, password reset | check-then-act across tasks; the callback overtakes tasks | no message lost, doubled or misdelivered |
| message cache | Redis lists, MySQL tables | push, timer flush, group dissolution, start | crash between INSERT and trim; a batch that MySQL refuses | the tables are the pushes in order; a crash only repeats |
| friends, groups, accounts | MySQL tables, their Redis copies, black lists | fourteen handlers | no transactions, no checks of success, foreign keys | copy and table agree; one owner; removed is removed |
| registration, MySQL pool | codes in Redis with an expiry, accounts, the mail's text, free connections | send a code, acknowledge, reset a password; borrow, return | expiry between two reads; two acknowledgements; a position shared by all mails; nested borrows | a code is good once, an address has one account; somebody can always go on |
| file server, Sendfile, FtpClient | transfers, offsets, descriptors | upload, download | short writes, resets, numbers given out again, files that change | a file is listed whole or not at all; a transfer ends |
| client: screens, rendezvous | `state_`, waiters with `ready` flags, lists, open requests | request, answer, list updates, panel | one flag for all requests of a waiter; lists rebuilt by another thread; locks held while the user thinks | the answer is the request's own; the user is asked again |
| client: chats | logs, log files, unread marks, the screen | open, send, scroll, incoming message, history | tests of `state_` and marks one after the other; a print pool that keeps the last task only | the screen shows the log; a message was shown or is marked |
| EventLoopThreadPool, Buffer, ThreadPool's end, Acceptor, sockets, Logger, Timestamp | - | thin wrappers, sequential data, output | - | see section 5 |

## 2. Modules

| module | models | state |
|---|---|---|
| `Executor` | what an event loop promises: one at a time, first in first out | abstract |
| `EventLoop` | `netlib/reactor/EventLoop.cc`, `EventLoopThread.cc` | 12 variables |
| `TimerQueue` | `netlib/reactor/TimerQueue.cc` | 10 |
| `ConnectionLife` | what the connection callback promises: new, up, down (perhaps again) | abstract |
| `TcpConnection` | `TcpConnection.cc`, `TcpServer.cc`, the channel states of `Epoller.cc`, the heartbeat check of `Service.cc` | 16 |
| `Connector` | `Connector.cc`, `TcpClient.cc`, `client/Neter.cc`'s start | 15 |
| `ChatSession` | the table of online users, `Loginer`, `Chatter`, `PasswordFindAcker` | 12 |
| `History` | what the cache promises: a log that a crash may repeat | abstract |
| `MessageCache` | `insertFromRedis`, the pushes of `Chatter` and `GroupChatter`, `GroupExiter`'s dissolution, `AccountKiller`'s last statement, `initCache` | 13 |
| `Relations` | `Friend.cc`, `Group.cc`, `AccountKiller` | 7 |
| `Registration` | `Register.cc`, the borrowing of `MySQLConn.cc`, the workers | 17 |
| `FileTransfer` | `server/handler/File.cc`, `client/service/FileService.cc`, `netlib/reactor/Sendfile.h` | 15 |
| `Client` | `Controller.cc`'s screens, the waiters of `base.h`, the handlers of `client/service` that answer or fill a list | 12 |
| `ChatView` | the chat part of `Controller.cc`, `ChatService.cc`, the print pool | 19 |
| `MC...` | the instances for TLC | |
| `Selection` | the entries at some places of a sequence: `SelectSeq` without recursion, for `MessageCache` and `Client` | operators |
| `...Proofs` | theorems; those about `ChatSession` and `ChatView` are in `ChatProofs`, those about `TimerQueue` in `TcpConnectionProofs`, those about `Connector` in `FileTransferProofs`, and those about `Registration` and `Relations`, the server's handlers, in `HandlerProofs` (section 4) | |

How they fit together.

- `EventLoop` implements `Executor`. `TcpConnection` uses the loops as executors:
  its queues `baseQ` and `ioQ` are taken from the head, one functor at a time.
  `TimerQueue`'s `addTimerInLoop` and `Connector`'s functors run as such a loop
  runs them.
- `Connector`'s retries are numbers that count down to zero; that a timer of the
  loop runs when it is due is what `TimerQueue` shows.
- `TcpConnection` implements `ConnectionLife`, and `ChatSession` takes exactly
  that life for its connections, in particular that the callback may report a
  connection down twice.
- `ChatSession`'s variable `cache` is the list that `MessageCache` begins with, and
  `MessageCache` implements `History` on the way from there into MySQL.
- `Relations` takes the friends that `ChatSession` has as a constant through
  their changes, and the dissolution that `MessageCache` looks at from the side of
  the messages. `PasswordFindAcker` is split: what it does to codes and accounts is
  in `Registration`, what it does to the table of online users in `ChatSession`.
- `Client` and `ChatView` split the client: `Client` has every screen, waiter and
  list and no chat contents, `ChatView` the open chat and no other screen.
  `FileTransfer` has the transfers whose beginning is an operation of `Client` and
  whose end an announcement in both.

### State and actions

*EventLoop.* A step is one access to shared state. `pendingFunctors`,
`callingPendingFunctors`, `quit`, `looping` are the members of the class;
`functors` is the local vector of `doPendingFunctors`, `wakeupFd` whether the
eventfd's counter is positive, `active` whether `poll` has reported it. `pc` is
the loop thread's place; `post[th]` says that a thread has pushed and not yet
decided on the wakeup. The owner quits and joins the loop as `~EventLoopThread`
does, or leaves it to a callback to quit, as the file client does
(`client/service/FileService.cc:48`). `quit_` is a plain `bool` that two threads
use; the model treats an access as atomic, as the builds do.
`callingPendingFunctors_` is not initialised, so `Init` leaves it open.

*TimerQueue.* Times are relative: `due[t]` is how far a timer's expiration lies
ahead and `timerfd` how far the kernel's does, and a `Tick` brings all of them
nearer. `life` is the way of a Timer object from its creation over a functor of
another thread into the set `timers`; `toRun`, `ran`, `current` are the local
vector of `handleRead`, whose callbacks are steps of their own during which time
passes and timers are added. `since` is the age of `now`, which `reset` uses again
to restart a timer. `Lag` lets the wall clock fall behind the kernel's, so that the
descriptor is readable before anything has expired.

*TcpConnection.* `state` is `state_`, `index` and `events` are the channel's
registration, `outputBuffer` whether something is queued, `context`/`stale` the
heartbeat context and whether it is 30 seconds old, `connections` the server's
map, `job` a pool task that holds a connection and answers, `sweep` what
`heartBeatCheck` has still to visit. `forceClose` and `send` queue functors that
hold a bare `this`; `SendInLoop` on a connection that is gone may do anything,
a crash included. Casting a context that is not set yet throws out of the base
loop: `crashed`. `state_` is read and written without synchronisation; an access
is atomic here. Accepting is one step with its functor, descriptors are not
counted.

*Connector.* `state` is `state_`, `delay` the next retry's, `retries` the timers
that will call `startInLoop`. `channel` is what `channel_` holds and whether epoll
knows it; `sock` what the kernel has made of the attempt, `revents` what epoll has
reported and is not yet handled. `HandleError` and `HandleWrite` may both follow one
report, as `Channel::handleEvent` calls them; the functor of
`removeAndResetChannel` is a member of `resets`. `owner` is `Neter::start`, which
waits on another thread, or the constructor of a file transfer, which runs its own
loop. `wild` records a Channel destroyed while epoll has it or in its own handler.

*ChatSession.* A task is one step per hold of the mutex and per Redis command.
`login[j]` goes through `queued, verified, inserted, replied, drain, pop, send`;
`Chatter` is `ChatLookup` (friend test and lookup), `ChatDeliver` (second friend
test, send or `lpush`), `ChatStore`. `handed` and `dropped` record what `send`
does with a message, `session` as whom a connection was answered.

*MessageCache.* Each Redis command and SQL statement is a step. `list` are the
two lists, `rows` the two tables, `flush` where `insertFromRedis` stands.
`GroupChatter` pushes once for every member, as the push stands inside the loop
(`Chat.cc:98`), so a group message has as many rows as members. `Crash` loses all
tasks and keeps Redis and MySQL; `Restart` begins `initCache`, which reads
`group_members` and fills Redis later, beside the running server. `InsertFails`
is a statement without effect; a commit whose reply is lost is not modelled.
`Storable` is what the two foreign keys of `group_messages` ask for (`init.sql:117-118`):
the group's row, which `GroupExiter` deletes, and the sender's, which `DeleteUser`, the
end of `AccountKiller`, does. Who is in a group's set is left to `Relations`; a message
may be refused at any time.

*Relations.* A handler is a program. What it reads in the beginning is one step
(`FriendAdder`, `GroupExiter`, ...) that puts the commands of its chosen branch
in the worker's `todo`; `Execute` runs them one at a time. A statement that
breaks a foreign key of `init.sql` changes nothing (`Statement`). `Offered` says
which requests a client's menus allow, `inbox` is what it has been sent to
answer, `Forward` reaches a client or not (online or not), `Login` sends the
pending requests again. `GroupAdder` becomes one `ask` for each admin and each of these
a forward and an insertion, the order of its loop; `AccountKiller` becomes the exits from
the user's own groups and twelve statements, two of which (`unfriend`, `ungroup`) become
loops when their turn comes. `clash` collects the friendships and memberships that two
tasks worked on at one time, `died` says that a handler took row 0 of an empty result,
after which nothing happens.

*Registration.* `at[t]` is a task's place; a step is a Redis command, a statement, a
wait for a connection or one call of curl for the text of a mail. `code` and `ttl`
are Redis's hash and its expiry, which `Expired` may let happen at any time once it
is set; `pos` is the static variable of `payload_source`, `whole` how often curl got
a mail's text from its head. `users`, `links`, `password` are what `inputAccount` and
`Befriend` write in six places; MySQL may refuse a reset's `Update`, which
`unheeded`, a history variable, records. `held` counts a task's connections, so that `Free`
is the size of the pool less their sum; `OtherTask`s stand for all the other
handlers and borrow up to `Depth`. `met` and `used` are history variables: who ran
with whom, and whose code let whom in.

*FileTransfer.* A transfer is a sender, a receiver and the connection between.
`offset` and `written` are the two sides' counters, `wire` what lies between,
`stored` and `alien` how much of the transfer, and of others, is in the receiver's
file. Every `sendfile` and `splice` is a step and may move less than asked for.
The receiver closes its descriptors when the size is reached and stays in the loop
of `recvFileData`; `heir` is the transfer to which the process has given the number
since. `busy` says which handler a thread is in: the server's loop serves several
transfers, and a handler goes round until its call would block.

*Client.* A screen is a program: `todo` is what the main thread has still to do,
one operation a step, and `Choices` replaces its head by the program that the user or
an answer chooses. `ready` and `pending` are the waiters' flag and the requests open
on them, `filling` the list that a handler has cleared and not yet filled, `holder`
the two list mutexes. `online` says whether the server finds the user in its table,
without which it sends no list, asked for or not; while it does, a list of friends or
groups may come at any time without a request, to the same handler. `unasked`, a history
variable, has the lists that did, until a request of theirs has found its own answer
taken in. `requests` are the lists of friend and group requests that
handlers add to and remove from, `picked` the list that the user was shown and the
number chosen.

*ChatView.* As in `Client`, `todo` is the main thread's program. `log`, `file` and
`unread` are the log in memory, the log file and the marks of each peer; `loop` is
the handler that the loop thread is in, with a step for each of the first test of
`state_`, the push into the log, the line in the file, the second test, the test of the
open chat, the mark, and the two halves of the flush. `task` is the print pool's queue,
of which `add_last_task` keeps the last task alone, and `screen` what was printed last.
`seen`, `crossed` and `excused` are history variables that name the races.

Definitions marked "Seeded bug" are not part of any specification. Each is a
plausible mistake in the definition after it, and the property paired with it in
`PROJECT.json` fails when it is put in that definition's place.

## 3. Runs

| run | instance | states | checks | shows |
|---|---|---|---|---|
| `EventLoop` | 2 producers, 3 functors | 37,042 | `TypeOK`, `NoLostWakeup`, `NoLostQuit`, `NothingRepeated`, `ImplementsExecutor`, `EveryFunctorRuns`, `QuitStopsLoop` | wakeups and quits are not lost, functors run once in order and without the poll timeout |
| `TimerQueue` | 3 timers with intervals 1, 2 and none | 3,611 | `TimerInv`, `EveryTimerRuns` | the descriptor is set for the earliest timer, none is lost, each runs |
| `Connector` | delays 1 to 3, any number of failures | 608 | `ConnectorInv`, `Reaches` | one attempt or retry at a time, no Channel destroyed in use, connected once the server stays |
| `Tcp` | 1 connection, 2 tasks, queues of 3 | 55,039 | `TcpInv`, `ForceCloseOutlived`, `RegisteredIsOwned`, `DeafIsClosing`, `ImplementsLife`, `StateForward`, `LeaverIsReported` | the bare pointer of `forceClose` is safe; epoll's is, but for a late send; nobody is left unread; a client that leaves is reported |
| `Chat` | 2 users, 2 connections, 2 logins, 1 message, 1 reset | 316,438 | `TypeOK`, `OnePlace`, `RightReader`, `CrashHasCause`, `LoginEnds`, `LoginDrains` | no message lost, doubled or given to another user; the ways to crash a login; what a login is owed |
| `ChatDoubleLogin` | the same without the reset | until violated | `SingleLogin` (violated) | the finding below |
| `CacheHistory` | 2 private messages, 1 group message of 1 sender to 3 members, batches of 2, 1 crash | 383,959 | `CacheInv`, `ImplementsHistory`, `CachedIsStored` | flushing is invisible but for the batch that a crash repeats; what waits is stored |
| `Relations` | 3 users, 1 group, 2 workers, 6 scenarios of 6 to 9 requests | 263,173 | `RelationsInv`, `Mutual`, `OneOwner`, `Removed` | copies and tables agree where no two tasks met; ownership; removal |
| `Registration` | 2 registrations and their codes, 1 reset, 2 other tasks, 2 workers, 5 connections, depth 3 | 2,068,924 | `RegistrationInv`, `NeverAllWaiting` | what a code, an address and a password are worth; the pool never waits for itself |
| `FileTransfer` | 2 uploads on one loop, one of a file that may change, 1 download on another | 161,068 | `TransferInv`, `EveryTransferEnds` | whole files alone are listed; transfers of files that keep still end |
| `Client` | 2 applicants for a group, one of them also for friendship, 2 requests of theirs, 1 upload to a group, 1 request a waiter, 1 list at a time unasked | 947,836 | `ClientInv`, `PickedIsAnswered`, `PromptReached` | answers are the request's own and the panel reads whole lists, but for lists that come unasked; the request that is answered is the one that was picked; the user is asked again, but after a list that the server does not send |
| `ChatView` | 2 friends, 1 group, 1 message of a friend, and 1 out or 1 history, logs and pages of 1 | 2,271,494 | `ViewInv`, `SeenOrUnread` | the screen shows the log, a message was shown or is marked, but for the races and pages that the properties name |

On two workers the longest runs, `Registration`, `CacheHistory`, `ChatView` and
`Client`, take between one and four minutes, `Chat` and `FileTransfer` about a minute,
the others less.

### Bounds

- `EventLoop`: two wakeups can overlap one read of the eventfd with two
  producers and the loop thread; of three functors one runs, one waits in the
  batch, one is pending. Functor identities are used once, which ends the state
  space. The theorems hold for any number of both.
- `TimerQueue`: an interval of one tick is shorter than a callback may take, one of
  two not always; the third timer does not repeat and is added by another thread.
  Nothing else is bounded: times are relative and never exceed the intervals.
- `Connector`: `MaxDelay` is reached after two failures; attempts, failures and the
  server's comings and goings are not bounded.
- `Tcp`: `MaxQueue = 3` limits how many functors wait for a loop before a client or
  the timer adds more (the steps of the server itself are not limited): a close, a
  second close and a send can stand behind each other in any order. Connections
  share nothing but the base loop's queue, the check and the map, whose steps
  for one connection leave the others alone; the theorems hold for any number.
- `Chat`: two connections of one user, or one of each, two logins whose drains share
  a list, and a message to the user of both, which is sent once.
- `CacheHistory`: the group's list is longer than a batch (3 entries, 2 at a
  time), so that a flush takes several rounds; one crash is `MaxCrashes`.
- `Relations`: each request at most once per behaviour and two workers (the
  server has eight), so at most two handlers overlap. A scenario is a set of
  requests in any order the menus allow; the six scenarios fire every action.
- `Registration`: two tasks run at one time while the others have run or wait, so
  that mails, acknowledgements with one code, and acknowledgements with one address
  and different codes all meet. `PoolSize = Workers * (Depth - 1) + 1` is the
  smallest pool for which waiting is harmless; the server's 32 connections and 8
  workers satisfy the same inequality (`8 * 2 < 32`).
- `FileTransfer`: files of one and two units, of which a connection holds one and a
  `splice` moves one, so that writes are short and handlers come back.
- `Client`: two applicants can be in a list, be removed, and come again, which is what
  a number that was picked depends on; `MaxRequests` is how many requests of applicants
  both lists have together, and `Asking` who makes them: one of the two also asks for
  friendship. `MaxPending = 1`: a waiter has one open request, as in the code but for
  `getFiles`, which is an exception of `AnswersAreOwn` anyway, and after a list that came
  unasked: its flag lets the next wait return early, and the main thread goes on, and may
  read the list, with the answer still to come; a further request of the waiter is put off
  until then. `MaxUnasked = 1`: one of the two lists at a time has come
  unasked, which one is free. The upload goes to a group, whose mutex is the second that
  the panel takes. `ClientSafe` and `PickedRight` are proved for any of these bounds.
- `ChatView`: a log is full with one message and a page with one, so that scrolling,
  eviction and the two page directions happen, and a message can be behind the newest
  page before it has been shown. Each message comes in live or, once asked for, as
  history. `MaxRequests = 1` is how often the user sends something to the server, a
  message or a request for history: the handlers that answer are what the races are
  with, and they do not tell a second request from a first. Each exception of the two
  properties is met in this instance: without any one of them the run fails. The
  theorems hold for messages of groups, longer logs and pages, and any number of
  requests.

Symmetry is used for the workers' tasks in `Registration` and `Relations` only, where
no liveness is checked.

### Fairness

Fairness is only assumed of the program's own threads and of what the operating
system does for them, and never of clients, of the user or of a server that may be
away.

- `EventLoop`: weak fairness of the loop thread's own steps, of a started
  `queueInLoop` and of the owner once it has begun to quit. Nothing is assumed of
  `PollOther`, so the 10 s poll timeout cannot hide a lost wakeup.
- `TimerQueue`: time passes and the loop's thread goes on; a wakeup comes when a
  functor is queued (what `EventLoop` shows), and the functor that adds a timer is
  taken, beside a handler that may find work every time (strong fairness).
- `Connector`: the loop's thread, its owner and the kernel's decision on an attempt
  go on, time passes, and the loop comes to its functors (strong fairness of
  `StartFunctor`). `Reaches` supposes that the server stays, which nothing forces.
- `Tcp`: weak fairness of functors, of close events, of the check and of pool
  tasks; strong fairness of the base loop's functors, which alternate with timer
  events in one thread; a client that has vanished goes stale, as its heartbeats
  have stopped.
- `Chat`: weak fairness of each task that has been taken by a worker; a
  login that another keeps refilling is still fair, as messages are finite.
- `CacheHistory`: the timer goes off again, a dead server is started again,
  pushes happen, and MySQL takes a batch that it can take if asked often enough
  (strong fairness of `Insert` for each table, since one flush serves two).
- `FileTransfer`: weak fairness of the client's threads, which serve one transfer
  each; strong fairness of an end that shares a loop, which epoll reports again.
- `Client`: the main thread, the handlers and an announcement go on, and the server
  answers or ignores what is asked. The answers have strong fairness, since they come on
  one connection in order, and no stream of lists that come unasked keeps one away. A
  user who is asked may never answer, and applicants, logins elsewhere and unasked lists
  may never come.
- `Relations`, `Registration`, `ChatView`: no liveness is claimed.

`CHECK_DEADLOCK FALSE` stands where the system may stop: a loop that has exited,
messages that are all sent, requests that are all made, transfers that are over, a
process that is dead, a client that waits for a list that is never sent. `TimerQueue`,
`Connector`, `CacheHistory` and `ChatView` never stop, and deadlock is checked there.

### Findings

*Two logins of one user* (`Login.cc:57`, `71-72`). The test for an entry in the
table and the insertion are two holds of the mutex; both logins are answered
with success where the second should get 3 ("已经登录", `Login.cc:34`), and the
first connection stays open without an entry.

### What the properties except

No document speaks of the following, so that they are conditions of the properties,
each at its line, and not findings.

- `CrashHasCause`: when the client goes, the password is reset or another login
  takes the place between the insertion and the answer, `getNicknameById("")` takes
  row 0 of nothing (`Login.cc:25`, `MySQLConn.cc:144-148`).
- `OnePlace`: a message that `Chatter` puts into the offline list after the
  receiver's login has drained it waits there for the next login, and one that is
  sent to a connection which is closing is dropped, though the history has it
  (`Chat.cc:25`).
- `CachedIsStored`: a message of a dissolved group, or of a sender whose account is
  destroyed before it is stored, makes every later batch of group messages fail
  (`Service.cc:247`, `init.sql:117-118`).
- `CacheInv`: a group that is dissolved while `initCache` runs comes back in Redis.
- `RelationsInv`, `Removed`: a request to leave, or a kick, of somebody who is not a
  member any more takes row 0 of an empty result (`Group.cc:220`, `260`); an account
  whose messages are stored for a group, or whose dissolved group has a request
  pending, is emptied and stays (`Group.cc:235`, `Login.cc:195`, both by foreign
  keys); an acceptance that overlaps a deletion or a dissolution leaves Redis and
  MySQL different, or a group without an owner.
- `OneOwner`: who is let in while a group is dissolved is a member of a group without
  an owner. He may be made an admin before, and then let others in himself, in tasks
  that overlap nobody's; so the clause about the owner's row leaves out a group any of
  whose memberships two tasks have worked on at a time (`Group.cc:96-99`).
- `RegistrationInv`: a code that expires, or that another acknowledgement deletes,
  between `hexists` and `hget` makes `verifyCode` dereference nothing
  (`Register.cc:82`); two mails sent at one time share their position in the text
  (`Register.cc:96`); two acknowledgements at one time may make two accounts of one
  address, or use one code twice; a reset whose `UPDATE` MySQL refuses, as of a
  password longer than `VARCHAR(64)` (`init.sql:9`, `Controller.cc:349`), changes no
  account and is answered with success (`Register.cc:237-240`).
- `TransferInv`, `EveryTransferEnds`: a file that changes while it is sent may end
  in another transfer's file, or keep a loop busy for ever; a download between the
  insertion of the row and the renaming ends in an error that closes nothing.
- `ClientInv`: `getFiles` does not reset its waiter (`FileService.cc:157-166`). Lists of
  friends and of groups are also sent unasked, to the same handlers
  (`Friend.cc:163-164`, `186-187`, `206-207`, `228-229`, `Group.cc:120-122`, `237-240`,
  `267-269`, `Login.cc:180-185`; `FriendService.cc:100-114`, `GroupService.cc:76-87`).
  The next wait then takes the flag of such a list for its answer, and the panel may
  read a list that a handler has cleared, since the handler takes no mutex. What a
  reading of a map in the middle of that returns is undefined; the model reads on, and
  `PanelReadsWhole` says when it can happen.
- `PromptReached`: `/s` leaves the history for a state without a screen; a user who is
  not in the server's table, as after a reset of his password, is not answered when he
  asks for friends or groups (`Friend.cc:21-23`, `Group.cc:153-155`), and waits on.
- `ViewInv`: crossing flushes end with the one added last. A log is changed without a
  flush by the announcement of a file, by a message of a friend while the chat with
  another is open, and by a handler that found the chat open (`ChatService.cc:65`,
  `139`) and pushes after the main thread has gone to the history and printed its way
  back (`/d`): at the second test the state is still `LOG_HISTORY`, the handler marks,
  and the main thread sets `CHAT_FRIEND` (`Controller.cc:506`) on a screen without the
  message.
- `SeenOrUnread`: a message is neither shown nor marked if its chat is entered or come
  back to between the two tests of its handler (`ChatService.cc:65`, `77`), if
  another is open by the time of its flush (`80`), if its flush leaves the printer's queue
  for one without it, if it leaves its sender's log unprinted, because that is full or
  is replaced by a page that was read before (`232`, `247`), or if the newest page, when it
  is read, does not reach back to it.
- `RegisteredIsOwned`: a functor of `send` that runs after the connection's
  destruction registers a channel that nobody owns (`TcpConnection.cc:140`).

## 4. Proofs

TLC checks the instances above; the theorems hold for every value of the
constants, under the modules' named assumptions (distinct model values, functions
of the right domain, positive bounds, and for the pool of connections the inequality
under Bounds).

| module | theorems | invariant it rests on |
|---|---|---|
| `EventLoopProofs` | `TypeCorrect`, `WakeupsAreNotLost`, `QuitsAreNotLost`, `NoFunctorTwice`, `LoopIsExecutor` | `TypeOK`, `WakeInv`, `OrderStep` |
| `TcpConnectionProofs` | `LivesAreSound`, `PointersAreOutlived`, `ChannelsAreOwned`, `DeafAreClosed`, `StatesGoForward`, `CallbackIsLife` | `LifeInv`, which says all four invariants of the run of one connection at a time |
| | `TimersArmed`, about `TimerQueue` | `TimerInv`, inductive as it stands |
| `ChatProofs` | `TypeCorrect`, `OnePlaceEach`, `ReadersAreRight`, `CrashesHaveCauses`, about `ChatSession` | `PlaceInv`, `ReaderInv`, `CauseInv` |
| | `ScreenShowsLog`, `MarkedOrShown`, about `ChatView` | `Sound`, the types and the place of the main thread; `Shown`; `HandlerHas` with `Accounted` |
| `SelectionProofs` | lemmas only: `RanksAreANumbering`, `EntryOfRank`, `SelectedIsSequence` | |
| `MessageCacheProofs` | `CacheIsHistory`, `CacheSafe` | `PrivateInv`: the types of the private messages, and `BatchStands`; `KeptInv` |
| `HandlerProofs` | `RegistrationSafe`, `NoPoolDeadlock`, about `Registration` | `RegistrationInv` with `Inductive`; `Loans` |
| | `CopyAgrees`, `FriendsAreMutual`, `CreatorsOwn`, `AccountGone`, about `Relations` | `RelInv`; `Farewell` |
| `ClientProofs` | `ClientSafe`, `PickedRight` | `MainInv` |
| `FileTransferProofs` | `FilesAreWhole` | `TransferInv` with `Inductive` |
| | `ConnectorSafe`, about `Connector` | `ConnectorInv` with `Passes` |

**EventLoopProofs.** `TypeOK` carries what each place of the loop thread implies, and
is inductive: the flag `callingPendingFunctors` is up during the whole pass, functors
exist only in a pass, the loop thread is inside `queueInLoop` only in a callback.
`WakeInv`, the conjunction of `NoLostWakeup` and `NoLostQuit`, is inductive on top of it
(both speak of the same eventfd, so one step lemma serves the two): a push is followed by
a write of the eventfd unless the pusher is the loop thread handling a channel, and then
the swap of the same iteration comes before the next poll, which is why the flag matters
only during the pass. For `NoFunctorTwice` the lemma `OrderStep` shows that a step
either appends an unused functor to `Submitted` (those run, then the batch, then the
pending ones) or leaves that sequence alone; the refinement of `Executor` follows from
the same lemma, with `executed` growing by the batch's head.

**TcpConnectionProofs.** None of the run's invariants is inductive. `TcpInv` adds to
the types that `connectEstablished` is the first functor of its connection and stands
in the queue once (`Established`, `NothingBefore`), that the map or a queued removal
holds the connection until it is destroyed (`Held`), and that
`state_` and what the callback has said go together (`Reported`). The proof is done for
one connection at a time (`ConnInv`), as a step changes one, with two lemmas about
queues: what appending and what taking the head leaves of them.
The module also extends `TimerQueue`, as the base loop has the timers. `TimerInv` says
where a timer is (`OnePlace`) and that, outside of its handler, the descriptor is never
later than the earliest timer (`Armed`). Within the handler nothing is promised, since
`reset` comes last: its step restores `Armed` from the set alone, whatever has been
added in between.

**ChatProofs.** *ChatSession:* `RightReader`, that a connection is given only messages for the
user who logged in on it, speaks of `session`, which is assigned long after the table
entry that sends messages, so it is not inductive. `Owns(c, u)` says that `u` is the user
of `c` already, or is about to be: a login task on `c` has put `u` in the table and not
yet answered. `ReaderInv` is the conjunction of `TableOwned` (an entry's connection is
owned by its user), `TargetOwned` (so is the connection that `Chatter` has looked up,
however old), `HandedOwned` (so is one that got a message, by the receiver), `BoxOwned`
(a list holds its owner's messages only) and `TaskInv` (a connection has at most one
login task, `OneTask`, and nobody else has logged in on it before that task answers,
`TaskOwned`). Without `TaskInv` a second login on the connection could change its owner
between lookup and send; the client's rule to wait for an answer (`UserService.cc:35`)
is what gives `OneTask`.
`CrashesHaveCauses` rests on `CauseInv`: an inserted task has its entry in the table, or a
cause for having lost it. `CauseKept` shows that a cause stays one: a connection that is
down and a reset that is done remain so, and a login that has taken the place becomes,
by `LookedUp` and `OneTask`, the user's session on another connection when it is
answered.
`OnePlaceEach` rests on `PlaceInv`: the set `Holders(m)` of the places of a message is a
singleton once `Chatter` has delivered it and empty before. The steps show what each
operation does to the set: a delivery puts a first place in, `DrainPop` replaces the
place in the list by the one in the task's hands and moves the places behind it,
`DrainSend` replaces that by a place on the connection or among the dropped. Cardinality
comes in only at the end.
*ChatView:* what is left of the main thread's program is one of the thirteen forms of
`Program(k)`, each an operation in front of another form, so that `ProgramSteps` can say for
all of them what follows an operation: a page that has been read is put in the log next,
a log that has been replaced is flushed, unread marks are cleared only before a page is
read. With that `Shown` has to speak only of the programs that are `Settled`, which flush
no more, and of the one that still stands at its check: then the open chat's log is what
the printer has or will get, from the main thread's copy or from a handler that will flush
(`FlushComing`). The case that a single test would miss is a return from the history: the
chat is not open by `state_` while its last flush runs, and a handler that comes then
marks instead of flushing, so `Shown` covers the programs that are `Returning` too.
`MarkedOrShown` follows a stored message on its way: it is with the handler (`ByHandler`),
then with the main thread, which is `Awaiting` the newest page or has it or a copy of the
log in its hands (`ByMain`), then with the pool (`ByPool`), and each step hands it on, or
shows it, or is one of those that the property names. What a handler does with its message
depends on tests that may be stale, so `Has` says for each of its places what the
message is in if the tests to come, or those made, lead to the flush: before the second
test that the log has it if the chat is open now, after it that the log has it, and at
last that the copy does. The main thread may open another chat under the handler; then
`HandlerHas` is kept because the message was `Elsewhere`, or because the chat that is opened
is the message's own and its newest page is still to be read. A message that is stored
while the main thread has a page in its hands needs no exception of its own: if the page
throws it out of the log, it is one that leaves the log unprinted; if it was never in the
log, its handler marks it.

**MessageCacheProofs.** The log of `History` is MySQL's rows followed by the part of
Redis's list that is not stored yet. `BatchStands` says that the batch in the hands of
`insertFromRedis` is the head of the list, whatever has been pushed since; with it an
INSERT and a trim leave the log alone, and a crash between the two maps to `History`'s
repetition of a batch.
`CacheSafe` adds the group messages. `KeptInv` has, for each group whose messages are not
deleted, that what has been pushed of a message is no more than its entries in the list
and in the table, less, between an INSERT and its trim, those that are counted twice
because the batch is in both. An append, a tail, and a selection that takes out the
messages of another group each have a lemma that says how many entries of a message they
leave; the one about selections is why `Selection` exists, as `SelectSeq` is recursive.

**HandlerProofs.** *Registration:* `Stages` ties a task's place to the connections it holds,
`Meetings` records in `met` everybody of its kind who ran beside it, and `Issued`,
`Uses`, `Rows`, `Candidates`, `Written` and `Mails` say what that means for codes, rows,
passwords and texts:
for instance that whoever has found no row of an address has met those who wrote one
since, which gives `OneAccount`. It is assumed that the four kinds of tasks are disjoint.
`NoPoolDeadlock` counts connections as pairs `<<task, i>>` (`Lent`), so that a loan adds
one element and a return removes one. `Loans` says that at most `Workers` tasks run and
only those hold anything; if all of them wait with the pool empty, each holds at most
`Depth - 1`, and `Lent` is no larger than `Workers * (Depth - 1)`, which
`PoolAssumption` puts below `PoolSize`.
*Relations:* in the middle of a task Redis and MySQL differ, so agreement is not
inductive. `Good(C, kind, p)` says that they would agree on the pair `p` if the commands
`C` ran and nobody else wrote it; and `Agreement` that they are `Good` with the commands
`Left` of the one task that has announced the pair, or with none when no task has. Three
lemmas carry it: `EndStays`, a command that runs, a refused statement included, keeps what its
task will have done; `EndKept`, a handler that becomes commands has the same end, as
long as these are `Faithful`; and `OthersGood`, a command leaves alone what its request
has not announced (`CommandWrites` goes through every command of every request). That
each handler's branch is `Faithful` is one lemma for each: what is put into or taken from
Redis is what is put into or taken from MySQL, for both halves of a friendship, for a loop
over all users as for one row. A statement that a foreign key refuses spoils nothing,
since then one end of the pair does not exist (`Real`); that the end may come to exist
later, a group whose row is still to be written, is what `NothingBefore` and
`OneCreator` exclude.
`CreatorsOwn` needs the order of the commands, not only their set. `OwnerInv` says that a
group is before its first member (`Birth`), has its owner, or has no members nor anybody
about to come in (`Gone`); and in between that in every `todo` the statement that removes
the owner's row stands behind one that removes all rows (`Guarded`), which is where
`AccountKiller` puts its exits. `Creators` has that nobody changes the creator's role.
`AccountGone` follows `AccountKiller` from whatever state the others have left
(`Farewell`): as long as it is alone, `DELETE` of the user is the last command of its
`todo`, and each of the seven statements that go before it (`Cleanup`) is still to come or
has left no row that it names. Nothing refers to the rows of those four tables, so their
statements cannot be refused, and the task inserts nothing; when the last statement runs,
only `groups` and `group_messages` may still refer to the user.
It is assumed that users and groups are finitely many (`SetToSeq` is a sequence of
them) and that a group's number belongs to one creation, as `AUTO_INCREMENT` gives it;
requests, scenarios and workers are arbitrary.

**ClientProofs.** A screen is a program, so the invariant speaks of every remainder of a
program that can be left: `Paired` says that a request is followed at once by its wait
and the wait, but for `getFiles`, by the reset, `LocksReleased` that between a
lock and its unlock nothing is asked of the server but what `UpdateBothLists` has asked
before the lock, and `Plain` that the handling of a request by number happens in its own
two screens only. A lemma per screen and per choice shows that its program has these
forms, and one per operation that taking it off leaves a program that has them. `OneRequest` then
gives `AnswersAreOwn`: a waiter has one open request, and only while the main thread
is at its wait. That holds of the waiters whose lists have not come `unasked`, and again
of one that has been reset while none of its requests is open. `PanelInv` with it gives `PanelReadsWhole`: a handler that rebuilds a list has been
asked for it, or the list is `unasked`, and the main thread waits for its answer outside
of the lock.
`PickInv` says at each of the handling's places that the list that was
shown is still the head of the list of requests, since handlers append at the end,
unless an answer of another administrator has removed one.

**FileTransferProofs.** As long as no file has changed, `written + wire <= offset <=
size` (`Counted`): a receiver that has closed its descriptors has nothing left to
receive, and never writes to the number's heir.
The module also extends `Connector`, as each transfer of a client has a connection of its
own. `Passes` says what each place of the loop's thread implies of the attempt: a retry is
only there when no attempt is, a Channel that was removed waits for one functor to reset
it, and a report belongs to the attempt that still goes on.

What is only model-checked is liveness, which is out of the prover's reach under
fairness: `EveryFunctorRuns`, `QuitStopsLoop`, `EveryTimerRuns`, `Reaches`,
`LeaverIsReported`, `LoginEnds`, `LoginDrains`, `CachedIsStored`, `EveryTransferEnds`,
`PromptReached`.

No module declares a `RECURSIVE` operator.

## 5. What is not modelled

- `EventLoopThreadPool`: a round robin on the base loop, before anything else runs;
  the loops are constants. `Logger`, `Timestamp`, `CurrentThread`, `InetAddress`,
  `Acceptor`, `Socket`, `SocketsOps`, epoll itself and the dispatch table of `Service`:
  thin wrappers, constants or the operating system.
- `Buffer` and the framing of messages are sequential; the modules take a message or a
  piece of a file as the unit, and no property depends on where the bytes are cut.
- The end of a `ThreadPool`: its destructor runs when `exit`, called in the handler of
  SIGINT, destroys the server's static `service`, and joins 16 threads whatever
  number the pool has (`ThreadPool.cc:16`), which is undefined for the pool of 8. Nobody
  hands over a task by then, so there is no interleaving to check.
- The contents of messages, lists that are only sent (`FriendLister`, `GroupLister`,
  `GroupInfoSender`, `LogsLister`), menus and texts on the screen: no property of the
  modelled state depends on them. Whether a list is sent at all is in `Client`.
- In `ChatSession`, a second login on one connection, which a client makes after it has
  destroyed its account (`Controller.cc:1003-1008`); `AccountKiller` is in `Relations`
  and `MessageCache`.
- Redis and MySQL failing altogether, their reconnection, and replies lost after a
  commit: the handlers do not test for any of these, so that what follows is up to
  the two libraries.
- The delivery of group messages to single members (`Chat.cc:80-97`): it is
  `ChatDeliver` once for every member; `MessageCache` has the pushes. The order of
  two messages of one sender, which are two tasks (`Service.cc:79`), is not promised
  by anything.
- `initCache` for `friends:u`, and crashes between the commands of `Relations`: the
  copies disagree there as they do when two tasks meet, and nothing repairs them but
  the next start.
- Descriptors run out, since neither a `Socket` (`Socket.cc:8`) nor a failed transfer
  closes its own; a model without a count of them has nothing to say about it.

Two hazards have no property: `loop()` resets `quit_` (`EventLoop.cc:72`), so that
`QuitStopsLoop` is claimed only of a loop that has entered it; and the end of an
upload is announced to whatever chat is open by then (`FileService.cc:35`), which no
document forbids.
