------------------------------ MODULE ChatView -------------------------------
(***************************************************************************)
(* What a chat of the terminal client shows: chatWithFriend and            *)
(* chatWithGroup on the main thread, the handlers of incoming messages on  *)
(* the thread of Neter's loop, the pool with the one thread that prints,   *)
(* and the transfers, which announce their file with a chat message.  They *)
(* share the log in memory of each peer, its file, and state_.             *)
(*                                                                         *)
(* As in module Client, todo is what the main thread has still to do until *)
(* it asks the user again.  The other screens are one place, "AWAY".       *)
(***************************************************************************)
EXTENDS Integers, Sequences

CONSTANTS
    Friend, Group,      \* with whom the user may chat
    Incoming,           \* the chat messages that the server will send
    From,               \* the friend or the group that each of them comes from
    Outgoing,           \* the messages that the user will type, or that announce an upload
    PushLimit, Page,    \* 10 and 20: length of a log when appended to, and when loaded
    MaxRequests         \* bound on the histories asked for and the messages that go out

Peer == Friend \cup Group

ASSUME PeerAssumption == Friend \cap Group = {} /\ From \in [Incoming -> Peer]

ASSUME MessageAssumption == Incoming \cap Outgoing = {}

ASSUME PageAssumption ==
    PushLimit \in Nat \ {0} /\ Page \in Nat \ {0} /\ MaxRequests \in Nat

VARIABLES
    state,      \* state_, read by all threads
    current,    \* currentFriend_ and currentGroup_, by kind
    inside,     \* the function that the main thread is in: a kind of chat, or none
    todo,       \* what the main thread does before it asks the user again
    offset,     \* chatWithFriend's and chatWithGroup's offset into the file
    local,      \* the main thread's page from a file, or its copy of a log
    loop,       \* the handler that the loop thread is in
    live,       \* messages that have not yet come in live
    due,        \* messages that the server has sent again as history
    requests,   \* how often the user has asked for a history, or sent a message
    log,        \* chatLogs_ and groupChatLogs_
    file,       \* the log files
    unread,     \* isReadMap_ and isReadGroupMap_: the peers with TRUE
    outgoing,   \* how far each outgoing message is
    task,       \* the print pool's queue
    screen,     \* what it has printed last
    seen,       \* history: messages that have been printed
    crossed,    \* history: flushes have met, or a log has changed without one
    excused     \* history: messages that a race or a full page has kept from the user

netVars    == <<live, due, requests>>
storeVars  == <<log, file, unread>>
printVars  == <<task, screen>>
mainVars   == <<state, current, inside, todo, offset, local>>
shared     == <<loop, netVars, storeVars, outgoing, printVars>>
viewVars   == <<mainVars, shared, seen, crossed, excused>>
-----------------------------------------------------------------------------
Kind == {"friend", "group"}
KindOf(p) == IF p \in Friend THEN "friend" ELSE "group"
Of(k) == IF k = "friend" THEN Friend ELSE Group
Chat(k) == IF k = "friend" THEN "CHAT_FRIEND" ELSE "CHAT_GROUP"

State == {"AWAY", "CHAT_FRIEND", "CHAT_GROUP", "LOG_HISTORY"}

NoHandler == [at |-> "idle"]
RangeOf(s) == {s[i] : i \in DOMAIN s}
-----------------------------------------------------------------------------
(* The programs of the main thread. *)

Op(name, arg) == [op |-> name, arg |-> arg]
Goto(s)       == <<Op("goto", s)>>

\* flushLogs and flushGroupLogs: a copy under the mutex, then add_last_task.
Flush(k) == <<Op("copy", k), Op("add", k)>>

\* loadInitChatLogs and loadMoreChatLogs, each followed by a flush: the newest page, or
\* the one before or after the present one.
Load(page, k) == <<Op(page, k), Op("replace", k)>> \o Flush(k)

\* chatWithFriend and chatWithGroup up to their loop.
EnterChat(k) == <<Op("getLogs", k), Op("clear", k)>> \o Load("newest", k)

\* sendMessage and sendGroupMessage; from the history, on to the newest page.
Send(k) ==
    <<Op("check", k), Op("push", k), Op("store", k)>>
      \o IF state = "LOG_HISTORY" THEN Load("newest", k) \o Goto(Chat(k)) ELSE Flush(k)

\* Seeded bug: /d goes back to the newest page without printing it.
ChatCommandQuietBottom(k) ==
    {Goto("AWAY"),
     Goto("LOG_HISTORY") \o <<Op("back", k)>>,
     IF offset >= Page THEN Load("newer", k) ELSE Goto(Chat(k)) \o Load("newest", k),
     <<Op("newest", k), Op("replace", k)>> \o Goto(Chat(k)),
     Flush(k) \o IF state = "LOG_HISTORY" THEN <<Op("spin", k)>> ELSE EnterChat(k)}

\* A line typed in a chat: /e, /f and /m; /c, which needs a page that is not empty to
\* go back from; /v; /d; or /s, which leaves the chat for mainLoop.  mainLoop comes
\* back to the chat, but has no screen for the history.
ChatCommand(k) ==
    {Goto("AWAY"),
     Goto("LOG_HISTORY") \o <<Op("back", k)>>,
     IF offset >= Page THEN Load("newer", k) ELSE Goto(Chat(k)) \o Load("newest", k),
     Load("newest", k) \o Goto(Chat(k)),
     Flush(k) \o IF state = "LOG_HISTORY" THEN <<Op("spin", k)>> ELSE EnterChat(k)}

-----------------------------------------------------------------------------
(* The steps of the main thread.  Each does what its operation's name says *)
(* and goes on with the rest.                                              *)

At(op) == todo # <<>> /\ Head(todo).op = op
Arg    == Head(todo).arg
Here   == current[Arg]      \* the peer of an operation, whose argument is a kind

\* A history is asked for, or a message sent, as often as the bound allows.
Request == requests < MaxRequests /\ requests' = requests + 1

ViewInit ==
    /\ state = "AWAY"
    /\ current \in {c \in [Kind -> Peer] : \A k \in Kind : c[k] \in Of(k)}
    /\ inside = "none"
    /\ todo = <<>>
    /\ offset = 0
    /\ local = <<>>
    /\ loop = NoHandler
    /\ live = Incoming /\ due = {} /\ requests = 0
    /\ log = [p \in Peer |-> <<>>]
    /\ file = [p \in Peer |-> <<>>]
    /\ unread = {}
    /\ outgoing = [m \in Outgoing |-> "unsent"]
    /\ task = <<>>
    /\ screen = <<>>
    /\ seen = {} /\ crossed = FALSE /\ excused = {}

\* At another screen: the panel's choice of a peer, and state_ for mainLoop.
OpenChat(p) ==
    /\ inside = "none" /\ todo = <<>>
    /\ current' = [current EXCEPT ![KindOf(p)] = p]
    /\ inside' = KindOf(p)
    /\ todo' = Goto(Chat(KindOf(p))) \o EnterChat(KindOf(p))
    /\ UNCHANGED <<state, offset, local, shared>>

\* The user types a command.
TypeCommand ==
    /\ inside \in Kind /\ todo = <<>>
    /\ \E prog \in ChatCommand(inside) : todo' = prog
    /\ UNCHANGED <<state, current, inside, offset, local, shared>>

\* The user types a message.
TypeMessage(m) ==
    /\ inside \in Kind /\ todo = <<>>
    /\ outgoing[m] = "unsent" /\ Request
    /\ outgoing' = [outgoing EXCEPT ![m] = "typed"]
    /\ todo' = Send(inside)
    /\ UNCHANGED <<state, current, inside, offset, local, loop, live, due, storeVars, printVars>>

PageBack ==
    /\ At("back")
    /\ todo' = (IF log[Here] = <<>> THEN <<>> ELSE Load("older", Arg)) \o Tail(todo)
    /\ UNCHANGED <<state, current, inside, offset, local, shared>>

\* state_ is set; another screen takes the place of the chat's.
GotoState ==
    /\ At("goto")
    /\ state' = Arg
    /\ IF Arg = "AWAY" THEN inside' = "none" /\ offset' = 0 /\ screen' = <<>>
       ELSE UNCHANGED <<inside, offset, screen>>
    /\ todo' = Tail(todo)
    /\ UNCHANGED <<current, local, loop, netVars, storeVars, outgoing, task>>

\* mainLoop goes round and round in a state without a screen.
Spin == At("spin") /\ UNCHANGED <<mainVars, shared>>

\* loadChatLogs: at most Page lines that end off lines before the end.
Lines(f, off) ==
    LET total == Len(f)
        start == IF total > off + Page THEN total - off - Page ELSE 0 IN
    IF off >= total THEN <<>> ELSE SubSeq(f, start + 1, total - off)

\* A message is appended and the log kept at its limit.
Pushed(l, m) == IF Len(l) >= PushLimit THEN Tail(Append(l, m)) ELSE Append(l, m)

\* getChatLogs asks for the history of a peer without a file, and LogsLister sends
\* what the tables have: of the group, or of all friends.
GetChatLogs ==
    /\ At("getLogs")
    /\ \/ UNCHANGED <<due, requests>>
       \/ /\ file[Here] = <<>> /\ Request
          /\ \E some \in SUBSET {m \in Incoming \ live : IF Arg = "group" THEN From[m] = Here
                                                   ELSE From[m] \in Friend} : due' = due \cup some
          /\ due' # due
    /\ todo' = Tail(todo)
    /\ UNCHANGED <<state, current, inside, offset, local, loop, live, storeVars, outgoing, printVars>>

ClearUnread ==
    /\ At("clear")
    /\ unread' = unread \ {Here}
    /\ todo' = Tail(todo)
    /\ UNCHANGED <<state, current, inside, offset, local, loop, netVars, log, file, outgoing,
                   printVars>>

\* The page is read from the file, and takes the place of the log later.
ReadPage ==
    /\ \/ At("newest") /\ offset' = 0
       \/ At("older") /\ offset' = offset + Page
       \/ At("newer") /\ offset' = offset - Page
    /\ local' = Lines(file[Here], offset')
    /\ todo' = Tail(todo)
    /\ UNCHANGED <<state, current, inside, shared>>

ReplaceLog ==
    /\ At("replace")
    /\ log' = [log EXCEPT ![Here] = local]
    /\ local' = <<>>
    /\ todo' = Tail(todo)
    /\ UNCHANGED <<state, current, inside, offset, loop, netVars, file, unread, outgoing, printVars>>

\* What is printed of a peer's chat.
CopyOf(p) == [title |-> p, logs |-> log[p]]

\* A copy under the mutex; add_last_task drops what is queued.
FlushLogs ==
    /\ \/ At("copy") /\ local' = <<CopyOf(Here)>> /\ UNCHANGED task
       \/ At("add") /\ task' = local /\ local' = <<>>
    /\ todo' = Tail(todo)
    /\ UNCHANGED <<state, current, inside, offset, loop, netVars, storeVars, outgoing, screen>>

\* sendMessage and sendGroupMessage: the look at the list, which a friend who is no
\* longer one, or who has blocked the user, fails; the log; the file.
CheckList ==
    /\ At("check")
    /\ \/ todo' = Tail(todo) /\ UNCHANGED outgoing
       \/ /\ todo' = <<>>
          /\ outgoing' = [m \in Outgoing |-> IF outgoing[m] = "typed" THEN "refused" ELSE outgoing[m]]
    /\ UNCHANGED <<state, current, inside, offset, local, loop, netVars, storeVars, printVars>>

SendMessage ==
    /\ \/ /\ At("push")
          /\ \E m \in Outgoing :
               /\ outgoing[m] = "typed"
               /\ outgoing' = [outgoing EXCEPT ![m] = "sent"]
               /\ log' = [log EXCEPT ![Here] = Pushed(@, m)]
               /\ local' = <<m>>
          /\ UNCHANGED file
       \/ /\ At("store")
          /\ file' = [file EXCEPT ![Here] = @ \o local]
          /\ local' = <<>>
          /\ UNCHANGED <<outgoing, log>>
    /\ todo' = Tail(todo)
    /\ UNCHANGED <<state, current, inside, offset, loop, netVars, unread, printVars>>
-----------------------------------------------------------------------------
(* The loop thread: messages, one handler after the other. *)

\* Where handleMessage puts a message of a friend, in whatever chat with a friend
\* is open, and handleGroupMessage one of a group.
LogOf(m) == IF From[m] \in Friend THEN current["friend"] ELSE From[m]

\* handleMessage and handleGroupMessage: the first test of state_, of a chat of the kind.
HandleMessage(m) ==
    /\ loop.at = "idle"
    /\ \/ m \in live /\ live' = live \ {m} /\ UNCHANGED due
       \/ m \in due /\ due' = due \ {m} /\ UNCHANGED live
    /\ loop' = [at |-> IF state = Chat(KindOf(From[m])) THEN "push" ELSE "store", msg |-> m]
    /\ UNCHANGED <<mainVars, requests, storeVars, outgoing, printVars>>

\* Into the log, under its mutex.
PushMessage ==
    /\ loop.at = "push"
    /\ log' = [log EXCEPT ![LogOf(loop.msg)] = Pushed(@, loop.msg)]
    /\ loop' = [loop EXCEPT !.at = "store"]
    /\ UNCHANGED <<mainVars, netVars, file, unread, outgoing, printVars>>

\* Into the sender's file.
StoreMessage ==
    /\ loop.at = "store"
    /\ file' = [file EXCEPT ![From[loop.msg]] = Append(@, loop.msg)]
    /\ loop' = [loop EXCEPT !.at = "test"]
    /\ UNCHANGED <<mainVars, netVars, log, unread, outgoing, printVars>>

\* The second test of state_.
TestState ==
    /\ loop.at = "test"
    /\ loop' = [loop EXCEPT !.at = IF state = Chat(KindOf(From[loop.msg])) THEN "peer" ELSE "mark"]
    /\ UNCHANGED <<mainVars, netVars, storeVars, outgoing, printVars>>

\* Seeded bug: the mark is left out whenever a chat of the kind is open, whoever's.
TestPeerNoMark ==
    /\ loop.at = "peer"
    /\ loop' = LET p == From[loop.msg] IN
               IF current[KindOf(p)] = p THEN [loop EXCEPT !.at = "copy"] ELSE NoHandler
    /\ UNCHANGED <<mainVars, netVars, storeVars, outgoing, printVars>>

\* The test of the chat that is open.
TestPeer ==
    /\ loop.at = "peer"
    /\ loop' = LET p == From[loop.msg] IN
               [loop EXCEPT !.at = IF current[KindOf(p)] = p THEN "copy" ELSE "mark"]
    /\ UNCHANGED <<mainVars, netVars, storeVars, outgoing, printVars>>

MarkUnread ==
    /\ loop.at = "mark"
    /\ unread' = unread \cup {From[loop.msg]}
    /\ loop' = NoHandler
    /\ UNCHANGED <<mainVars, netVars, log, file, outgoing, printVars>>

\* The flush of a handler, of the chat that is open by then.
FlushCopy ==
    /\ loop.at = "copy"
    /\ loop' = [at |-> "add", msg |-> loop.msg, copy |-> CopyOf(current[KindOf(From[loop.msg])])]
    /\ UNCHANGED <<mainVars, netVars, storeVars, outgoing, printVars>>

FlushAdd ==
    /\ loop.at = "add"
    /\ task' = <<loop.copy>>
    /\ loop' = NoHandler
    /\ UNCHANGED <<mainVars, netVars, storeVars, outgoing, screen>>
-----------------------------------------------------------------------------
(* The print pool and the transfers. *)

PrintLogs ==
    /\ task # <<>>
    /\ screen' = task
    /\ task' = <<>>
    /\ UNCHANGED <<mainVars, loop, netVars, storeVars, outgoing>>

Announced(k) == IF k = "friend" THEN "announcedToFriend" ELSE "announcedToGroup"

\* The transfer's connection is down: the file is announced in the chat that the
\* user is in by now, as sendMessage would, but without a flush.
Announce(m, k) ==
    /\ \/ /\ outgoing[m] = "unsent" /\ Request
          /\ log' = [log EXCEPT ![current[k]] = Pushed(@, m)]
          /\ outgoing' = [outgoing EXCEPT ![m] = Announced(k)]
          /\ UNCHANGED file
       \/ /\ outgoing[m] = Announced(k)
          /\ file' = [file EXCEPT ![current[k]] = Append(@, m)]
          /\ outgoing' = [outgoing EXCEPT ![m] = "sent"]
          /\ UNCHANGED <<log, requests>>
    /\ UNCHANGED <<mainVars, loop, live, due, unread, printVars>>
-----------------------------------------------------------------------------
MainStep ==
    \/ PageBack \/ GotoState \/ GetChatLogs \/ ClearUnread \/ ReadPage \/ ReplaceLog
    \/ FlushLogs \/ CheckList \/ SendMessage \/ Spin

HandlerStep ==
    \/ PushMessage \/ StoreMessage \/ TestState \/ TestPeer \/ MarkUnread
    \/ FlushCopy \/ FlushAdd

\* Two copies are out at one time, or the flush of a handler finds another chat.
Crossing ==
    \/ loop.at = "add" /\ At("add")
    \/ loop.at \in {"copy", "add"} /\ inside # KindOf(From[loop.msg])

\* What is left of a program that comes back to the chat when it has copied the log.
Returning(k) == {Goto(Chat(k)), <<Op("add", k)>> \o Goto(Chat(k))}

\* The log of the open chat is changed and nobody is to print it: by the announcement of
\* a file, by a message of a friend whose chat is not open, or by one whose handler has
\* found the chat open before the main thread left it for the history, from which it
\* comes back by now.
QuietPush ==
    /\ inside \in Kind /\ log'[current[inside]] # log[current[inside]]
    /\ \/ outgoing' # outgoing /\ todo' = todo
       \/ loop' # loop /\ (From[loop.msg] # current[inside] \/ todo \in Returning(inside))

\* The chat is entered, or come back to, between the two tests of state_ in the handler
\* of a message for it.
TestsDiffer ==
    /\ loop.at \in {"store", "test"}
    /\ At("goto") /\ Arg = Chat(KindOf(From[loop.msg]))
    /\ current[KindOf(From[loop.msg])] = From[loop.msg]

\* By the time of the handler's flush the user has opened another chat.
OtherChat == loop.at = "copy" /\ current[KindOf(From[loop.msg])] # From[loop.msg]

\* Messages that leave the queue of the printer unprinted, or their sender's log, or that
\* the newest page does not reach when it is read.
Printed(copy) == {m \in Incoming \cap RangeOf(copy.logs) : From[m] = copy.title}
Dropped == IF task' # <<>> /\ task # <<>> THEN Printed(task[1]) \ Printed(task'[1]) ELSE {}
Evicted == {m \in Incoming : m \in RangeOf(log[From[m]]) \ RangeOf(log'[From[m]])}
OffPage ==
    IF At("newest") /\ todo' = Tail(todo)
    THEN {m \in Incoming : From[m] = Here /\ m \in RangeOf(file[Here]) \ RangeOf(local')}
    ELSE {}

\* The history variables, which no action reads.
History ==
    /\ seen' = seen \cup
          IF task # <<>> /\ task' = <<>>
          THEN Printed(task[1]) ELSE {}
    /\ crossed' = (/\ inside' # "none"
                   /\ (crossed /\ ~At("clear")) \/ Crossing' \/ QuietPush)
    /\ excused' = (excused \cup Dropped \cup Evicted \cup OffPage
                     \cup (IF TestsDiffer' \/ OtherChat' THEN {loop'.msg} ELSE {}))
                   \ seen'

ViewNext ==
    /\ \/ \E p \in Peer : OpenChat(p)
       \/ TypeCommand
       \/ \E m \in Outgoing : TypeMessage(m)
       \/ MainStep
       \/ HandlerStep
       \/ \E m \in Incoming : HandleMessage(m)
       \/ PrintLogs
       \/ \E m \in Outgoing, k \in Kind : Announce(m, k)
    /\ History

ViewSpec == ViewInit /\ [][ViewNext]_viewVars
-----------------------------------------------------------------------------
ViewTypeOK ==
    /\ state \in State /\ inside \in Kind \cup {"none"}
    /\ \A k \in Kind : current[k] \in Of(k)
    /\ offset \in Nat
    /\ live \cup due \subseteq Incoming
    /\ unread \subseteq Peer
    /\ Len(task) <= 1 /\ Len(screen) <= 1
    /\ \A p \in Peer : RangeOf(file[p]) \subseteq Incoming \cup Outgoing
    /\ \A p \in Peer : Len(log[p]) <= IF Page > PushLimit THEN Page ELSE PushLimit

\* The chat that is open is on the screen as it is in memory, or about to be, when
\* neither thread is flushing it: unless flushes have crossed, which add_last_task
\* ends with the last one to be added and not with the newest (Controller.cc:1016-1031),
\* or a log was changed and nobody is to print it (QuietPush), as by a handler that found
\* the chat open (ChatService.cc:65, 139) and pushes when the main thread has gone to the
\* history and printed its way back (Controller.cc:506).
Newest == IF task = <<>> THEN screen ELSE task
ScreenIsCurrent ==
    (/\ todo = <<>> /\ inside \in Kind /\ state = Chat(inside)
     /\ loop.at = "idle"
     /\ ~crossed)
        => Newest = <<CopyOf(current[inside])>>

\* A message that has been stored was printed in its sender's chat, or its sender is
\* marked unread: unless the main thread entered the chat or came back to it between the
\* handler's two tests of state_ (ChatService.cc:65, 77), or another chat was open by the
\* time of the handler's flush, or the flush left the printer's queue for one without the
\* message, or the message left its sender's log unprinted, which was full or was replaced
\* by a page read before it was stored, or the newest page, when it was read, did not
\* reach back to it.
SeenOrUnread ==
    (todo = <<>> /\ loop.at = "idle" /\ task = <<>>) =>
        \A m \in Incoming :
            m \in RangeOf(file[From[m]]) =>
                m \in seen \/ From[m] \in unread \/ m \in excused

ViewInv == ViewTypeOK /\ ScreenIsCurrent
=============================================================================
