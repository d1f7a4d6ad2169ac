----------------------------- MODULE ChatSession -----------------------------
(***************************************************************************)
(* Who is online, and where a private message goes: Service's table of     *)
(* online users, the pool tasks that log a user in (Loginer), deliver a    *)
(* message (Chatter) or reset a password (PasswordFindAcker), and the      *)
(* connection callback of an IO thread, which takes a user out again.      *)
(*                                                                         *)
(* A task is one step from one access of shared state to the next: each    *)
(* hold of onlienUsersMutex_ and each Redis command is a step of its own.  *)
(* A connection follows module ConnectionLife, which TcpConnection         *)
(* implements: its callback may report it down more than once.  Friendship *)
(* does not change here; a message is sent at most once.                   *)
(***************************************************************************)
EXTENDS Naturals, Sequences, FiniteSets

CONSTANTS User, Conn, Msg,
          Sender, Receiver, \* who sends each message to whom
          Friends,          \* the pairs <<u, v>> with v in Redis's friends:u
          LoginJob,         \* the login tasks that may be in the pool at one time
          ResetJob,         \* the password resets that are ever acknowledged
          NoUser, NoConn, NoMsg

ASSUME PartyAssumption == Sender \in [Msg -> User] /\ Receiver \in [Msg -> User]
ASSUME NoneAssumption  == NoUser \notin User /\ NoConn \notin Conn /\ NoMsg \notin Msg

VARIABLES
    phase,        \* of a connection: "new", "up", "closing" (not kConnected), "down"
    onlineUsers,  \* onlineUsers_: the connection of each user, or NoConn
    session,      \* the user as whom a connection's login has been answered
    login,        \* the login tasks
    reset,        \* the password resets
    chat,         \* where the Chatter task of each message stands
    target,       \* its targetConn
    offline,      \* Redis's offlineMessages:u, left end first
    handed,       \* the messages that sendJson gave to each connection, in order
    dropped,      \* the messages that sendJson gave to a connection that was not up
    cache,        \* Redis's messages: what is to be stored in MySQL
    crashed       \* the process has died of undefined behaviour

vars == <<phase, onlineUsers, session, login, reset, chat, target, offline, handed,
          dropped, cache, crashed>>

msgVars == <<chat, target, cache>>
boxVars == <<offline, handed, dropped>>

NoLogin == [at |-> "idle"]
LoginTask(at, c, u, m) == [at |-> at, conn |-> c, user |-> u, msg |-> m]

\* A login task: "queued" -> "verified" -> "inserted" -> "replied" -> "drain"
\* -> "pop" -> "send" -> "drain" ... -> "idle"
LoginStates ==
    [at : {"queued", "verified", "inserted", "replied", "pop"},
     conn : Conn, user : User, msg : {NoMsg}]
      \cup [at : {"drain"}, conn : Conn, user : User \cup {NoUser}, msg : {NoMsg}]
      \cup [at : {"send"}, conn : Conn, user : User, msg : Msg]

Init ==
    /\ phase = [c \in Conn |-> "new"]
    /\ onlineUsers = [u \in User |-> NoConn]
    /\ session = [c \in Conn |-> NoUser]
    /\ login = [j \in LoginJob |-> NoLogin]
    /\ reset = [j \in ResetJob |-> [at |-> "none"]]
    /\ chat = [m \in Msg |-> "unsent"]
    /\ target = [m \in Msg |-> NoConn]
    /\ offline = [u \in User |-> <<>>]
    /\ handed = [c \in Conn |-> <<>>]
    /\ dropped = {}
    /\ cache = <<>>
    /\ crashed = FALSE
-----------------------------------------------------------------------------
(* Service's accesses to the table, each under onlienUsersMutex_. *)

\* getConnectionPtr; the empty user id is nobody's.
GetConnectionPtr(u) == IF u = NoUser THEN NoConn ELSE onlineUsers[u]

UsersOf(c) == {u \in User : onlineUsers[u] = c}

\* getUserid: a user whose connection this is, or "".
GetUserid(c) == IF UsersOf(c) = {} THEN {NoUser} ELSE UsersOf(c)

\* Seeded bug: the first entry of the table goes, whoever's it is.
EraseAny(c) ==
    IF UsersOf(c) = {} /\ \A u \in User : onlineUsers[u] = NoConn THEN UNCHANGED onlineUsers
    ELSE \E u \in User : onlineUsers' = [onlineUsers EXCEPT ![u] = NoConn]

\* The loops of onConnection and PasswordFindAcker: the first entry that they
\* meet with this connection goes, if there is one.
EraseConn(c) ==
    IF UsersOf(c) = {} THEN UNCHANGED onlineUsers
    ELSE \E u \in UsersOf(c) : onlineUsers' = [onlineUsers EXCEPT ![u] = NoConn]

\* sendJson and TcpConnection::send: only a connection that is up takes it.
SendMsg(c, m) ==
    IF phase[c] = "up"
    THEN handed' = [handed EXCEPT ![c] = Append(@, m)] /\ UNCHANGED dropped
    ELSE dropped' = dropped \cup {m} /\ UNCHANGED handed
-----------------------------------------------------------------------------
(* The IO thread: Service::onConnection. *)

Connected(c) ==
    /\ ~crashed
    /\ phase[c] = "new"
    /\ phase' = [phase EXCEPT ![c] = "up"]
    /\ UNCHANGED <<onlineUsers, session, login, reset, msgVars, boxVars, crashed>>

\* forceClose: the connection is kDisconnecting from here on.
ForceClose(c) ==
    /\ ~crashed
    /\ phase[c] = "up"
    /\ phase' = [phase EXCEPT ![c] = "closing"]
    /\ UNCHANGED <<onlineUsers, session, login, reset, msgVars, boxVars, crashed>>

Disconnected(c) ==
    /\ ~crashed
    /\ phase[c] # "new"
    /\ phase' = [phase EXCEPT ![c] = "down"]
    /\ EraseConn(c)
    /\ UNCHANGED <<session, login, reset, msgVars, boxVars, crashed>>
-----------------------------------------------------------------------------
(* Loginer. *)

\* A LOGIN_MSG arrives.  The client waits for the answer before it asks again,
\* and does not ask once it is logged in.
LoginRequest(j, c, u) ==
    /\ ~crashed
    /\ phase[c] \in {"up", "closing"}
    /\ session[c] = NoUser
    /\ login[j].at = "idle"
    /\ \A i \in LoginJob : login[i].at # "idle" => login[i].conn # c
    /\ login' = [login EXCEPT ![j] = LoginTask("queued", c, u, NoMsg)]
    /\ UNCHANGED <<phase, onlineUsers, session, reset, msgVars, boxVars, crashed>>

Finish(j) == login' = [login EXCEPT ![j] = NoLogin]
Go(j, at) == login' = [login EXCEPT ![j] = LoginTask(at, @.conn, @.user, NoMsg)]

\* verifyAccount: an online user is refused (3), so is an unknown one (2) or a
\* wrong password (1).
LoginVerify(j) ==
    /\ ~crashed
    /\ login[j].at = "queued"
    /\ \/ GetConnectionPtr(login[j].user) = NoConn /\ Go(j, "verified")
       \/ Finish(j)
    /\ UNCHANGED <<phase, onlineUsers, session, reset, msgVars, boxVars, crashed>>

LoginInsert(j) ==
    /\ ~crashed
    /\ login[j].at = "verified"
    /\ onlineUsers' = [onlineUsers EXCEPT ![login[j].user] = login[j].conn]
    /\ Go(j, "inserted")
    /\ UNCHANGED <<phase, session, reset, msgVars, boxVars, crashed>>

\* The answer names the user that getUserid finds for the connection.  When it
\* finds none, getNicknameById("") takes row 0 of an empty result, a map at the
\* null address: the process dies.
LoginReply(j) ==
    /\ ~crashed
    /\ login[j].at = "inserted"
    /\ \E u \in GetUserid(login[j].conn) :
          IF u = NoUser
          THEN crashed' = TRUE /\ UNCHANGED <<session, login>>
          ELSE /\ session' = [session EXCEPT ![login[j].conn] = u]
               /\ Go(j, "replied")
               /\ UNCHANGED crashed
    /\ UNCHANGED <<phase, onlineUsers, reset, msgVars, boxVars>>

\* The user id is looked up again for the offline messages.
LoginLookup(j) ==
    /\ ~crashed
    /\ login[j].at = "replied"
    /\ \E u \in GetUserid(login[j].conn) :
          login' = [login EXCEPT ![j] = LoginTask("drain", @.conn, u, NoMsg)]
    /\ UNCHANGED <<phase, onlineUsers, session, reset, msgVars, boxVars, crashed>>

\* Seeded bug: the connection is tested instead of the table.
DrainTestSocket(j) ==
    /\ ~crashed
    /\ login[j].at = "drain"
    /\ IF phase[login[j].conn] # "up" THEN Finish(j) ELSE Go(j, "pop")
    /\ UNCHANGED <<phase, onlineUsers, session, reset, msgVars, boxVars, crashed>>

\* sendMessageOffLine, while (1): stop when the user is not online any more ...
DrainTest(j) ==
    /\ ~crashed
    /\ login[j].at = "drain"
    /\ IF GetConnectionPtr(login[j].user) = NoConn THEN Finish(j) ELSE Go(j, "pop")
    /\ UNCHANGED <<phase, onlineUsers, session, reset, msgVars, boxVars, crashed>>

\* Seeded bug: the message is read (lindex) and stays in the list.
DrainPopPeek(j) ==
    /\ ~crashed
    /\ login[j].at = "pop"
    /\ LET box == offline[login[j].user]
           n   == Len(box) IN
       IF n = 0
       THEN Finish(j)
       ELSE login' = [login EXCEPT ![j] = LoginTask("send", @.conn, @.user, box[n])]
    /\ UNCHANGED <<phase, onlineUsers, session, reset, msgVars, boxVars, crashed>>

\* Seeded bug: off by one, the last message is taken for the end of the list.
DrainPopButLast(j) ==
    /\ ~crashed
    /\ login[j].at = "pop"
    /\ LET box == offline[login[j].user]
           n   == Len(box) IN
       IF n <= 1
       THEN Finish(j) /\ UNCHANGED offline
       ELSE /\ login' = [login EXCEPT ![j] = LoginTask("send", @.conn, @.user, box[n])]
            /\ offline' = [offline EXCEPT ![login[j].user] = SubSeq(box, 1, n - 1)]
    /\ UNCHANGED <<phase, onlineUsers, session, reset, msgVars, handed, dropped, crashed>>

\* ... or when rpop finds the list empty.
DrainPop(j) ==
    /\ ~crashed
    /\ login[j].at = "pop"
    /\ LET box == offline[login[j].user]
           n   == Len(box) IN
       IF n = 0
       THEN Finish(j) /\ UNCHANGED offline
       ELSE /\ login' = [login EXCEPT ![j] = LoginTask("send", @.conn, @.user, box[n])]
            /\ offline' = [offline EXCEPT ![login[j].user] = SubSeq(box, 1, n - 1)]
    /\ UNCHANGED <<phase, onlineUsers, session, reset, msgVars, handed, dropped, crashed>>

\* Seeded bug: what a closed connection does not take goes back into the list.
DrainSendRequeue(j) ==
    /\ ~crashed
    /\ login[j].at = "send"
    /\ IF phase[login[j].conn] = "up"
       THEN SendMsg(login[j].conn, login[j].msg) /\ UNCHANGED offline
       ELSE /\ offline' = [offline EXCEPT ![login[j].user] = Append(@, login[j].msg)]
            /\ UNCHANGED <<handed, dropped>>
    /\ Go(j, "drain")
    /\ UNCHANGED <<phase, onlineUsers, session, reset, msgVars, crashed>>

DrainSend(j) ==
    /\ ~crashed
    /\ login[j].at = "send"
    /\ SendMsg(login[j].conn, login[j].msg)
    /\ Go(j, "drain")
    /\ UNCHANGED <<phase, onlineUsers, session, reset, msgVars, offline, crashed>>
-----------------------------------------------------------------------------
(* Chatter. *)

\* Seeded bug: the sender's connection is looked up.
ChatLookupSender(m) ==
    /\ ~crashed
    /\ chat[m] = "unsent"
    /\ IF <<Sender[m], Receiver[m]>> \in Friends
       THEN /\ chat' = [chat EXCEPT ![m] = "looked"]
            /\ target' = [target EXCEPT ![m] = GetConnectionPtr(Sender[m])]
       ELSE /\ chat' = [chat EXCEPT ![m] = "refused"]
            /\ UNCHANGED target
    /\ UNCHANGED <<phase, onlineUsers, session, login, reset, boxVars, cache, crashed>>

\* A message from somebody who is not a friend ends here.
ChatLookup(m) ==
    /\ ~crashed
    /\ chat[m] = "unsent"
    /\ IF <<Sender[m], Receiver[m]>> \in Friends
       THEN /\ chat' = [chat EXCEPT ![m] = "looked"]
            /\ target' = [target EXCEPT ![m] = GetConnectionPtr(Receiver[m])]
       ELSE /\ chat' = [chat EXCEPT ![m] = "refused"]
            /\ UNCHANGED target
    /\ UNCHANGED <<phase, onlineUsers, session, login, reset, boxVars, cache, crashed>>

\* Online: send.  Offline: lpush.
ChatDeliver(m) ==
    /\ ~crashed
    /\ chat[m] = "looked"
    /\ IF <<Receiver[m], Sender[m]>> \in Friends
       THEN /\ chat' = [chat EXCEPT ![m] = "delivered"]
            /\ IF target[m] # NoConn
               THEN SendMsg(target[m], m) /\ UNCHANGED offline
               ELSE /\ offline' = [offline EXCEPT ![Receiver[m]] = <<m>> \o @]
                    /\ UNCHANGED <<handed, dropped>>
       ELSE /\ chat' = [chat EXCEPT ![m] = "refused"]
            /\ UNCHANGED boxVars
    /\ UNCHANGED <<phase, onlineUsers, session, login, reset, target, cache, crashed>>

\* rpush to messages.
ChatStore(m) ==
    /\ ~crashed
    /\ chat[m] = "delivered"
    /\ chat' = [chat EXCEPT ![m] = "stored"]
    /\ cache' = Append(cache, m)
    /\ UNCHANGED <<phase, onlineUsers, session, login, reset, target, boxVars, crashed>>
-----------------------------------------------------------------------------
(* PasswordFindAcker: a user who is online is taken out of the table. *)

ResetLookup(j, u) ==
    /\ ~crashed
    /\ reset[j].at = "none"
    /\ reset' = [reset EXCEPT ![j] =
                    IF GetConnectionPtr(u) = NoConn THEN [at |-> "done"]
                    ELSE [at |-> "found", conn |-> GetConnectionPtr(u)]]
    /\ UNCHANGED <<phase, onlineUsers, session, login, msgVars, boxVars, crashed>>

ResetErase(j) ==
    /\ ~crashed
    /\ reset[j].at = "found"
    /\ EraseConn(reset[j].conn)
    /\ reset' = [reset EXCEPT ![j] = [at |-> "done"]]
    /\ UNCHANGED <<phase, session, login, msgVars, boxVars, crashed>>
-----------------------------------------------------------------------------
LoginStep(j) ==
    \/ LoginVerify(j) \/ LoginInsert(j) \/ LoginReply(j) \/ LoginLookup(j)
    \/ DrainTest(j) \/ DrainPop(j) \/ DrainSend(j)

ChatStep(m) == ChatDeliver(m) \/ ChatStore(m)

Next ==
    \/ \E c \in Conn : Connected(c) \/ ForceClose(c) \/ Disconnected(c)
    \/ \E j \in LoginJob : LoginStep(j) \/ \E c \in Conn, u \in User : LoginRequest(j, c, u)
    \/ \E m \in Msg : ChatLookup(m) \/ ChatStep(m)
    \/ \E j \in ResetJob : ResetErase(j) \/ \E u \in User : ResetLookup(j, u)

Spec == Init /\ [][Next]_vars

\* Pool threads run the tasks they have taken.
Fairness ==
    /\ \A j \in LoginJob : WF_vars(LoginStep(j))
    /\ \A m \in Msg : WF_vars(ChatStep(m))

FairSpec == Spec /\ Fairness
-----------------------------------------------------------------------------
\* The shape of the state: the table, the tasks of the pool and the lists of
\* Redis hold nothing but what Service and its handlers put there.
TypeOK ==
    /\ phase \in [Conn -> {"new", "up", "closing", "down"}]
    /\ onlineUsers \in [User -> Conn \cup {NoConn}]
    /\ session \in [Conn -> User \cup {NoUser}]
    /\ login \in [LoginJob -> LoginStates \cup {NoLogin}]
    /\ reset \in [ResetJob -> [at : {"none", "done"}] \cup [at : {"found"}, conn : Conn]]
    /\ chat \in [Msg -> {"unsent", "looked", "refused", "delivered", "stored"}]
    /\ target \in [Msg -> Conn \cup {NoConn}]
    /\ offline \in [User -> Seq(Msg)]
    /\ handed \in [Conn -> Seq(Msg)]
    /\ dropped \subseteq Msg
    /\ cache \in Seq(Msg)
    /\ crashed \in BOOLEAN

\* The places of a message in lists of one kind.
InLists(kind, lists, m) ==
    UNION {{<<kind, o, i>> : i \in {k \in DOMAIN lists[o] : lists[o][k] = m}} :
              o \in DOMAIN lists}

\* The login tasks that have popped it and not sent it yet.
Carriers(m) == {j \in LoginJob : login[j].at = "send" /\ login[j].msg = m}

\* Where a message is: on the way to a client, in a list of Redis, in the hands of
\* the login task that popped it, or lost to a closed connection.
Holders(m) ==
    InLists("handed", handed, m) \cup InLists("offline", offline, m)
      \cup {<<"task", j, 0>> : j \in Carriers(m)}
      \cup {<<"dropped", n, 0>> : n \in dropped \cap {m}}

\* Chatter's split into online and offline and the two drains that may empty one
\* list together neither lose nor double a message: once the task has delivered
\* it, it is in exactly one place, and in none before.
OnePlace ==
    \A m \in Msg :
        Cardinality(Holders(m)) = IF chat[m] \in {"delivered", "stored"} THEN 1 ELSE 0

\* However the table changes between a lookup and its use, a connection gets
\* only messages for the user who logged in on it.
RightReader ==
    \A c \in Conn : \A i \in DOMAIN handed[c] :
        \/ session[c] = Receiver[handed[c][i]]
        \/ \E j \in LoginJob : /\ login[j].at = "inserted"
                               /\ login[j].conn = c
                               /\ login[j].user = Receiver[handed[c][i]]

\* sendMessageOffLine, with its while (1), comes to an end in every login.
LoginEnds == \A j \in LoginJob : login[j].at # "idle" ~> login[j].at = "idle" \/ crashed

\* A message that waits when the user's login has been answered is taken off the
\* list, by this login or by one that took its place in the table, unless the
\* user is out of the table again.
LoginDrains ==
    \A j \in LoginJob, m \in Msg :
        LET u == Receiver[m]
            Waits == \E i \in DOMAIN offline[u] : offline[u][i] = m IN
        (login[j].at = "replied" /\ onlineUsers[u] = login[j].conn /\ Waits)
            ~> (~Waits \/ onlineUsers[u] = NoConn \/ crashed)

\* Login.cc:34 names the answer 3, already logged in: no user is logged in on two
\* open connections.
SingleLogin ==
    \A c, d \in Conn :
        (phase[c] = "up" /\ phase[d] = "up" /\ session[c] # NoUser /\ session[c] = session[d])
            => c = d

\* The second lookup by connection (Login.cc:25) finds nothing, and the process dies,
\* only when between the insertion and the answer the client went away, the user's
\* password was reset, or another login of the user took the place in the table.
CrashHasCause ==
    crashed => \E j \in LoginJob :
        LET c == login[j].conn
            u == login[j].user IN
        /\ login[j].at = "inserted"
        /\ \/ phase[c] = "down"
           \/ \E r \in ResetJob : reset[r].at = "done"
           \/ \E d \in Conn \ {c} : session[d] = u
           \/ \E i \in LoginJob \ {j} : login[i].at = "inserted" /\ login[i].user = u
=============================================================================
