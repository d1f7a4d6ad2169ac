------------------------------ MODULE ChatProofs ------------------------------
(***************************************************************************)
(* Proofs about a chat on its way and at its end: ChatSession, the server  *)
(* and what a session sends, and ChatView, the chat on the user's screen.  *)
(***************************************************************************)
EXTENDS ChatSession, ChatView, SequenceTheorems, FiniteSetTheorems, TLAPS

\* A task that is under way has a connection, and a user or none.
LEMMA TaskFields ==
    ASSUME TypeOK, NEW j \in LoginJob
    PROVE  /\ login[j] = NoLogin \/ login[j] \in LoginStates
           /\ login[j].at # "idle" => login[j] \in LoginStates
           /\ login[j] \in LoginStates => /\ login[j].conn \in Conn
                                          /\ login[j].user \in User \cup {NoUser}
           /\ login[j].at \in {"queued", "verified", "inserted", "replied", "pop", "send"}
                => login[j].user \in User /\ login[j].conn \in Conn
           /\ login[j].at = "send" => login[j].msg \in Msg
           /\ login[j].at = "drain" => login[j].conn \in Conn
BY DEF TypeOK, LoginStates, NoLogin

\* An entry or a user that the table yields is one that it holds.
LEMMA Lookups ==
    ASSUME TypeOK
    PROVE  /\ \A u \in User \cup {NoUser} : GetConnectionPtr(u) \in Conn \cup {NoConn}
           /\ \A u \in User : GetConnectionPtr(u) = onlineUsers[u]
           /\ \A c \in Conn : \A u \in GetUserid(c) :
                 u = NoUser \/ (u \in User /\ onlineUsers[u] = c)
<1>1. \A u \in User \cup {NoUser} : GetConnectionPtr(u) \in Conn \cup {NoConn}
    BY DEF TypeOK, GetConnectionPtr
<1>2. \A u \in User : GetConnectionPtr(u) = onlineUsers[u]
    BY NoneAssumption DEF GetConnectionPtr
<1>3. ASSUME NEW c \in Conn, NEW u \in GetUserid(c)
      PROVE  u = NoUser \/ (u \in User /\ onlineUsers[u] = c)
    BY <1>3 DEF GetUserid, UsersOf
<1> QED BY <1>1, <1>2, <1>3

\* EraseConn only takes entries out.
LEMMA Erasing ==
    ASSUME TypeOK, NEW c, EraseConn(c)
    PROVE  /\ onlineUsers' \in [User -> Conn \cup {NoConn}]
           /\ \A u \in User : onlineUsers'[u] = onlineUsers[u] \/ onlineUsers'[u] = NoConn
BY DEF TypeOK, EraseConn, UsersOf

\* SendMsg hands the message over or drops it.
LEMMA Sending ==
    ASSUME TypeOK, NEW c \in Conn, NEW m \in Msg, SendMsg(c, m)
    PROVE  /\ handed' \in [Conn -> Seq(Msg)] /\ dropped' \subseteq Msg
           /\ \A d \in Conn : \/ handed'[d] = handed[d]
                              \/ d = c /\ handed'[d] = Append(handed[d], m)
<1>1. Append(handed[c], m) \in Seq(Msg)
    BY AppendProperties DEF TypeOK
<1> QED BY <1>1 DEF TypeOK, SendMsg

LEMMA TypeStep == TypeOK /\ [Next]_vars => TypeOK'
<1> SUFFICES ASSUME TypeOK, [Next]_vars PROVE TypeOK'
    OBVIOUS
<1> USE DEF msgVars, boxVars
<1>1. ASSUME NEW c \in Conn, Connected(c) \/ ForceClose(c) PROVE TypeOK'
    BY <1>1 DEF TypeOK, Connected, ForceClose
<1>2. ASSUME NEW c \in Conn, Disconnected(c) PROVE TypeOK'
    <2>1. onlineUsers' \in [User -> Conn \cup {NoConn}]
        BY <1>2, Erasing DEF Disconnected
    <2> QED BY <1>2, <2>1 DEF TypeOK, Disconnected
<1>3. ASSUME NEW j \in LoginJob, NEW c \in Conn, NEW u \in User, LoginRequest(j, c, u)
      PROVE  TypeOK'
    <2>1. LoginTask("queued", c, u, NoMsg) \in LoginStates
        BY DEF LoginStates, LoginTask
    <2> QED BY <1>3, <2>1 DEF TypeOK, LoginRequest
<1>4. ASSUME NEW j \in LoginJob, LoginStep(j) PROVE TypeOK'
    <2> DEFINE Tasks == [LoginJob -> LoginStates \cup {NoLogin}]
    <2> USE DEF Finish, Go, LoginTask, LoginStates
    <2>0. login \in Tasks /\ \A r \in LoginStates \cup {NoLogin} : [login EXCEPT ![j] = r] \in Tasks
        BY DEF TypeOK
    <2>1. CASE LoginVerify(j)
        <3>1. login' \in Tasks
            BY <2>0, <2>1, TaskFields DEF LoginVerify
        <3> QED BY <2>1, <3>1 DEF TypeOK, LoginVerify
    <2>2. CASE LoginInsert(j)
        <3>1. login' \in Tasks
            BY <2>0, <2>2, TaskFields DEF LoginInsert
        <3> QED BY <2>2, <3>1, TaskFields DEF TypeOK, LoginInsert
    <2>3. CASE LoginReply(j)
        <3>1. login' \in Tasks
            BY <2>0, <2>3, TaskFields DEF LoginReply
        <3>2. session' \in [Conn -> User \cup {NoUser}] /\ crashed' \in BOOLEAN
            <4>1. login[j].conn \in Conn /\ \A u \in GetUserid(login[j].conn) : u \in User \cup {NoUser}
                BY <2>3, Lookups, TaskFields DEF LoginReply
            <4> QED BY <2>3, <4>1 DEF LoginReply, TypeOK
        <3> QED BY <2>3, <3>1, <3>2 DEF TypeOK, LoginReply
    <2>4. CASE LoginLookup(j)
        <3>1. login' \in Tasks
            <4>1. login[j].conn \in Conn /\ \A u \in GetUserid(login[j].conn) : u \in User \cup {NoUser}
                BY <2>4, Lookups, TaskFields DEF LoginLookup
            <4> QED BY <2>0, <2>4, <4>1 DEF LoginLookup
        <3> QED BY <2>4, <3>1 DEF TypeOK, LoginLookup
    <2>5. CASE DrainTest(j)
        <3>1. login' \in Tasks
            BY <2>0, <2>5, TaskFields DEF DrainTest, GetConnectionPtr
        <3> QED BY <2>5, <3>1 DEF TypeOK, DrainTest
    <2>6. CASE DrainPop(j)
        <3> DEFINE box == offline[login[j].user]
                   n   == Len(box)
        <3>1. box \in Seq(Msg) /\ login[j].user \in User
            BY <2>6, TaskFields DEF TypeOK, DrainPop
        <3>2. CASE n = 0
            BY <2>0, <2>6, <3>2 DEF TypeOK, DrainPop
        <3>3. CASE n # 0
            <4>1. n \in Nat \ {0}
                BY <3>1, <3>3, LenProperties
            <4>2. box[n] \in Msg
                BY <3>1, <4>1, ElementOfSeq
            <4>3. SubSeq(box, 1, n - 1) \in Seq(Msg)
                BY <3>1, <4>1, SubSeqProperties
            <4>4. LoginTask("send", login[j].conn, login[j].user, box[n]) \in LoginStates
                BY <2>6, <3>1, <4>2, TaskFields DEF DrainPop
            <4>5. login' \in Tasks
                BY <2>0, <2>6, <3>3, <4>4 DEF DrainPop
            <4>6. offline' \in [User -> Seq(Msg)]
                BY <2>6, <3>3, <4>3 DEF TypeOK, DrainPop
            <4> QED BY <2>6, <4>5, <4>6 DEF TypeOK, DrainPop
        <3> QED BY <3>2, <3>3
    <2>7. CASE DrainSend(j)
        <3>1. handed' \in [Conn -> Seq(Msg)] /\ dropped' \subseteq Msg
            BY <2>7, TaskFields, Sending DEF DrainSend
        <3>2. login' \in Tasks
            BY <2>0, <2>7, TaskFields DEF DrainSend
        <3> QED BY <2>7, <3>1, <3>2 DEF TypeOK, DrainSend
    <2> QED BY <1>4, <2>1, <2>2, <2>3, <2>4, <2>5, <2>6, <2>7 DEF LoginStep
<1>5. ASSUME NEW m \in Msg, ChatLookup(m) PROVE TypeOK'
    <2>1. Receiver[m] \in User
        BY PartyAssumption
    <2>2. GetConnectionPtr(Receiver[m]) \in Conn \cup {NoConn}
        BY <2>1, Lookups
    <2>3. target \in [Msg -> Conn \cup {NoConn}]
        BY DEF TypeOK
    <2>4. target' \in [Msg -> Conn \cup {NoConn}]
        BY <1>5, <2>2, <2>3 DEF ChatLookup
    <2> QED BY <1>5, <2>4 DEF TypeOK, ChatLookup
<1>6. ASSUME NEW m \in Msg, ChatStep(m) PROVE TypeOK'
    <2>1. CASE ChatDeliver(m)
        <3>1. handed' \in [Conn -> Seq(Msg)] /\ dropped' \subseteq Msg
            BY <2>1, Sending DEF ChatDeliver, TypeOK
        <3>2. offline' \in [User -> Seq(Msg)]
            <4>1. Receiver[m] \in User /\ offline[Receiver[m]] \in Seq(Msg) /\ <<m>> \in Seq(Msg)
                BY PartyAssumption DEF TypeOK
            <4>2. <<m>> \o offline[Receiver[m]] \in Seq(Msg)
                BY <4>1, ConcatProperties
            <4> QED BY <2>1, <4>2 DEF ChatDeliver, TypeOK
        <3> QED BY <2>1, <3>1, <3>2 DEF TypeOK, ChatDeliver
    <2>2. CASE ChatStore(m)
        BY <2>2, AppendProperties DEF TypeOK, ChatStore
    <2> QED BY <1>6, <2>1, <2>2 DEF ChatStep
<1>7. ASSUME NEW j \in ResetJob, NEW u \in User, ResetLookup(j, u) PROVE TypeOK'
    BY <1>7, Lookups DEF TypeOK, ResetLookup
<1>8. ASSUME NEW j \in ResetJob, ResetErase(j) PROVE TypeOK'
    <2>1. onlineUsers' \in [User -> Conn \cup {NoConn}]
        BY <1>8, Erasing DEF ResetErase
    <2> QED BY <1>8, <2>1 DEF TypeOK, ResetErase
<1>9. CASE UNCHANGED vars
    BY <1>9 DEF TypeOK, vars
<1> QED BY <1>1, <1>2, <1>3, <1>4, <1>5, <1>6, <1>7, <1>8, <1>9 DEF Next

\* Every reachable state of Service's table, the tasks and the lists has its type.
THEOREM TypeCorrect == Spec => []TypeOK
<1>1. ASSUME Init PROVE TypeOK
    <2>1. /\ handed \in [Conn -> Seq(Msg)] /\ offline \in [User -> Seq(Msg)]
          /\ cache \in Seq(Msg)
        BY <1>1 DEF Init
    <2>2. reset \in [ResetJob -> [at : {"none", "done"}] \cup [at : {"found"}, conn : Conn]]
        BY <1>1 DEF Init
    <2>3. login \in [LoginJob -> LoginStates \cup {NoLogin}]
        BY <1>1 DEF Init
    <2> QED BY <1>1, <2>1, <2>2, <2>3 DEF Init, TypeOK
<1> QED BY <1>1, TypeStep, PTL DEF Spec
-----------------------------------------------------------------------------
(* RightReader.  It is not inductive: a message is handed to a connection  *)
(* that a task has looked up or taken over earlier, so what the table, the *)
(* targets, the lists and the tasks hold has to be for the right user too. *)

\* A connection belongs to the user whose login on it has been answered, or has
\* been inserted and is about to be.
Owns(c, u) ==
    \/ session[c] = u
    \/ \E j \in LoginJob : /\ login[j].at = "inserted"
                           /\ login[j].conn = c
                           /\ login[j].user = u

TableOwned  == \A u \in User : onlineUsers[u] # NoConn => Owns(onlineUsers[u], u)
TargetOwned == \A m \in Msg : target[m] # NoConn => Owns(target[m], Receiver[m])
HandedOwned == \A c \in Conn : \A i \in DOMAIN handed[c] : Owns(c, Receiver[handed[c][i]])
BoxOwned    == \A u \in User : \A i \in DOMAIN offline[u] : Receiver[offline[u][i]] = u

\* Two tasks never work for one connection.
OneTask ==
    \A i, j \in LoginJob :
        (login[i].at # "idle" /\ login[j].at # "idle" /\ login[i].conn = login[j].conn) => i = j

TaskOwned ==
    \A j \in LoginJob :
        /\ login[j].at \in {"queued", "verified", "inserted"} => session[login[j].conn] = NoUser
        /\ (login[j].at \in {"drain", "pop", "send"} /\ login[j].user # NoUser)
             => session[login[j].conn] = login[j].user
        /\ login[j].at = "send" => Receiver[login[j].msg] = login[j].user

TaskInv   == OneTask /\ TaskOwned
ReaderInv == TableOwned /\ TargetOwned /\ HandedOwned /\ BoxOwned /\ TaskInv

\* Whom the table names for a connection that a task is working for, that is the
\* user of the task or of its answered login.
LEMMA LookedUp ==
    ASSUME TypeOK, ReaderInv, NEW j \in LoginJob, NEW u \in User,
           login[j].at # "idle", onlineUsers[u] = login[j].conn
    PROVE  /\ login[j].at = "inserted" => u = login[j].user
           /\ login[j].at # "inserted" => session[login[j].conn] = u
<1>1. login[j].conn \in Conn
    BY TaskFields DEF LoginStates
<1>2. Owns(login[j].conn, u)
    BY <1>1, NoneAssumption DEF ReaderInv, TableOwned
<1>3. \A i \in LoginJob : login[i].at = "inserted" /\ login[i].conn = login[j].conn => i = j
    BY DEF ReaderInv, TaskInv, OneTask
<1>4. login[j].at = "inserted" => session[login[j].conn] # u
    BY NoneAssumption DEF ReaderInv, TaskInv, TaskOwned
<1> QED BY <1>2, <1>3, <1>4 DEF Owns

\* A step of one task, to a place that does not make it an owner.
LEMMA TaskMoves ==
    ASSUME TypeOK, TaskInv, UNCHANGED session, NEW j \in LoginJob,
           login[j].at \notin {"idle", "inserted"}, NEW r,
           login' = [login EXCEPT ![j] = r],
           \/ r.at = "idle"
           \/ /\ r.conn = login[j].conn
              /\ r.at \in {"queued", "verified", "inserted"}
                    => login[j].at \in {"queued", "verified", "inserted"}
              /\ (r.at \in {"drain", "pop", "send"} /\ r.user # NoUser)
                    => session[r.conn] = r.user
              /\ r.at = "send" => Receiver[r.msg] = r.user
    PROVE  TaskInv' /\ \A c \in Conn, u \in User : Owns(c, u) => Owns(c, u)'
<1>1. login'[j] = r /\ \A i \in LoginJob \ {j} : login'[i] = login[i]
    BY DEF TypeOK
<1>2. OneTask'
    BY <1>1 DEF TaskInv, OneTask
<1>3. TaskOwned'
    BY <1>1 DEF TaskInv, TaskOwned
<1>4. ASSUME NEW c \in Conn, NEW u \in User, Owns(c, u) PROVE Owns(c, u)'
    BY <1>1, <1>4 DEF Owns
<1> QED BY <1>2, <1>3, <1>4 DEF TaskInv

\* What a step does to the owners, for every step.
LEMMA OwnersKept ==
    ASSUME TypeOK, TypeOK', ReaderInv, [Next]_vars
    PROVE  TaskInv' /\ \A c \in Conn, u \in User : Owns(c, u) => Owns(c, u)'
<1> DEFINE Kept == TaskInv' /\ \A c \in Conn, u \in User : Owns(c, u) => Owns(c, u)'
<1>0. ASSUME UNCHANGED <<session, login>> PROVE Kept
    BY <1>0 DEF ReaderInv, TaskInv, OneTask, TaskOwned, Owns
<1>1. ASSUME NEW c \in Conn, NEW j \in LoginJob, NEW u \in User, LoginRequest(j, c, u)
      PROVE  Kept
    <2> DEFINE r == LoginTask("queued", c, u, NoMsg)
    <2>1. /\ login' = [login EXCEPT ![j] = r] /\ r.at = "queued" /\ r.conn = c
          /\ login[j].at = "idle" /\ session[c] = NoUser /\ UNCHANGED session
          /\ \A i \in LoginJob : login[i].at # "idle" => login[i].conn # c
        BY <1>1 DEF LoginRequest, LoginTask
    <2> HIDE DEF r
    <2>2. login'[j] = r /\ \A i \in LoginJob \ {j} : login'[i] = login[i]
        BY <2>1 DEF TypeOK
    <2>3. OneTask'
        BY <2>1, <2>2 DEF ReaderInv, TaskInv, OneTask
    <2>4. TaskOwned'
        BY <2>1, <2>2 DEF ReaderInv, TaskInv, TaskOwned
    <2>5. \A d \in Conn, v \in User : Owns(d, v) => Owns(d, v)'
        BY <2>1, <2>2 DEF Owns
    <2> QED BY <2>3, <2>4, <2>5 DEF TaskInv
<1>2. ASSUME NEW j \in LoginJob, LoginStep(j) PROVE Kept
    <2> USE DEF Go, Finish
    <2>0. TaskInv
        BY DEF ReaderInv
    <2>1. ASSUME Finish(j), UNCHANGED session, login[j].at \in {"queued", "drain", "pop"} PROVE Kept
        <3>1. NoLogin.at = "idle"
            BY DEF NoLogin
        <3>2. PICK r : r = NoLogin
            OBVIOUS
        <3> QED BY <2>0, <2>1, <3>1, <3>2, TaskMoves
    <2>2. ASSUME NEW a \in {"verified", "inserted"}, Go(j, a), UNCHANGED session,
                 login[j].at \in {"queued", "verified"}
          PROVE  Kept
        <3>1. PICK r : r = LoginTask(a, login[j].conn, login[j].user, NoMsg)
            OBVIOUS
        <3>2. r.at = a /\ r.conn = login[j].conn
            BY <3>1 DEF LoginTask
        <3> QED BY <2>0, <2>2, <3>1, <3>2, TaskMoves
    <2>3. ASSUME NEW a \in {"drain", "pop"}, Go(j, a), UNCHANGED session,
                 login[j].at \in {"drain", "pop", "send"}
          PROVE  Kept
        <3>1. PICK r : r = LoginTask(a, login[j].conn, login[j].user, NoMsg)
            OBVIOUS
        <3>2. r.at = a /\ r.conn = login[j].conn /\ r.user = login[j].user
            BY <3>1 DEF LoginTask
        <3>3. r.user # NoUser => session[r.conn] = r.user
            BY <2>0, <2>3, <3>2 DEF TaskInv, TaskOwned
        <3> QED BY <2>0, <2>3, <3>1, <3>2, <3>3, TaskMoves
    <2>4. CASE LoginVerify(j)
        BY <2>1, <2>2, <2>4 DEF LoginVerify
    <2>5. CASE LoginInsert(j)
        BY <2>2, <2>5 DEF LoginInsert
    <2>6. CASE LoginReply(j)
        <3> DEFINE c0 == login[j].conn
        <3>1. c0 \in Conn /\ login[j].at = "inserted" /\ login[j].user \in User
            BY <2>6, TaskFields DEF LoginReply
        <3>2. PICK u \in GetUserid(c0) : IF u = NoUser
                 THEN crashed' = TRUE /\ UNCHANGED <<session, login>>
                 ELSE /\ session' = [session EXCEPT ![c0] = u]
                      /\ login' = [login EXCEPT ![j] = LoginTask("replied", c0, login[j].user, NoMsg)]
            BY <2>6 DEF LoginReply
        <3>3. CASE u = NoUser
            BY <3>2, <3>3, <1>0
        <3>4. CASE u # NoUser
            <4>1. u \in User /\ onlineUsers[u] = c0
                BY <3>1, <3>2, <3>4, Lookups
            <4>2. u = login[j].user
                BY <3>1, <4>1, LookedUp
            <4>3. session[c0] = NoUser
                BY <3>1 DEF ReaderInv, TaskInv, TaskOwned
            <4>4. /\ session'[c0] = u /\ \A c \in Conn \ {c0} : session'[c] = session[c]
                  /\ login'[j].at = "replied" /\ login'[j].conn = c0
                  /\ \A i \in LoginJob \ {j} : login'[i] = login[i]
                BY <3>1, <3>2, <3>4 DEF TypeOK, LoginTask
            <4>5. \A i \in LoginJob \ {j} : login[i].at # "idle" => login[i].conn \in Conn \ {c0}
                BY <3>1, TaskFields DEF ReaderInv, TaskInv, OneTask, LoginStates
            <4>6. OneTask'
                BY <3>1, <4>4 DEF ReaderInv, TaskInv, OneTask
            <4>7. TaskOwned'
                <5> SUFFICES ASSUME NEW i \in LoginJob
                             PROVE  /\ login'[i].at \in {"queued", "verified", "inserted"}
                                         => session'[login'[i].conn] = NoUser
                                    /\ (login'[i].at \in {"drain", "pop", "send"} /\ login'[i].user # NoUser)
                                         => session'[login'[i].conn] = login'[i].user
                                    /\ login'[i].at = "send" => Receiver[login'[i].msg] = login'[i].user
                    BY DEF TaskOwned
                <5>1. CASE i = j
                    BY <4>4, <5>1
                <5>2. CASE i # j
                    BY <4>4, <4>5, <5>2 DEF ReaderInv, TaskInv, TaskOwned
                <5> QED BY <5>1, <5>2
            <4>8. ASSUME NEW c \in Conn, NEW v \in User, Owns(c, v) PROVE Owns(c, v)'
                <5>1. CASE session[c] = v
                    BY <4>3, <4>4, <5>1, NoneAssumption DEF Owns
                <5>2. CASE session[c] # v
                    <6>1. PICK i \in LoginJob : /\ login[i].at = "inserted" /\ login[i].conn = c
                                                /\ login[i].user = v
                        BY <4>8, <5>2 DEF Owns
                    <6>2. CASE i = j
                        BY <4>2, <4>4, <6>1, <6>2 DEF Owns
                    <6>3. CASE i # j
                        BY <4>4, <6>1, <6>3 DEF Owns
                    <6> QED BY <6>2, <6>3
                <5> QED BY <5>1, <5>2
            <4> QED BY <4>6, <4>7, <4>8 DEF TaskInv
        <3> QED BY <3>3, <3>4
    <2>7. CASE LoginLookup(j)
        <3>1. login[j].conn \in Conn /\ login[j].at = "replied" /\ UNCHANGED session
            BY <2>7, TaskFields DEF LoginLookup
        <3>2. PICK u \in GetUserid(login[j].conn) :
                 login' = [login EXCEPT ![j] = LoginTask("drain", login[j].conn, u, NoMsg)]
            BY <2>7 DEF LoginLookup
        <3>3. u # NoUser => session[login[j].conn] = u
            BY <3>1, <3>2, Lookups, LookedUp
        <3>4. PICK r : r = LoginTask("drain", login[j].conn, u, NoMsg)
            OBVIOUS
        <3>5. r.at = "drain" /\ r.conn = login[j].conn /\ r.user = u
            BY <3>4 DEF LoginTask
        <3> QED BY <2>0, <3>1, <3>2, <3>3, <3>4, <3>5, TaskMoves
    <2>8. CASE DrainTest(j)
        BY <2>1, <2>3, <2>8 DEF DrainTest
    <2>9. CASE DrainPop(j)
        <3> DEFINE box == offline[login[j].user]
                   n   == Len(box)
        <3>1. box \in Seq(Msg) /\ login[j].user \in User /\ login[j].at = "pop" /\ UNCHANGED session
            BY <2>9, TaskFields DEF TypeOK, DrainPop
        <3>2. CASE n = 0
            BY <2>1, <2>9, <3>2 DEF DrainPop
        <3>3. CASE n # 0
            <4>1. n \in DOMAIN box
                BY <3>1, <3>3, LenProperties
            <4>2. Receiver[box[n]] = login[j].user
                BY <3>1, <4>1 DEF ReaderInv, BoxOwned
            <4>3. session[login[j].conn] = login[j].user
                BY <3>1, NoneAssumption DEF ReaderInv, TaskInv, TaskOwned
            <4>4. PICK r : r = LoginTask("send", login[j].conn, login[j].user, box[n])
                OBVIOUS
            <4>5. /\ r.at = "send" /\ r.conn = login[j].conn
                  /\ r.user = login[j].user /\ r.msg = box[n]
                BY <4>4 DEF LoginTask
            <4>6. login' = [login EXCEPT ![j] = r]
                BY <2>9, <3>3, <4>4 DEF DrainPop
            <4> QED BY <2>0, <3>1, <4>2, <4>3, <4>5, <4>6, TaskMoves
        <3> QED BY <3>2, <3>3
    <2>10. CASE DrainSend(j)
        BY <2>3, <2>10 DEF DrainSend
    <2> QED BY <1>2, <2>4, <2>5, <2>6, <2>7, <2>8, <2>9, <2>10 DEF LoginStep
<1>3. ASSUME NEW c \in Conn, Connected(c) \/ ForceClose(c) \/ Disconnected(c) PROVE Kept
    BY <1>0, <1>3 DEF Connected, ForceClose, Disconnected
<1>4. ASSUME NEW m \in Msg, ChatLookup(m) \/ ChatStep(m) PROVE Kept
    BY <1>0, <1>4 DEF ChatLookup, ChatStep, ChatDeliver, ChatStore
<1>5. ASSUME NEW j \in ResetJob, ResetErase(j) \/ \E u \in User : ResetLookup(j, u) PROVE Kept
    BY <1>0, <1>5 DEF ResetErase, ResetLookup
<1>6. CASE UNCHANGED vars
    BY <1>0, <1>6 DEF vars
<1> QED BY <1>1, <1>2, <1>3, <1>4, <1>5, <1>6 DEF Next

\* The four parts that speak of owners, when their state shrinks or stays.
LEMMA StayOwned ==
    ASSUME TypeOK, ReaderInv, TypeOK',
           \A c \in Conn, u \in User : Owns(c, u) => Owns(c, u)'
    PROVE  /\ (\A u \in User : onlineUsers'[u] = onlineUsers[u] \/ onlineUsers'[u] = NoConn)
                 => TableOwned'
           /\ target' = target => TargetOwned'
           /\ handed' = handed => HandedOwned'
           /\ offline' = offline => BoxOwned'
<1>1. ASSUME \A u \in User : onlineUsers'[u] = onlineUsers[u] \/ onlineUsers'[u] = NoConn
      PROVE  TableOwned'
    <2> SUFFICES ASSUME NEW u \in User, onlineUsers'[u] # NoConn
                 PROVE  Owns(onlineUsers[u], u)'
        BY DEF TableOwned
    <2>1. onlineUsers[u] # NoConn /\ onlineUsers[u] \in Conn /\ onlineUsers'[u] = onlineUsers[u]
        BY <1>1 DEF TypeOK
    <2>2. PICK c \in Conn : c = onlineUsers[u]
        BY <2>1
    <2>3. Owns(c, u)'
        BY <2>1, <2>2 DEF ReaderInv, TableOwned
    <2> QED BY <2>1, <2>2, <2>3 DEF Owns
<1>2. ASSUME target' = target PROVE TargetOwned'
    <2> SUFFICES ASSUME NEW m \in Msg, target'[m] # NoConn
                 PROVE  Owns(target[m], Receiver[m])'
        BY DEF TargetOwned
    <2>1. PICK c \in Conn : c = target[m]
        BY <1>2 DEF TypeOK
    <2>2. Owns(c, Receiver[m])'
        BY <1>2, <2>1, PartyAssumption DEF ReaderInv, TargetOwned
    <2> QED BY <1>2, <2>1, <2>2 DEF Owns
<1>3. ASSUME handed' = handed PROVE HandedOwned'
    <2> SUFFICES ASSUME NEW c \in Conn, NEW i \in DOMAIN handed[c]
                 PROVE  Owns(c, Receiver[handed[c][i]])'
        BY <1>3 DEF HandedOwned
    <2>1. handed[c] \in Seq(Msg)
        BY DEF TypeOK
    <2>2. PICK m \in Msg : m = handed[c][i]
        BY <2>1, ElementOfSeq, LenProperties
    <2>3. PICK u \in User : u = Receiver[m]
        BY PartyAssumption
    <2>4. Owns(c, u)'
        BY <2>2, <2>3 DEF ReaderInv, HandedOwned
    <2> QED BY <1>3, <2>2, <2>3, <2>4 DEF Owns
<1>4. ASSUME offline' = offline PROVE BoxOwned'
    BY <1>4 DEF ReaderInv, BoxOwned
<1> QED BY <1>1, <1>2, <1>3, <1>4

\* A message goes to a connection of its receiver.
LEMMA SentOwned ==
    ASSUME TypeOK, ReaderInv, TypeOK', NEW c \in Conn, NEW m \in Msg, SendMsg(c, m),
           Owns(c, Receiver[m]),
           \A d \in Conn, u \in User : Owns(d, u) => Owns(d, u)'
    PROVE  HandedOwned'
<1> SUFFICES ASSUME NEW d \in Conn, NEW i \in DOMAIN (handed'[d])
             PROVE  Owns(d, Receiver[handed[d][i]])'
    BY DEF HandedOwned
<1>1. handed[d] \in Seq(Msg) /\ handed'[d] \in Seq(Msg)
    BY DEF TypeOK
<1>2. PICK n \in Msg : n = handed'[d][i]
    BY <1>1, ElementOfSeq, LenProperties
<1>3. PICK u \in User : u = Receiver[n]
    BY PartyAssumption
<1>4. Owns(d, u)
    <2>1. CASE handed'[d] = handed[d]
        BY <1>2, <1>3, <2>1 DEF ReaderInv, HandedOwned
    <2>2. CASE d = c /\ handed'[d] = Append(handed[d], m)
        <3>1. n = m \/ (i \in DOMAIN handed[d] /\ n = handed[d][i])
            BY <1>1, <1>2, <2>2, AppendProperties, LenProperties
        <3> QED BY <1>3, <2>2, <3>1 DEF ReaderInv, HandedOwned
    <2> QED BY <2>1, <2>2, Sending
<1>5. Owns(d, u)'
    BY <1>4
<1> QED BY <1>2, <1>3, <1>5 DEF Owns

LEMMA ReaderStep == TypeOK /\ TypeOK' /\ ReaderInv /\ [Next]_vars => ReaderInv'
<1> SUFFICES ASSUME TypeOK, TypeOK', ReaderInv, [Next]_vars PROVE ReaderInv'
    OBVIOUS
<1> USE DEF msgVars, boxVars
<1>0. TaskInv' /\ \A c \in Conn, u \in User : Owns(c, u) => Owns(c, u)'
    BY OwnersKept
<1>1. ASSUME UNCHANGED <<onlineUsers, target, handed, offline>> PROVE ReaderInv'
    BY <1>0, <1>1, StayOwned DEF ReaderInv
<1>2. ASSUME NEW c, EraseConn(c), UNCHANGED <<target, handed, offline>> PROVE ReaderInv'
    BY <1>0, <1>2, StayOwned, Erasing DEF ReaderInv
<1>3. ASSUME NEW j \in LoginJob, LoginInsert(j) PROVE ReaderInv'
    <2>1. PICK c \in Conn, v \in User : c = login[j].conn /\ v = login[j].user
        BY <1>3, TaskFields DEF LoginInsert
    <2>2. login'[j].at = "inserted" /\ login'[j].conn = c /\ login'[j].user = v
        BY <1>3, <2>1 DEF LoginInsert, Go, LoginTask, TypeOK
    <2>3. Owns(c, v)'
        BY <2>2 DEF Owns
    <2>4. TableOwned'
        <3> SUFFICES ASSUME NEW u \in User, onlineUsers'[u] # NoConn
                     PROVE  Owns(onlineUsers[u], u)'
            BY DEF TableOwned
        <3>1. CASE u = v
            BY <1>3, <2>1, <2>3, <3>1 DEF LoginInsert, TypeOK, Owns
        <3>2. CASE u # v
            <4>1. onlineUsers'[u] = onlineUsers[u]
                BY <1>3, <2>1, <3>2 DEF LoginInsert, TypeOK
            <4>2. PICK d \in Conn : d = onlineUsers[u]
                BY <4>1 DEF TypeOK
            <4>3. Owns(d, u)'
                BY <1>0, <4>1, <4>2 DEF ReaderInv, TableOwned
            <4> QED BY <4>1, <4>2, <4>3 DEF Owns
        <3> QED BY <3>1, <3>2
    <2> QED BY <1>0, <1>3, <2>4, StayOwned DEF ReaderInv, LoginInsert
<1>4. ASSUME NEW j \in LoginJob, DrainPop(j) PROVE ReaderInv'
    <2>1. BoxOwned'
        <3> DEFINE n == Len(offline[login[j].user])
        <3>1. CASE n = 0
            BY <1>4, <3>1 DEF DrainPop, ReaderInv, BoxOwned
        <3>2. CASE n # 0
            <4>1. PICK v \in User : v = login[j].user
                BY <1>4, TaskFields DEF DrainPop
            <4>2. offline[v] \in Seq(Msg) /\ n \in Nat \ {0}
                BY <3>2, <4>1, LenProperties DEF TypeOK
            <4>3. offline' = [offline EXCEPT ![v] = SubSeq(offline[v], 1, n - 1)]
                BY <1>4, <3>2, <4>1 DEF DrainPop
            <4>4. PICK front : front = SubSeq(offline[v], 1, n - 1)
                OBVIOUS
            <4>5. \A i \in DOMAIN front : \E k \in DOMAIN offline[v] : front[i] = offline[v][k]
                BY <4>1, <4>2, <4>4, SubSeqProperties, LenProperties
            <4>6. offline'[v] = front /\ \A u \in User \ {v} : offline'[u] = offline[u]
                BY <4>3, <4>4 DEF TypeOK
            <4> QED BY <4>5, <4>6 DEF ReaderInv, BoxOwned
        <3> QED BY <3>1, <3>2
    <2> QED BY <1>0, <1>4, <2>1, StayOwned DEF ReaderInv, DrainPop
<1>5. ASSUME NEW j \in LoginJob, DrainSend(j) PROVE ReaderInv'
    <2>1. PICK c \in Conn, v \in User, m \in Msg :
             c = login[j].conn /\ v = login[j].user /\ m = login[j].msg
        BY <1>5, TaskFields DEF DrainSend
    <2>2. SendMsg(c, m) /\ login[j].at = "send"
        BY <1>5, <2>1 DEF DrainSend
    <2>3. session[c] = v /\ Receiver[m] = v
        BY <2>1, <2>2, NoneAssumption DEF ReaderInv, TaskInv, TaskOwned
    <2>4. HandedOwned'
        BY <1>0, <2>2, <2>3, SentOwned DEF Owns
    <2> QED BY <1>0, <1>5, <2>4, StayOwned DEF ReaderInv, DrainSend
<1>6. ASSUME NEW m \in Msg, ChatLookup(m) PROVE ReaderInv'
    <2>1. PICK v \in User : v = Receiver[m]
        BY PartyAssumption
    <2>2. TargetOwned'
        <3> SUFFICES ASSUME NEW n \in Msg, target'[n] # NoConn
                     PROVE  Owns(target[n], Receiver[n])'
            BY DEF TargetOwned
        <3>1. PICK c \in Conn, u \in User : c = target'[n] /\ u = Receiver[n]
            BY PartyAssumption DEF TypeOK
        <3>2. target'[n] = target[n] \/ (n = m /\ target'[n] = onlineUsers[v])
            BY <1>6, <2>1, Lookups DEF ChatLookup, TypeOK
        <3>3. Owns(c, u)
            BY <2>1, <3>1, <3>2 DEF ReaderInv, TargetOwned, TableOwned
        <3>4. Owns(c, u)'
            BY <1>0, <3>3
        <3> QED BY <3>1, <3>4 DEF Owns
    <2> QED BY <1>0, <1>6, <2>2, StayOwned DEF ReaderInv, ChatLookup
<1>7. ASSUME NEW m \in Msg, ChatDeliver(m) PROVE ReaderInv'
    <2>1. HandedOwned'
        <3>1. CASE UNCHANGED handed
            BY <1>0, <3>1, StayOwned
        <3>2. CASE SendMsg(target[m], m) /\ target[m] # NoConn
            <4>1. PICK c \in Conn : c = target[m]
                BY <3>2 DEF TypeOK
            <4>2. Owns(c, Receiver[m])
                BY <3>2, <4>1 DEF ReaderInv, TargetOwned
            <4> QED BY <1>0, <3>2, <4>1, <4>2, SentOwned
        <3> QED BY <1>7, <3>1, <3>2 DEF ChatDeliver
    <2>2. BoxOwned'
        <3>1. CASE UNCHANGED offline
            BY <1>0, <3>1, StayOwned
        <3>2. CASE offline' = [offline EXCEPT ![Receiver[m]] = <<m>> \o @]
            <4>1. PICK v \in User : v = Receiver[m]
                BY PartyAssumption
            <4>2. offline[v] \in Seq(Msg) /\ <<m>> \in Seq(Msg) /\ Len(<<m>>) = 1 /\ <<m>>[1] = m
                BY DEF TypeOK
            <4>3. PICK box : box = <<m>> \o offline[v]
                OBVIOUS
            <4>4. \A i \in DOMAIN box : box[i] = m \/ \E k \in DOMAIN offline[v] : box[i] = offline[v][k]
                <5>1. /\ box \in Seq(Msg) /\ Len(box) = 1 + Len(offline[v])
                      /\ \A i \in 1..Len(box) : box[i] = IF i <= 1 THEN <<m>>[i] ELSE offline[v][i - 1]
                    BY <4>2, <4>3, ConcatProperties
                <5>2. Len(offline[v]) \in Nat /\ DOMAIN offline[v] = 1..Len(offline[v])
                         /\ DOMAIN box = 1..Len(box)
                    BY <4>2, <5>1, LenProperties
                <5> SUFFICES ASSUME NEW i \in DOMAIN box, i # 1
                             PROVE  \E k \in DOMAIN offline[v] : box[i] = offline[v][k]
                    BY <4>2, <5>1, <5>2
                <5>3. i - 1 \in DOMAIN offline[v]
                    BY <5>1, <5>2
                <5>4. box[i] = offline[v][i - 1]
                    BY <5>1, <5>2
                <5> QED BY <5>3, <5>4
            <4>5. offline'[v] = box /\ \A u \in User \ {v} : offline'[u] = offline[u]
                BY <3>2, <4>1, <4>3 DEF TypeOK
            <4> QED BY <4>1, <4>4, <4>5 DEF ReaderInv, BoxOwned
        <3> QED BY <1>7, <3>1, <3>2 DEF ChatDeliver
    <2> QED BY <1>0, <1>7, <2>1, <2>2, StayOwned DEF ReaderInv, ChatDeliver
<1>8. ASSUME NEW j \in LoginJob, LoginStep(j) PROVE ReaderInv'
    BY <1>1, <1>3, <1>4, <1>5, <1>8
       DEF LoginStep, LoginVerify, LoginReply, LoginLookup, DrainTest
<1>9. ASSUME NEW c \in Conn, Connected(c) \/ ForceClose(c) \/ Disconnected(c)
               \/ \E j \in LoginJob, u \in User : LoginRequest(j, c, u)
      PROVE  ReaderInv'
    BY <1>1, <1>2, <1>9 DEF Connected, ForceClose, Disconnected, LoginRequest
<1>10. ASSUME NEW m \in Msg, ChatStep(m) PROVE ReaderInv'
    BY <1>1, <1>7, <1>10 DEF ChatStep, ChatStore
<1>11. ASSUME NEW j \in ResetJob, ResetErase(j) \/ \E u \in User : ResetLookup(j, u)
       PROVE  ReaderInv'
    BY <1>1, <1>2, <1>11 DEF ResetErase, ResetLookup
<1>12. CASE UNCHANGED vars
    BY <1>1, <1>12 DEF vars
<1> QED BY <1>6, <1>8, <1>9, <1>10, <1>11, <1>12 DEF Next

LEMMA ReaderInit == Init => ReaderInv
<1> SUFFICES ASSUME Init PROVE ReaderInv
    OBVIOUS
<1>1. TableOwned /\ TargetOwned
    BY DEF Init, TableOwned, TargetOwned
<1>2. HandedOwned /\ BoxOwned
    BY DEF Init, HandedOwned, BoxOwned
<1>3. TaskInv
    BY DEF Init, TaskInv, OneTask, TaskOwned, NoLogin
<1> QED BY <1>1, <1>2, <1>3 DEF ReaderInv

\* A message that Chatter or sendMessageOffLine hands to a connection is for the
\* user who logged in on that connection, in every reachable state.
THEOREM ReadersAreRight == Spec => []RightReader
<1>1. ReaderInv => RightReader
    BY DEF ReaderInv, HandedOwned, Owns, RightReader
<1> QED BY <1>1, ReaderInit, TypeCorrect, ReaderStep, PTL DEF Spec
-----------------------------------------------------------------------------
(* CrashHasCause.  A task whose user has lost the entry that it made keeps *)
(* a cause until it answers: what is gone, done or answered stays so, and  *)
(* a login that took the place becomes the user's session when answered.   *)

\* Why the entry of an inserted task may be missing.
Cause(j) ==
    \/ phase[login[j].conn] = "down"
    \/ \E r \in ResetJob : reset[r].at = "done"
    \/ \E d \in Conn \ {login[j].conn} : session[d] = login[j].user
    \/ \E i \in LoginJob \ {j} : login[i].at = "inserted" /\ login[i].user = login[j].user

Entered(j) == onlineUsers[login[j].user] = login[j].conn

CauseInv ==
    /\ \A j \in LoginJob : login[j].at = "inserted" => Entered(j) \/ Cause(j)
    /\ CrashHasCause

\* What keeps a cause.
LEMMA CauseKept ==
    ASSUME TypeOK, NEW j \in LoginJob, login[j].at = "inserted", login'[j] = login[j], Cause(j),
           \A c \in Conn : phase[c] = "down" => phase'[c] = "down",
           \A r \in ResetJob : reset[r].at = "done" => reset'[r].at = "done",
           \A c \in Conn : session[c] # NoUser => session'[c] = session[c],
           \A i \in LoginJob \ {j} : login[i].at = "inserted" =>
              \/ login'[i] = login[i]
              \/ /\ login[i].conn \in Conn \ {login[j].conn}
                 /\ session'[login[i].conn] = login[i].user
    PROVE  Cause(j)'
<1>1. login[j].conn \in Conn /\ login[j].user \in User
    BY TaskFields
<1>2. CASE phase[login[j].conn] = "down"
    BY <1>1, <1>2 DEF Cause
<1>3. CASE \E r \in ResetJob : reset[r].at = "done"
    BY <1>3 DEF Cause
<1>4. CASE \E d \in Conn \ {login[j].conn} : session[d] = login[j].user
    BY <1>1, <1>4, NoneAssumption DEF Cause
<1>5. CASE \E i \in LoginJob \ {j} : login[i].at = "inserted" /\ login[i].user = login[j].user
    <2>1. PICK i \in LoginJob \ {j} : login[i].at = "inserted" /\ login[i].user = login[j].user
        BY <1>5
    <2>2. CASE login'[i] = login[i]
        BY <2>1, <2>2 DEF Cause
    <2>3. CASE login[i].conn \in Conn \ {login[j].conn} /\ session'[login[i].conn] = login[i].user
        BY <2>1, <2>3 DEF Cause
    <2> QED BY <2>1, <2>2, <2>3
<1> QED BY <1>2, <1>3, <1>4, <1>5 DEF Cause

\* As long as nobody has crashed, a step that leaves the answered sessions and the other
\* inserted tasks alone, and the entries of these but for a cause, keeps the invariant.
LEMMA EntriesKept ==
    ASSUME TypeOK, CauseInv, ~crashed',
           \A c \in Conn : phase[c] = "down" => phase'[c] = "down",
           \A r \in ResetJob : reset[r].at = "done" => reset'[r].at = "done",
           UNCHANGED session,
           \A i \in LoginJob : login[i].at = "inserted" => login'[i] = login[i],
           \A i \in LoginJob : login'[i].at = "inserted" =>
              \/ login[i].at # "inserted" /\ Entered(i)'
              \/ login[i].at = "inserted" /\ (Entered(i) => Entered(i)' \/ Cause(i)')
    PROVE  CauseInv'
<1>1. ASSUME NEW j \in LoginJob, login'[j].at = "inserted" PROVE Entered(j)' \/ Cause(j)'
    <2>1. CASE login[j].at # "inserted"
        BY <1>1, <2>1
    <2>2. CASE login[j].at = "inserted" /\ Cause(j)
        BY <2>2, CauseKept
    <2>3. CASE login[j].at = "inserted" /\ ~Cause(j)
        BY <1>1, <2>3 DEF CauseInv
    <2> QED BY <2>1, <2>2, <2>3
<1> QED BY <1>1 DEF CauseInv, CrashHasCause

LEMMA CauseStep == TypeOK /\ TypeOK' /\ ReaderInv /\ CauseInv /\ [Next]_vars => CauseInv'
<1> SUFFICES ASSUME TypeOK, TypeOK', ReaderInv, CauseInv, [Next]_vars PROVE CauseInv'
    OBVIOUS
<1> USE DEF msgVars, boxVars
<1>0. \A j \in LoginJob : login[j].at = "inserted" => login[j].conn \in Conn /\ login[j].user \in User
    BY TaskFields
<1>1. ASSUME NEW c \in Conn, Connected(c) \/ ForceClose(c) PROVE CauseInv'
    <2>1. /\ \A d \in Conn : phase[d] = "down" => phase'[d] = "down"
          /\ ~crashed' /\ UNCHANGED <<onlineUsers, reset, session, login>>
        BY <1>1 DEF Connected, ForceClose, TypeOK
    <2> QED BY <2>1, EntriesKept DEF Entered
<1>2. ASSUME NEW c \in Conn, Disconnected(c) PROVE CauseInv'
    <2>1. /\ \A d \in Conn : phase[d] = "down" => phase'[d] = "down"
          /\ phase'[c] = "down" /\ ~crashed' /\ UNCHANGED <<reset, session, login>>
        BY <1>2 DEF Disconnected, TypeOK
    <2>2. \A u \in User : onlineUsers'[u] = onlineUsers[u] \/ onlineUsers[u] = c
        BY <1>2 DEF Disconnected, EraseConn, UsersOf, TypeOK
    <2>3. ASSUME NEW i \in LoginJob, login[i].at = "inserted", Entered(i)
          PROVE  Entered(i)' \/ Cause(i)'
        <3>1. onlineUsers'[login[i].user] = onlineUsers[login[i].user] \/ login[i].conn = c
            BY <1>0, <2>2, <2>3 DEF Entered
        <3> QED BY <2>1, <2>3, <3>1 DEF Entered, Cause
    <2> QED BY <2>1, <2>3, EntriesKept
<1>3. ASSUME NEW j \in LoginJob, LoginInsert(j) PROVE CauseInv'
    <2>1. PICK c \in Conn, v \in User : c = login[j].conn /\ v = login[j].user
        BY <1>3, TaskFields DEF LoginInsert
    <2>2. /\ login[j].at = "verified"
          /\ login'[j].at = "inserted" /\ login'[j].conn = c /\ login'[j].user = v
          /\ \A i \in LoginJob \ {j} : login'[i] = login[i]
          /\ onlineUsers'[v] = c /\ \A u \in User \ {v} : onlineUsers'[u] = onlineUsers[u]
          /\ ~crashed' /\ UNCHANGED <<phase, session, reset>>
        BY <1>3, <2>1 DEF LoginInsert, Go, LoginTask, TypeOK
    <2>3. ASSUME NEW i \in LoginJob, login'[i].at = "inserted"
          PROVE  \/ login[i].at # "inserted" /\ Entered(i)'
                 \/ login[i].at = "inserted" /\ (Entered(i) => Entered(i)' \/ Cause(i)')
        <3>1. CASE i = j
            BY <2>2, <3>1 DEF Entered
        <3>2. CASE i # j /\ login[i].user = v
            BY <2>2, <2>3, <3>2 DEF Cause
        <3>3. CASE i # j /\ login[i].user # v
            BY <1>0, <2>2, <2>3, <3>3 DEF Entered
        <3> QED BY <3>1, <3>2, <3>3
    <2> QED BY <2>2, <2>3, EntriesKept
<1>4. ASSUME NEW j \in LoginJob, LoginReply(j) PROVE CauseInv'
    <2> DEFINE c0 == login[j].conn
    <2>1. c0 \in Conn /\ login[j].at = "inserted" /\ login[j].user \in User /\ ~crashed
        BY <1>0, <1>4 DEF LoginReply
    <2>2. PICK u \in GetUserid(c0) : IF u = NoUser
             THEN crashed' = TRUE /\ UNCHANGED <<session, login>>
             ELSE /\ session' = [session EXCEPT ![c0] = u]
                  /\ login' = [login EXCEPT ![j] = LoginTask("replied", c0, login[j].user, NoMsg)]
                  /\ UNCHANGED crashed
        BY <1>4 DEF LoginReply, Go
    <2>3. UNCHANGED <<phase, onlineUsers, reset>>
        BY <1>4 DEF LoginReply
    <2>4. CASE u = NoUser
        <3>1. onlineUsers[login[j].user] # c0
            BY <2>1, <2>2, <2>4, NoneAssumption DEF GetUserid, UsersOf
        <3>2. Cause(j)
            BY <2>1, <3>1 DEF CauseInv, Entered
        <3>3. CrashHasCause'
            BY <2>1, <2>2, <2>3, <2>4, <3>2 DEF Cause, CrashHasCause
        <3>4. \A i \in LoginJob : (Entered(i)' <=> Entered(i)) /\ (Cause(i)' <=> Cause(i))
            BY <2>2, <2>3, <2>4 DEF Cause, Entered
        <3> QED BY <2>2, <2>4, <3>3, <3>4 DEF CauseInv
    <2>5. CASE u # NoUser
        <3>1. u \in User /\ onlineUsers[u] = c0
            BY <2>1, <2>2, <2>5, Lookups
        <3>2. u = login[j].user
            BY <2>1, <3>1, LookedUp
        <3>3. session[c0] = NoUser
            BY <2>1 DEF ReaderInv, TaskInv, TaskOwned
        <3>4. /\ session'[c0] = u /\ \A c \in Conn \ {c0} : session'[c] = session[c]
              /\ login'[j].at = "replied" /\ ~crashed'
              /\ \A i \in LoginJob \ {j} : login'[i] = login[i]
            BY <2>1, <2>2, <2>5 DEF TypeOK, LoginTask
        <3>5. ASSUME NEW i \in LoginJob, login'[i].at = "inserted" PROVE Entered(i)' \/ Cause(i)'
            <4>1. i # j /\ login'[i] = login[i] /\ login[i].at = "inserted"
                BY <3>4, <3>5
            <4>2. c0 \in Conn \ {login[i].conn}
                BY <2>1, <4>1 DEF ReaderInv, TaskInv, OneTask
            <4>3. CASE Entered(i)
                BY <2>3, <4>1, <4>3 DEF Entered
            <4>4. CASE Cause(i)
                <5>1. \A c \in Conn : session[c] # NoUser => session'[c] = session[c]
                    BY <3>3, <3>4
                <5>2. \A k \in LoginJob \ {i} : login[k].at = "inserted" =>
                         \/ login'[k] = login[k]
                         \/ /\ login[k].conn \in Conn \ {login[i].conn}
                            /\ session'[login[k].conn] = login[k].user
                    BY <3>2, <3>4, <4>2
                <5> QED BY <2>3, <4>1, <4>4, <5>1, <5>2, CauseKept
            <4> QED BY <4>1, <4>3, <4>4 DEF CauseInv
        <3> QED BY <3>4, <3>5 DEF CauseInv, CrashHasCause
    <2> QED BY <2>4, <2>5
<1>5. ASSUME NEW j \in ResetJob, ResetErase(j) PROVE CauseInv'
    <2>1. reset'[j].at = "done" /\ \A r \in ResetJob \ {j} : reset'[r] = reset[r]
        BY <1>5 DEF ResetErase, TypeOK
    <2>2. ~crashed' /\ UNCHANGED <<phase, session, login>>
        BY <1>5 DEF ResetErase
    <2> QED BY <2>1, <2>2, EntriesKept DEF Cause
<1>6. ASSUME NEW j \in ResetJob, NEW u \in User, ResetLookup(j, u) PROVE CauseInv'
    <2>1. reset[j].at = "none" /\ \A r \in ResetJob \ {j} : reset'[r] = reset[r]
        BY <1>6 DEF ResetLookup, TypeOK
    <2>2. ~crashed' /\ UNCHANGED <<phase, onlineUsers, session, login>>
        BY <1>6 DEF ResetLookup
    <2> QED BY <2>1, <2>2, EntriesKept DEF Entered
<1>7. ASSUME NEW j \in LoginJob, ~crashed', UNCHANGED <<phase, onlineUsers, session, reset>>,
             login[j].at # "inserted", login'[j].at # "inserted",
             \A i \in LoginJob \ {j} : login'[i] = login[i]
      PROVE  CauseInv'
    BY <1>7, EntriesKept DEF Entered
<1>8. ASSUME NEW j \in LoginJob,
             \/ LoginVerify(j) \/ LoginLookup(j) \/ DrainTest(j) \/ DrainPop(j) \/ DrainSend(j)
             \/ \E c \in Conn, u \in User : LoginRequest(j, c, u)
      PROVE  CauseInv'
    <2>1. ~crashed' /\ UNCHANGED <<phase, onlineUsers, session, reset>> /\ login[j].at # "inserted"
        BY <1>8 DEF LoginVerify, LoginLookup, DrainTest, DrainPop, DrainSend, LoginRequest
    <2>2. \E r : login' = [login EXCEPT ![j] = r] /\ r.at # "inserted"
        BY <1>8 DEF LoginVerify, LoginLookup, DrainTest, DrainPop, DrainSend, LoginRequest,
                    Go, Finish, LoginTask, NoLogin
    <2>3. login'[j].at # "inserted" /\ \A i \in LoginJob \ {j} : login'[i] = login[i]
        BY <2>2 DEF TypeOK
    <2> QED BY <1>7, <2>1, <2>3
<1>9. ASSUME NEW m \in Msg, ChatLookup(m) \/ ChatStep(m) PROVE CauseInv'
    <2>1. ~crashed' /\ UNCHANGED <<phase, onlineUsers, session, reset, login>>
        BY <1>9 DEF ChatLookup, ChatStep, ChatDeliver, ChatStore
    <2> QED BY <2>1, EntriesKept DEF Entered
<1>10. CASE UNCHANGED vars
    BY <1>10 DEF vars, CauseInv, Entered, Cause, CrashHasCause
<1> QED BY <1>1, <1>2, <1>3, <1>4, <1>5, <1>6, <1>8, <1>9, <1>10 DEF Next, LoginStep

\* The second lookup of a login kills the process only when between the insertion and the
\* answer the client went away, a password was reset, or another login took the place.
THEOREM CrashesHaveCauses == Spec => []CrashHasCause
<1>1. ASSUME Init PROVE ReaderInv /\ CauseInv
    <2>1. ReaderInv
        BY <1>1, ReaderInit
    <2>2. CauseInv
        BY <1>1 DEF Init, CauseInv, CrashHasCause, NoLogin
    <2> QED BY <2>1, <2>2
<1>2. CauseInv => CrashHasCause
    BY DEF CauseInv
<1> QED BY <1>1, <1>2, TypeCorrect, ReaderStep, CauseStep, PTL DEF Spec
-----------------------------------------------------------------------------
(* OnePlace.  The set of the places of a message is followed through every *)
(* step: it is a singleton, never just a set with one element counted.     *)

\* The places of a message, one by one.
LEMMA Places ==
    ASSUME NEW O, NEW lists, DOMAIN lists = O, NEW kind, NEW m, NEW p
    PROVE  p \in InLists(kind, lists, m) <=>
              \E o \in O : \E i \in DOMAIN lists[o] : p = <<kind, o, i>> /\ lists[o][i] = m
BY DEF InLists

\* The lists after one of them has been changed.
WithLast(lists, o, n)  == [lists EXCEPT ![o] = Append(@, n)]
WithFirst(lists, o, n) == [lists EXCEPT ![o] = <<n>> \o @]
WithoutLast(lists, o)  == [lists EXCEPT ![o] = SubSeq(@, 1, Len(@) - 1)]

\* A message that is appended to a list of one kind.
LEMMA Appended ==
    ASSUME NEW O, NEW lists \in [O -> Seq(Msg)], NEW kind, NEW o \in O, NEW n \in Msg,
           NEW new, new = WithLast(lists, o, n)
    PROVE  /\ \A m : m # n => InLists(kind, new, m) = InLists(kind, lists, m)
           /\ InLists(kind, new, n)
                = InLists(kind, lists, n) \cup {<<kind, o, Len(lists[o]) + 1>>}
<1> DEFINE k == Len(lists[o])
<1>1. lists[o] \in Seq(Msg) /\ k \in Nat /\ DOMAIN lists[o] = 1 .. k
    BY LenProperties
<1>2. /\ DOMAIN new[o] = 1 .. k + 1 /\ new[o][k + 1] = n
      /\ \A i \in 1 .. k : new[o][i] = lists[o][i]
    <2>1. new[o] = Append(lists[o], n)
        BY DEF WithLast
    <2>2. /\ Append(lists[o], n) \in Seq(Msg) /\ Len(Append(lists[o], n)) = k + 1
          /\ \A i \in 1 .. k : Append(lists[o], n)[i] = lists[o][i]
          /\ Append(lists[o], n)[k + 1] = n
        BY <1>1, AppendProperties
    <2>3. DOMAIN Append(lists[o], n) = 1 .. k + 1
        BY <2>2, LenProperties
    <2> QED BY <2>1, <2>2, <2>3
<1>3. /\ DOMAIN new = O /\ DOMAIN lists = O
      /\ \A u \in O \ {o} : new[u] = lists[u]
    BY DEF WithLast
<1>4. ASSUME NEW m, m # n PROVE InLists(kind, new, m) = InLists(kind, lists, m)
    <2>1. ASSUME NEW p
          PROVE  (\E u \in O : \E i \in DOMAIN new[u] : p = <<kind, u, i>> /\ new[u][i] = m)
                   <=> (\E u \in O : \E i \in DOMAIN lists[u] :
                            p = <<kind, u, i>> /\ lists[u][i] = m)
        <3>1. ASSUME NEW u \in O, NEW i, p = <<kind, u, i>>
              PROVE  (i \in DOMAIN new[u] /\ new[u][i] = m)
                       <=> (i \in DOMAIN lists[u] /\ lists[u][i] = m)
            <4>1. CASE u # o BY <1>3, <4>1
            <4>2. CASE u = o BY <1>1, <1>2, <1>4, <4>2
            <4> QED BY <4>1, <4>2
        <3> QED BY <3>1
    <2>2. ASSUME NEW p PROVE p \in InLists(kind, new, m) <=> p \in InLists(kind, lists, m)
        <3>1. p \in InLists(kind, new, m)
                <=> \E u \in O : \E i \in DOMAIN new[u] : p = <<kind, u, i>> /\ new[u][i] = m
            BY ONLY <1>3, Places
        <3>2. p \in InLists(kind, lists, m)
                <=> \E u \in O : \E i \in DOMAIN lists[u] : p = <<kind, u, i>> /\ lists[u][i] = m
            BY ONLY <1>3, Places
        <3> QED BY <2>1, <3>1, <3>2
    <2> QED BY <2>2
<1>5. InLists(kind, new, n) = InLists(kind, lists, n) \cup {<<kind, o, k + 1>>}
    <2>1. ASSUME NEW p
          PROVE  (\E u \in O : \E i \in DOMAIN new[u] : p = <<kind, u, i>> /\ new[u][i] = n)
                   <=> ((\E u \in O : \E i \in DOMAIN lists[u] :
                            p = <<kind, u, i>> /\ lists[u][i] = n) \/ p = <<kind, o, k + 1>>)
        <3>1. ASSUME NEW u \in O, NEW i
              PROVE  (i \in DOMAIN new[u] /\ new[u][i] = n)
                       <=> ((i \in DOMAIN lists[u] /\ lists[u][i] = n) \/ (u = o /\ i = k + 1))
            <4>1. CASE u # o BY <1>3, <4>1
            <4>2. CASE u = o BY <1>1, <1>2, <4>2
            <4> QED BY <4>1, <4>2
        <3> QED BY <3>1
    <2>2. ASSUME NEW p
          PROVE  p \in InLists(kind, new, n)
                   <=> (p \in InLists(kind, lists, n) \/ p = <<kind, o, k + 1>>)
        <3>1. p \in InLists(kind, new, n)
                <=> \E u \in O : \E i \in DOMAIN new[u] : p = <<kind, u, i>> /\ new[u][i] = n
            BY ONLY <1>3, Places
        <3>2. p \in InLists(kind, lists, n)
                <=> \E u \in O : \E i \in DOMAIN lists[u] : p = <<kind, u, i>> /\ lists[u][i] = n
            BY ONLY <1>3, Places
        <3> QED BY <2>1, <3>1, <3>2
    <2> QED BY <2>2
<1> QED BY <1>4, <1>5

\* A set with one element.
Single(S) == \E p : S = {p}

\* A message that is put in front of a list: whatever had one place still has one.
LEMMA PutInFront ==
    ASSUME NEW O, NEW lists \in [O -> Seq(Msg)], NEW kind, NEW o \in O, NEW n \in Msg,
           NEW new, new = WithFirst(lists, o, n), NEW m
    PROVE  /\ InLists(kind, lists, m) = {}
                => InLists(kind, new, m) = IF m = n THEN {<<kind, o, 1>>} ELSE {}
           /\ m # n /\ Single(InLists(kind, lists, m)) => Single(InLists(kind, new, m))
<1> DEFINE k == Len(lists[o])
           Was(u, i, x)  == i \in DOMAIN lists[u] /\ lists[u][i] = x
           Now(u, i, x) == i \in DOMAIN new[u] /\ new[u][i] = x
<1>1. /\ DOMAIN new = O /\ DOMAIN lists = O
      /\ \A u \in O \ {o} : new[u] = lists[u]
      /\ \A u \in O : DOMAIN lists[u] \subseteq Nat
    BY LenProperties DEF WithFirst
<1>2. \A i : Now(o, i, m) <=> (i = 1 /\ m = n) \/ (i \in Nat /\ Was(o, i - 1, m))
    <2>1. lists[o] \in Seq(Msg) /\ k \in Nat /\ DOMAIN lists[o] = 1 .. k
        BY LenProperties
    <2>2. new[o] = <<n>> \o lists[o]
        BY DEF WithFirst
    <2>3. <<n>> \in Seq(Msg) /\ Len(<<n>>) = 1 /\ <<n>>[1] = n
        OBVIOUS
    <2>4. /\ new[o] \in Seq(Msg) /\ Len(new[o]) = 1 + k
          /\ \A i \in 1 .. 1 + k : new[o][i] = IF i <= 1 THEN <<n>>[i] ELSE lists[o][i - 1]
        BY <2>1, <2>2, <2>3, ConcatProperties
    <2>5. DOMAIN new[o] = 1 .. 1 + k
        BY <2>1, <2>4, LenProperties
    <2>6. ASSUME NEW i \in 1 .. 1 + k PROVE new[o][i] = IF i = 1 THEN n ELSE lists[o][i - 1]
        BY <2>1, <2>3, <2>4
    <2> HIDE DEF k
    <2> QED BY ONLY <2>1, <2>5, <2>6
<1>3. ASSUME NEW p
      PROVE  /\ p \in InLists(kind, lists, m)
                  <=> \E u \in O : \E i \in DOMAIN lists[u] : p = <<kind, u, i>> /\ lists[u][i] = m
             /\ p \in InLists(kind, new, m)
                  <=> \E u \in O : \E i \in DOMAIN new[u] : p = <<kind, u, i>> /\ new[u][i] = m
    BY ONLY <1>1, Places
<1>4. ASSUME NEW p
      PROVE  /\ p \in InLists(kind, lists, m) <=> \E u \in O, i \in Nat : p = <<kind, u, i>> /\ Was(u, i, m)
             /\ p \in InLists(kind, new, m) <=>
                  \E u \in O, i \in Nat :
                      /\ p = <<kind, u, i>>
                      /\ IF u = o THEN (i = 1 /\ m = n) \/ Was(o, i - 1, m) ELSE Was(u, i, m)
    <2>1. p \in InLists(kind, lists, m) <=> \E u \in O, i \in Nat : p = <<kind, u, i>> /\ Was(u, i, m)
        BY <1>1, <1>3
    <2>2. p \in InLists(kind, new, m) <=> \E u \in O : \E i : p = <<kind, u, i>> /\ Now(u, i, m)
        BY ONLY <1>3 DEF Now
    <2>3. ASSUME NEW u \in O, NEW i
          PROVE  Now(u, i, m) <=>
                   i \in Nat /\ IF u = o THEN (i = 1 /\ m = n) \/ Was(o, i - 1, m) ELSE Was(u, i, m)
        <3>1. CASE u # o
            BY ONLY <1>1, <3>1, u \in O DEF Now, At
        <3>2. CASE u = o
            <4> HIDE DEF At, Now
            <4> QED BY ONLY <1>2, <3>2
        <3> QED BY <3>1, <3>2
    <2> HIDE DEF At, Now
    <2> QED BY ONLY <2>1, <2>2, <2>3
<1>5. \A u \in O : \A i : Was(u, i, m) => i \in Nat
    BY <1>1
<1> HIDE DEF At, Now, k
<1>6. ASSUME InLists(kind, lists, m) = {}
      PROVE  InLists(kind, new, m) = IF m = n THEN {<<kind, o, 1>>} ELSE {}
    <2>1. \A u \in O : \A i : ~Was(u, i, m)
        BY ONLY <1>4, <1>5, <1>6
    <2>2. ASSUME NEW p PROVE p \in InLists(kind, new, m) <=> m = n /\ p = <<kind, o, 1>>
        BY ONLY <1>4, <2>1, o \in O
    <2> QED BY ONLY <2>2
<1>7. ASSUME m # n, NEW p, InLists(kind, lists, m) = {p}
      PROVE  Single(InLists(kind, new, m))
    <2>1. PICK u \in O, i \in Nat : p = <<kind, u, i>> /\ Was(u, i, m)
        BY ONLY <1>4, <1>7
    <2>2. \A v \in O, j \in Nat : Was(v, j, m) => <<kind, v, j>> \in InLists(kind, lists, m)
        BY ONLY <1>4
    <2>3. ASSUME NEW v \in O, NEW j, Was(v, j, m) PROVE v = u /\ j = i
        BY ONLY <1>5, <1>7, <2>1, <2>2, <2>3
    <2>4. PICK j \in Nat : j = IF u = o THEN i + 1 ELSE i
        OBVIOUS
    <2>5. ASSUME NEW q PROVE q \in InLists(kind, new, m) <=> q = <<kind, u, j>>
        <3>1. ASSUME NEW v \in O, NEW l \in Nat
              PROVE  (IF v = o THEN (l = 1 /\ m = n) \/ Was(o, l - 1, m) ELSE Was(v, l, m))
                        <=> v = u /\ l = j
            BY ONLY <1>7, <2>1, <2>3, <2>4
        <3> QED BY ONLY <1>4, <2>4, <3>1
    <2>6. InLists(kind, new, m) = {<<kind, u, j>>}
        BY ONLY <2>5
    <2> QED BY ONLY <2>6 DEF Single
<1> QED BY <1>6, <1>7 DEF Single

\* The last message of a list is taken from it.
LEMMA LastTaken ==
    ASSUME NEW O, NEW lists \in [O -> Seq(Msg)], NEW kind, NEW o \in O, Len(lists[o]) # 0,
           NEW new, new = WithoutLast(lists, o)
    PROVE  LET last == <<kind, o, Len(lists[o])>> IN
           /\ \A m : InLists(kind, new, m) = InLists(kind, lists, m) \ {last}
           /\ \A m : last \in InLists(kind, lists, m) <=> m = lists[o][Len(lists[o])]
<1> DEFINE k == Len(lists[o])
<1>1. /\ DOMAIN new = O /\ DOMAIN lists = O
      /\ \A u \in O \ {o} : new[u] = lists[u]
    BY DEF WithoutLast
<1>2. lists[o] \in Seq(Msg) /\ k \in Nat \ {0} /\ DOMAIN lists[o] = 1 .. k
    BY LenProperties
<1>3. DOMAIN new[o] = 1 .. k - 1 /\ \A i \in 1 .. k - 1 : new[o][i] = lists[o][i]
    <2>1. new[o] = SubSeq(lists[o], 1, k - 1)
        BY DEF WithoutLast
    <2>2. \A i \in 1 .. k - 1 : lists[o][i] \in Msg
        BY <1>2, ElementOfSeq
    <2>3. /\ SubSeq(lists[o], 1, k - 1) \in Seq(Msg)
          /\ Len(SubSeq(lists[o], 1, k - 1)) = IF 1 <= k - 1 THEN k - 1 - 1 + 1 ELSE 0
          /\ \A i \in 1 .. k - 1 - 1 + 1 : SubSeq(lists[o], 1, k - 1)[i] = lists[o][1 + i - 1]
        BY <1>2, <2>2, SubSeqProperties
    <2>4. Len(new[o]) = k - 1 /\ DOMAIN new[o] = 1 .. Len(new[o])
        BY <1>2, <2>1, <2>3, LenProperties
    <2>5. ASSUME NEW i \in 1 .. k - 1 PROVE new[o][i] = lists[o][i]
        <3>1. 1 + i - 1 = i /\ i \in 1 .. k - 1 - 1 + 1
            BY <1>2
        <3> QED BY <2>1, <2>3, <3>1
    <2> QED BY <2>4, <2>5
<1>4. ASSUME NEW m, NEW p
      PROVE  /\ p \in InLists(kind, lists, m)
                  <=> \E u \in O : \E i \in DOMAIN lists[u] : p = <<kind, u, i>> /\ lists[u][i] = m
             /\ p \in InLists(kind, new, m)
                  <=> \E u \in O : \E i \in DOMAIN new[u] : p = <<kind, u, i>> /\ new[u][i] = m
    BY ONLY <1>1, Places
<1> HIDE DEF k
<1>5. ASSUME NEW m PROVE InLists(kind, new, m) = InLists(kind, lists, m) \ {<<kind, o, k>>}
    <2>1. ASSUME NEW u \in O, NEW i
          PROVE  (i \in DOMAIN new[u] /\ new[u][i] = m)
                    <=> (i \in DOMAIN lists[u] /\ lists[u][i] = m /\ ~(u = o /\ i = k))
        BY ONLY <1>1, <1>2, <1>3
    <2>2. ASSUME NEW p
          PROVE  p \in InLists(kind, new, m)
                    <=> p \in InLists(kind, lists, m) /\ p # <<kind, o, k>>
        BY ONLY <1>4, <2>1
    <2> QED BY ONLY <2>2
<1>6. ASSUME NEW m PROVE <<kind, o, k>> \in InLists(kind, lists, m) <=> m = lists[o][k]
    BY ONLY <1>2, <1>4, o \in O
<1> QED BY <1>5, <1>6 DEF k

\* A message that has been delivered has one place, any other has none.
Given(m)  == chat[m] \in {"delivered", "stored"}
PlaceInv ==
    \A m \in Msg : IF Given(m) THEN Single(Holders(m)) ELSE Holders(m) = {}

\* The places that only sendJson adds.
Outside(m) == InLists("handed", handed, m) \cup {<<"dropped", n, 0>> : n \in dropped \cap {m}}

\* What sendJson adds: one place for the message that it was given, if it had none.
LEMMA OutsideGrows ==
    ASSUME TypeOK, NEW c \in Conn, NEW m \in Msg, SendMsg(c, m)
    PROVE  /\ \A n \in Msg : n # m => Outside(n)' = Outside(n)
           /\ Outside(m) = {} => Single(Outside(m)')
<1>1. handed \in [Conn -> Seq(Msg)] /\ dropped \subseteq Msg
    BY DEF TypeOK
<1>2. CASE phase[c] = "up"
    <2>1. handed' = [handed EXCEPT ![c] = Append(@, m)] /\ dropped' = dropped
        BY <1>2 DEF SendMsg
    <2>2. /\ \A n : n # m => InLists("handed", handed', n) = InLists("handed", handed, n)
          /\ InLists("handed", handed', m)
               = InLists("handed", handed, m) \cup {<<"handed", c, Len(handed[c]) + 1>>}
        <3>1. PICK new : new = handed'
            OBVIOUS
        <3>2. /\ c \in Conn /\ m \in Msg /\ handed \in [Conn -> Seq(Msg)]
              /\ new = WithLast(handed, c, m)
            BY <1>1, <2>1, <3>1 DEF WithLast
        <3>3. /\ \A n : n # m => InLists("handed", new, n) = InLists("handed", handed, n)
              /\ InLists("handed", new, m)
                   = InLists("handed", handed, m) \cup {<<"handed", c, Len(handed[c]) + 1>>}
            BY ONLY <3>2, Appended
        <3> QED BY ONLY <3>1, <3>3
    <2>3. \A n : /\ Outside(n)' = InLists("handed", handed', n)
                                     \cup {<<"dropped", x, 0>> : x \in dropped' \cap {n}}
                 /\ Outside(n) = InLists("handed", handed, n)
                                     \cup {<<"dropped", x, 0>> : x \in dropped \cap {n}}
        BY DEF Outside
    <2>4. \A n \in Msg : n # m => Outside(n)' = Outside(n)
        BY <2>1, <2>2, <2>3
    <2>5. Outside(m)' = Outside(m) \cup {<<"handed", c, Len(handed[c]) + 1>>}
        BY <2>1, <2>2, <2>3
    <2> QED BY <2>4, <2>5 DEF Single
<1>3. CASE phase[c] # "up"
    <2>1. dropped' = dropped \cup {m} /\ handed' = handed
        BY <1>3 DEF SendMsg
    <2>2. \A n \in Msg : n # m => Outside(n)' = Outside(n)
        BY <2>1 DEF Outside
    <2>3. Outside(m)' = InLists("handed", handed, m) \cup {<<"dropped", m, 0>>}
        BY <2>1 DEF Outside
    <2>4. InLists("handed", handed, m) \subseteq Outside(m)
        BY DEF Outside
    <2> QED BY <2>2, <2>3, <2>4 DEF Single
<1> QED BY <1>2, <1>3

\* A step that moves no message.
LEMMA StayPlaced ==
    ASSUME PlaceInv, UNCHANGED boxVars,
           \A m \in Msg : Carriers(m)' = Carriers(m) /\ (Given(m)' <=> Given(m))
    PROVE  PlaceInv'
<1>1. \A m \in Msg : Holders(m)' = Holders(m)
    BY DEF Holders, boxVars
<1> QED BY <1>1 DEF PlaceInv

\* A task that does not hold a message and comes to hold none.
LEMMA StayEmptyHanded ==
    ASSUME TypeOK, NEW j \in LoginJob, NEW r, login' = [login EXCEPT ![j] = r],
           login[j].at # "send", r.at # "send"
    PROVE  \A m : Carriers(m)' = Carriers(m)
BY DEF TypeOK, Carriers

\* Each step moves at most one message, from one place to another.
LEMMA PlaceStep == TypeOK /\ PlaceInv /\ [Next]_vars => PlaceInv'
<1> SUFFICES ASSUME TypeOK, PlaceInv, [Next]_vars PROVE PlaceInv'
    OBVIOUS
<1>0. handed \in [Conn -> Seq(Msg)] /\ offline \in [User -> Seq(Msg)]
    BY DEF TypeOK
<1>1. ASSUME UNCHANGED <<boxVars, login, chat>> PROVE PlaceInv'
    <2>1. \A m \in Msg : Carriers(m)' = Carriers(m) /\ (Given(m)' <=> Given(m))
        BY <1>1 DEF Carriers, Given
    <2> QED BY <1>1, <2>1, StayPlaced
<1>2. ASSUME UNCHANGED <<boxVars, chat>>, NEW j \in LoginJob, login[j].at # "send",
             NEW r, r.at # "send", login' = [login EXCEPT ![j] = r]
      PROVE  PlaceInv'
    <2>1. \A m \in Msg : Carriers(m)' = Carriers(m) /\ (Given(m)' <=> Given(m))
        BY <1>2, StayEmptyHanded DEF Given
    <2> QED BY <1>2, <2>1, StayPlaced
<1>3. ASSUME UNCHANGED <<boxVars, login>>, NEW m \in Msg, NEW s, chat' = [chat EXCEPT ![m] = s],
             chat[m] \in {"delivered", "stored"} <=> s \in {"delivered", "stored"}
      PROVE  PlaceInv'
    <2>1. \A n \in Msg : Carriers(n)' = Carriers(n) /\ (Given(n)' <=> Given(n))
        BY <1>3 DEF Carriers, Given, TypeOK
    <2> QED BY <1>3, <2>1, StayPlaced
<1>4. ASSUME NEW c \in Conn, Connected(c) \/ ForceClose(c) \/ Disconnected(c) PROVE PlaceInv'
    BY <1>1, <1>4 DEF Connected, ForceClose, Disconnected, msgVars
<1>5. ASSUME NEW j \in ResetJob, ResetErase(j) \/ \E u \in User : ResetLookup(j, u)
      PROVE  PlaceInv'
    BY <1>1, <1>5 DEF ResetErase, ResetLookup, msgVars
<1>6. ASSUME NEW c \in Conn, NEW j \in LoginJob, NEW u \in User, LoginRequest(j, c, u)
      PROVE  PlaceInv'
    <2>1. PICK r : r = LoginTask("queued", c, u, NoMsg)
        OBVIOUS
    <2>2. r.at # "send"
        BY <2>1 DEF LoginTask
    <2> QED BY <1>2, <1>6, <2>1, <2>2 DEF LoginRequest, msgVars
<1>7. ASSUME NEW m \in Msg, ChatLookup(m) PROVE PlaceInv'
    BY <1>3, <1>7 DEF ChatLookup
<1>8. ASSUME NEW m \in Msg, ChatStore(m) PROVE PlaceInv'
    BY <1>3, <1>8 DEF ChatStore
<1>9. ASSUME NEW m \in Msg, ChatDeliver(m) PROVE PlaceInv'
    <2>0. /\ UNCHANGED login /\ chat[m] = "looked" /\ Receiver[m] \in User
          /\ chat \in [Msg -> {"unsent", "looked", "refused", "delivered", "stored"}]
        BY <1>9, PartyAssumption DEF ChatDeliver, TypeOK
    <2>1. CASE <<Receiver[m], Sender[m]>> \notin Friends
        BY <1>3, <1>9, <2>1 DEF ChatDeliver
    <2>2. ASSUME chat' = [chat EXCEPT ![m] = "delivered"]
          PROVE  /\ Given(m)' /\ Holders(m) = {}
                 /\ \A n \in Msg : n # m => (Given(n)' <=> Given(n))
                 /\ \A n \in Msg : Carriers(n)' = Carriers(n)
        BY <2>0, <2>2 DEF Given, PlaceInv, Carriers
    <2>3. CASE <<Receiver[m], Sender[m]>> \in Friends /\ target[m] # NoConn
        <3>1. /\ SendMsg(target[m], m) /\ offline' = offline /\ target[m] \in Conn
              /\ chat' = [chat EXCEPT ![m] = "delivered"]
            BY <1>9, <2>3 DEF ChatDeliver, TypeOK
        <3>2. /\ \A n \in Msg : n # m => Outside(n)' = Outside(n)
              /\ Outside(m) = {} => Single(Outside(m)')
            BY <3>1, OutsideGrows
        <3>3. \A n : /\ Holders(n) = Outside(n) \cup InLists("offline", offline, n)
                                       \cup {<<"task", j, 0>> : j \in Carriers(n)}
                     /\ Holders(n)' = Outside(n)' \cup InLists("offline", offline, n)
                                       \cup {<<"task", j, 0>> : j \in Carriers(n)'}
            BY <3>1 DEF Holders, Outside
        <3>4. \A n \in Msg : n # m => Holders(n)' = Holders(n)
            BY <2>2, <3>1, <3>2, <3>3
        <3>5. Single(Holders(m)')
            <4>1. Outside(m) = {} /\ InLists("offline", offline, m) = {} /\ Carriers(m)' = {}
                BY <2>2, <3>1, <3>3
            <4> QED BY <3>2, <3>3, <4>1
        <3> QED BY <2>2, <3>1, <3>4, <3>5 DEF PlaceInv
    <2>4. CASE <<Receiver[m], Sender[m]>> \in Friends /\ target[m] = NoConn
        <3> DEFINE u == Receiver[m]
        <3>1. /\ offline' = [offline EXCEPT ![u] = <<m>> \o @] /\ UNCHANGED <<handed, dropped>>
              /\ chat' = [chat EXCEPT ![m] = "delivered"]
            BY <1>9, <2>4 DEF ChatDeliver
        <3>2. PICK new : new = offline'
            OBVIOUS
        <3> HIDE DEF u
        <3>10. /\ u \in User /\ m \in Msg /\ offline \in [User -> Seq(Msg)]
               /\ new = WithFirst(offline, u, m)
            BY <1>0, <2>0, <3>1, <3>2 DEF u, WithFirst
        <3>3. /\ InLists("offline", offline, m) = {}
                   => InLists("offline", new, m) = {<<"offline", u, 1>>}
              /\ \A n : n # m /\ InLists("offline", offline, n) = {}
                           => InLists("offline", new, n) = {}
              /\ \A n : n # m /\ Single(InLists("offline", offline, n))
                           => Single(InLists("offline", new, n))
            <4>1. InLists("offline", offline, m) = {}
                    => InLists("offline", new, m) = {<<"offline", u, 1>>}
                BY ONLY <3>10, PutInFront
            <4>2. ASSUME NEW n, n # m, InLists("offline", offline, n) = {}
                  PROVE  InLists("offline", new, n) = {}
                BY ONLY <3>10, <4>2, PutInFront
            <4>3. ASSUME NEW n, n # m, Single(InLists("offline", offline, n))
                  PROVE  Single(InLists("offline", new, n))
                BY ONLY <3>10, <4>3, PutInFront
            <4> QED BY <4>1, <4>2, <4>3
        <3>4. \A n : /\ Holders(n) = Outside(n) \cup InLists("offline", offline, n)
                                       \cup {<<"task", j, 0>> : j \in Carriers(n)}
                     /\ Holders(n)' = Outside(n) \cup InLists("offline", new, n)
                                       \cup {<<"task", j, 0>> : j \in Carriers(n)'}
            BY <3>1, <3>2 DEF Holders, Outside
        <3>5. Single(Holders(m)')
            <4>1. Holders(m)' = {<<"offline", u, 1>>}
                BY <2>2, <3>1, <3>3, <3>4
            <4> QED BY <4>1 DEF Single
        <3>6. ASSUME NEW n \in Msg, n # m
              PROVE  /\ Holders(n) = {} => Holders(n)' = {}
                     /\ Single(Holders(n)) => Single(Holders(n)')
            <4>1. CASE InLists("offline", offline, n) = {}
                BY <2>2, <3>1, <3>3, <3>4, <3>6, <4>1
            <4>2. ASSUME NEW p, Holders(n) = {p}, p \in InLists("offline", offline, n)
                  PROVE  Single(Holders(n)')
                <5>1. InLists("offline", offline, n) = {p}
                    BY <3>4, <4>2
                <5>2. \E v \in User : \E i : p = <<"offline", v, i>>
                    <6>1. DOMAIN offline = User
                        BY <1>0
                    <6> QED BY ONLY <4>2, <6>1, Places
                <5>3. p \notin Outside(n) /\ \A j : p # <<"task", j, 0>>
                    <6>1. DOMAIN handed = Conn
                        BY <1>0
                    <6>2. p \notin InLists("handed", handed, n)
                        <7>1. p \in InLists("handed", handed, n)
                                => \E c \in Conn : \E i : p = <<"handed", c, i>>
                            BY ONLY <6>1, Places
                        <7> QED BY <5>2, <7>1
                    <6> QED BY <5>2, <6>2 DEF Outside
                <5>4. Outside(n) = {} /\ Carriers(n) = {}
                    BY <3>4, <4>2, <5>3
                <5>5. Carriers(n)' = {}
                    BY <2>2, <3>1, <5>4
                <5>6. Single(InLists("offline", new, n))
                    BY <3>3, <3>6, <5>1 DEF Single
                <5>7. Holders(n)' = InLists("offline", new, n)
                    BY <3>4, <5>4, <5>5
                <5> QED BY <5>6, <5>7
            <4> QED BY <3>4, <4>1, <4>2 DEF Single
        <3> QED BY <2>2, <3>1, <3>5, <3>6 DEF PlaceInv
    <2> QED BY <2>1, <2>3, <2>4
<1>10. ASSUME NEW j \in LoginJob, LoginStep(j) PROVE PlaceInv'
    <2>1. ASSUME UNCHANGED <<boxVars, chat>>, login[j].at # "send",
                 Finish(j) \/ \E a \in {"verified", "inserted", "replied", "pop"} : Go(j, a)
          PROVE  PlaceInv'
        <3>1. CASE Finish(j)
            <4>1. PICK r : r = NoLogin
                OBVIOUS
            <4> QED BY <1>2, <2>1, <3>1, <4>1 DEF Finish, NoLogin
        <3>2. ASSUME NEW a \in {"verified", "inserted", "replied", "pop"}, Go(j, a) PROVE PlaceInv'
            <4>1. PICK r : r = LoginTask(a, login[j].conn, login[j].user, NoMsg)
                OBVIOUS
            <4>2. r.at # "send"
                BY <4>1 DEF LoginTask
            <4> QED BY <1>2, <2>1, <3>2, <4>1, <4>2 DEF Go
        <3> QED BY <2>1, <3>1, <3>2
    <2>2. CASE LoginVerify(j) \/ LoginInsert(j) \/ DrainTest(j)
        BY <2>1, <2>2 DEF LoginVerify, LoginInsert, DrainTest, msgVars
    <2>3. CASE LoginReply(j)
        <3>1. UNCHANGED <<boxVars, chat>> /\ login[j].at = "inserted"
            BY <2>3 DEF LoginReply, msgVars
        <3>2. UNCHANGED login \/ Go(j, "replied")
            BY <2>3 DEF LoginReply
        <3> QED BY <1>1, <2>1, <3>1, <3>2
    <2>4. CASE LoginLookup(j)
        <3>1. PICK u, r : r = LoginTask("drain", login[j].conn, u, NoMsg) /\ login' = [login EXCEPT ![j] = r]
            BY <2>4 DEF LoginLookup
        <3>2. r.at # "send"
            BY <3>1 DEF LoginTask
        <3> QED BY <1>2, <2>4, <3>1, <3>2 DEF LoginLookup, msgVars
    <2>5. CASE DrainPop(j)
        <3> DEFINE u   == login[j].user
                   box == offline[u]
        <3>1. login[j].at = "pop" /\ u \in User /\ box \in Seq(Msg)
            BY <2>5, TaskFields DEF DrainPop, TypeOK
        <3>2. CASE Len(box) = 0
            BY <2>1, <2>5, <3>2 DEF DrainPop, boxVars, msgVars
        <3>3. CASE Len(box) # 0
            <4>3. PICK m \in Msg : m = box[Len(box)]
                BY <3>1, <3>3, ElementOfSeq, LenProperties
            <4>1. PICK r : r = LoginTask("send", login[j].conn, u, m)
                OBVIOUS
            <4>2. /\ login' = [login EXCEPT ![j] = r] /\ r.at = "send" /\ r.msg = m
                  /\ offline' = WithoutLast(offline, u)
                  /\ UNCHANGED <<handed, dropped, chat>>
                BY <2>5, <3>3, <4>1, <4>3 DEF DrainPop, LoginTask, WithoutLast, msgVars
            <4>4. PICK new : new = offline'
                OBVIOUS
            <4>5. PICK last : last = <<"offline", u, Len(box)>>
                OBVIOUS
            <4>6. \A n : /\ InLists("offline", new, n) = InLists("offline", offline, n) \ {last}
                         /\ last \in InLists("offline", offline, n) <=> n = m
                <5>1. offline \in [User -> Seq(Msg)] /\ Len(offline[u]) # 0 /\ u \in User
                    BY <1>0, <3>1, <3>3
                <5>2. new = WithoutLast(offline, u)
                    BY <4>2, <4>4
                <5>3. m = offline[u][Len(offline[u])]
                    BY <4>3
                <5> HIDE DEF u
                <5> QED BY ONLY <4>5, <5>1, <5>2, <5>3, LastTaken
            <4>7. \A n : Carriers(n)' = IF n = m THEN Carriers(n) \cup {j} ELSE Carriers(n)
                BY <3>1, <4>2 DEF Carriers, TypeOK
            <4> HIDE DEF box, u
            <4>8. \A n : /\ Holders(n) = Outside(n) \cup InLists("offline", offline, n)
                                           \cup {<<"task", i, 0>> : i \in Carriers(n)}
                         /\ Holders(n)' = Outside(n) \cup InLists("offline", new, n)
                                           \cup {<<"task", i, 0>> : i \in Carriers(n)'}
                BY <4>2, <4>4 DEF Holders, Outside
            <4>9. \A n \in Msg : n # m => Holders(n)' = Holders(n)
                BY <4>6, <4>7, <4>8
            <4>10. Single(Holders(m)')
                <5>1. last \in Holders(m)
                    BY <4>6, <4>8
                <5>2. Holders(m) = {last}
                    BY <5>1 DEF PlaceInv, Single
                <5>3. Outside(m) \subseteq {last} /\ {<<"task", i, 0>> : i \in Carriers(m)} \subseteq {last}
                    BY <4>8, <5>2
                <5>4. Carriers(m) = {}
                    <6>1. ASSUME NEW i \in Carriers(m) PROVE FALSE
                        <7>1. <<"task", i, 0>> = last
                            BY <5>3
                        <7> QED BY <4>5, <7>1
                    <6> QED BY <6>1
                <5>5. last \notin Outside(m)
                    <6>1. DOMAIN handed = Conn
                        BY <1>0
                    <6>2. last \in InLists("handed", handed, m)
                            => \E c \in Conn : \E i : last = <<"handed", c, i>>
                        BY ONLY <6>1, Places
                    <6> QED BY <4>5, <6>2 DEF Outside
                <5>6. Holders(m)' = {<<"task", j, 0>>}
                    <6>1. Outside(m) = {} /\ InLists("offline", new, m) = {} /\ Carriers(m)' = {j}
                        BY <4>6, <4>7, <4>8, <5>2, <5>3, <5>4, <5>5
                    <6> QED BY <4>8, <6>1
                <5> QED BY <5>6 DEF Single
            <4>11. Given(m) /\ \A n : Given(n)' <=> Given(n)
                <5>1. Holders(m) # {}
                    BY <4>6, <4>8
                <5> QED BY <4>2, <5>1 DEF PlaceInv, Given
            <4> QED BY <4>9, <4>10, <4>11 DEF PlaceInv
        <3> QED BY <3>2, <3>3
    <2>6. CASE DrainSend(j)
        <3>1. PICK m \in Msg : m = login[j].msg
            BY <2>6, TaskFields DEF DrainSend
        <3>2. PICK r : r = LoginTask("drain", login[j].conn, login[j].user, NoMsg)
            OBVIOUS
        <3>3. /\ login' = [login EXCEPT ![j] = r] /\ r.at = "drain" /\ login[j].at = "send"
              /\ SendMsg(login[j].conn, m) /\ login[j].conn \in Conn
              /\ UNCHANGED <<offline, chat>>
            BY <2>6, <3>1, <3>2, TaskFields DEF DrainSend, Go, LoginTask, msgVars
        <3>4. \A n : Carriers(n)' = IF n = m THEN Carriers(n) \ {j} ELSE Carriers(n)
            BY <3>1, <3>3 DEF Carriers, TypeOK
        <3>5. j \in Carriers(m)
            BY <3>1, <3>3 DEF Carriers
        <3>6. /\ \A n \in Msg : n # m => Outside(n)' = Outside(n)
              /\ Outside(m) = {} => Single(Outside(m)')
            BY <3>3, OutsideGrows
        <3>7. \A n : /\ Holders(n) = Outside(n) \cup InLists("offline", offline, n)
                                       \cup {<<"task", i, 0>> : i \in Carriers(n)}
                     /\ Holders(n)' = Outside(n)' \cup InLists("offline", offline, n)
                                       \cup {<<"task", i, 0>> : i \in Carriers(n)'}
            BY <3>3 DEF Holders, Outside
        <3>8. \A n \in Msg : n # m => Holders(n)' = Holders(n)
            BY <3>4, <3>6, <3>7
        <3>9. Single(Holders(m)')
            <4>1. <<"task", j, 0>> \in Holders(m)
                BY <3>5, <3>7
            <4>2. Holders(m) = {<<"task", j, 0>>}
                BY <4>1 DEF PlaceInv, Single
            <4>3. Carriers(m) = {j}
                <5>1. ASSUME NEW i \in Carriers(m) PROVE i = j
                    <6>1. <<"task", i, 0>> = <<"task", j, 0>>
                        BY <3>7, <4>2
                    <6> QED BY <6>1
                <5> QED BY <3>5, <5>1
            <4>4. <<"task", j, 0>> \notin Outside(m) \cup InLists("offline", offline, m)
                <5>1. DOMAIN handed = Conn /\ DOMAIN offline = User
                    BY <1>0
                <5>2. PICK p : p = <<"task", j, 0>>
                    OBVIOUS
                <5>3. p \in InLists("handed", handed, m)
                        => \E c \in Conn : \E i : p = <<"handed", c, i>>
                    BY ONLY <5>1, Places
                <5>4. p \in InLists("offline", offline, m)
                        => \E c \in User : \E i : p = <<"offline", c, i>>
                    BY ONLY <5>1, Places
                <5> QED BY <5>2, <5>3, <5>4 DEF Outside
            <4>5. Outside(m) = {} /\ InLists("offline", offline, m) = {}
                BY <3>7, <4>2, <4>4
            <4>6. Holders(m)' = Outside(m)'
                BY <3>4, <3>7, <4>3, <4>5
            <4> QED BY <3>6, <4>5, <4>6
        <3>10. Given(m) /\ \A n : Given(n)' <=> Given(n)
            <4>1. Holders(m) # {}
                BY <3>5, <3>7
            <4> QED BY <3>3, <4>1 DEF PlaceInv, Given
        <3> QED BY <3>8, <3>9, <3>10 DEF PlaceInv
    <2> QED BY <1>10, <2>2, <2>3, <2>4, <2>5, <2>6 DEF LoginStep
<1>11. CASE UNCHANGED vars
    BY <1>1, <1>11 DEF vars, msgVars, boxVars
<1> QED BY <1>4, <1>5, <1>6, <1>7, <1>8, <1>9, <1>10, <1>11 DEF Next, ChatStep

\* Chatter's split into online and offline and the drains of the logins neither lose nor
\* double a message: a delivered one is in exactly one place, any other in none.
THEOREM OnePlaceEach == Spec => []OnePlace
<1>1. ASSUME Init PROVE PlaceInv
    <2>1. \A m : Carriers(m) = {}
        BY <1>1 DEF Init, Carriers, NoLogin
    <2>2. \A m : InLists("handed", handed, m) = {} /\ InLists("offline", offline, m) = {}
        BY <1>1 DEF Init, InLists
    <2>3. \A m : Holders(m) = {}
        BY <1>1, <2>1, <2>2 DEF Init, Holders
    <2> QED BY <1>1, <2>3 DEF Init, PlaceInv, Given
<1>2. PlaceInv => OnePlace
    <2>1. \A S : Single(S) => Cardinality(S) = 1
        BY FS_Singleton DEF Single
    <2>2. Cardinality({}) = 0
        BY FS_EmptySet
    <2> QED BY <2>1, <2>2 DEF PlaceInv, OnePlace, Given
<1> QED BY <1>1, <1>2, TypeCorrect, PlaceStep, PTL DEF Spec
-----------------------------------------------------------------------------
(* The programs of the main thread. *)

OpName == {"goto", "getLogs", "clear", "newest", "older", "newer", "replace", "copy", "add",
           "check", "push", "store", "back", "spin"}

Instr == [op : OpName, arg : Kind \cup State]

Then(o, S) == {<<o>> \o s : s \in S}

\* From the end of a program to its beginning.
Rested(k)    == {<<>>, Goto(Chat(k)), <<Op("spin", k)>>}
Adding(k)    == Then(Op("add", k), Rested(k) \cup {EnterChat(k)})
Copying(k)   == Then(Op("copy", k), Adding(k))
Replacing(k) == Then(Op("replace", k), Copying(k))
Reading(k)   == Then(Op("newest", k), Replacing(k))
Paging(k)    == Then(Op("older", k), Replacing(k)) \cup Then(Op("newer", k), Replacing(k))
Clearing(k)  == Then(Op("clear", k), Reading(k))
Entering(k)  == Then(Op("getLogs", k), Clearing(k))
Opening(k)   == Then(Op("goto", Chat(k)), Entering(k) \cup Reading(k))
Storing(k)   == Then(Op("store", k), Copying(k) \cup Reading(k))
Pushing(k)   == Then(Op("push", k), Storing(k))
Checking(k)  == Then(Op("check", k), Pushing(k))
Leaving(k)   == {Goto("AWAY"), Goto("LOG_HISTORY") \o <<Op("back", k)>>, <<Op("back", k)>>}

Program(k) ==
    Rested(k) \cup Adding(k) \cup Copying(k) \cup Replacing(k) \cup Reading(k) \cup Paging(k)
      \cup Clearing(k) \cup Entering(k) \cup Opening(k) \cup Storing(k) \cup Pushing(k)
      \cup Checking(k) \cup Leaving(k)

\* Programs that flush no more: the copy has been made, if there was one.
Settled(k) == Rested(k) \cup Leaving(k) \cup Then(Op("add", k), Rested(k))

\* Programs that have still to read the newest page, and will.
Awaiting(k) == Clearing(k) \cup Entering(k) \cup Opening(k)

LEMMA InFrontOf ==
    ASSUME NEW o \in Instr, NEW s \in Seq(Instr)
    PROVE  /\ <<o>> \o s \in Seq(Instr) /\ <<o>> \o s # <<>>
           /\ Head(<<o>> \o s) = o /\ Tail(<<o>> \o s) = s
OBVIOUS

LEMMA TwoInFront ==
    ASSUME NEW o \in Instr, NEW q \in Instr, NEW s \in Seq(Instr)
    PROVE  <<o, q>> \o s = <<o>> \o (<<q>> \o s)
<1>1. <<o>> \in Seq(Instr) /\ <<q>> \in Seq(Instr) OBVIOUS
<1>2. <<o>> \o <<q>> = <<o, q>>
    <2>1. PICK t : t = <<o>> \o <<q>> OBVIOUS
    <2>2. t \in Seq(Instr) /\ Len(t) = 2 /\ t[1] = o /\ t[2] = q
        BY <1>1, <2>1, ConcatProperties
    <2>3. t = <<o, q>> BY ONLY <2>2
    <2> QED BY <2>1, <2>3
<1>3. (<<o>> \o <<q>>) \o s = <<o>> \o (<<q>> \o s)
    BY <1>1, ConcatAssociative
<1> QED BY <1>2, <1>3

LEMMA Firsts ==
    ASSUME NEW o \in Instr, NEW S \in SUBSET Seq(Instr)
    PROVE  /\ Then(o, S) \in SUBSET Seq(Instr)
           /\ \A s \in Then(o, S) :
                 s # <<>> /\ Head(s) = o /\ Tail(s) \in S /\ s = <<o>> \o Tail(s)
           /\ \A s \in S : <<o>> \o s \in Then(o, S)
<1>1. ASSUME NEW s \in S PROVE <<o>> \o s \in Then(o, S)
    BY DEF Then
<1>2. ASSUME NEW s \in Then(o, S)
      PROVE  /\ s \in Seq(Instr) /\ s # <<>> /\ Head(s) = o /\ Tail(s) \in S
             /\ s = <<o>> \o Tail(s)
    <2>1. PICK t \in S : s = <<o>> \o t BY <1>2 DEF Then
    <2>2. t \in Seq(Instr) OBVIOUS
    <2> QED BY <2>1, <2>2, InFrontOf
<1> QED BY <1>1, <1>2

Page3 == {"newest", "older", "newer"}

LEMMA Ops ==
    /\ \A name, arg : Op(name, arg).op = name /\ Op(name, arg).arg = arg
    /\ \A k \in Kind : \A name \in OpName : Op(name, k) \in Instr
    /\ \A s \in State : Op("goto", s) \in Instr /\ Goto(s) = <<Op("goto", s)>>
    /\ \A k \in Kind : Chat(k) \in State
BY DEF Op, Instr, Kind, Chat, State, Goto, OpName

LEMMA EnterIs ==
    ASSUME NEW k \in Kind
    PROVE  /\ Flush(k) \in Seq(Instr) /\ EnterChat(k) \in Seq(Instr)
           /\ \A s \in Seq(Instr) :
                 /\ Flush(k) \o s = <<Op("copy", k)>> \o (<<Op("add", k)>> \o s)
                 /\ \A page \in Page3 :
                       /\ Load(page, k) \in Seq(Instr)
                       /\ Load(page, k) \o s =
                             <<Op(page, k)>> \o (<<Op("replace", k)>> \o (Flush(k) \o s))
           /\ EnterChat(k) = <<Op("getLogs", k)>> \o (<<Op("clear", k)>> \o Load("newest", k))
<1> USE Ops
<1>1. Flush(k) \in Seq(Instr)
    <2>1. Op("copy", k) \in Instr /\ Op("add", k) \in Instr BY DEF OpName
    <2> QED BY ONLY <2>1 DEF Flush
<1>2. ASSUME NEW s \in Seq(Instr)
      PROVE  Flush(k) \o s = <<Op("copy", k)>> \o (<<Op("add", k)>> \o s)
    <2>1. Op("copy", k) \in Instr /\ Op("add", k) \in Instr BY DEF OpName
    <2> QED BY <2>1, TwoInFront DEF Flush
<1>3. ASSUME NEW page \in Page3
      PROVE  /\ Load(page, k) \in Seq(Instr)
             /\ Load(page, k) = <<Op(page, k), Op("replace", k)>> \o Flush(k)
             /\ <<Op(page, k), Op("replace", k)>> \in Seq(Instr)
    <2>1. Op(page, k) \in Instr /\ Op("replace", k) \in Instr BY DEF OpName, Page3
    <2>2. <<Op(page, k), Op("replace", k)>> \in Seq(Instr) BY ONLY <2>1
    <2>3. Load(page, k) = <<Op(page, k), Op("replace", k)>> \o Flush(k) BY DEF Load
    <2> QED BY ONLY <1>1, <2>2, <2>3, ConcatProperties
<1>4. ASSUME NEW page \in Page3, NEW s \in Seq(Instr)
      PROVE  Load(page, k) \o s =
                 <<Op(page, k)>> \o (<<Op("replace", k)>> \o (Flush(k) \o s))
    <2>1. Load(page, k) \o s = <<Op(page, k), Op("replace", k)>> \o (Flush(k) \o s)
        <3>1. PICK t : t = <<Op(page, k), Op("replace", k)>> OBVIOUS
        <3>2. t \in Seq(Instr) /\ Load(page, k) = t \o Flush(k) BY <1>3, <3>1
        <3>3. (t \o Flush(k)) \o s = t \o (Flush(k) \o s) BY <1>1, <3>2, ConcatAssociative
        <3> QED BY <3>1, <3>2, <3>3
    <2>2. Flush(k) \o s \in Seq(Instr) BY <1>1, ConcatProperties
    <2>3. Op(page, k) \in Instr /\ Op("replace", k) \in Instr BY DEF OpName, Page3
    <2> QED BY <2>1, <2>2, <2>3, TwoInFront
<1>5. Load("newest", k) \in Seq(Instr) BY <1>3 DEF Page3
<1>6. /\ EnterChat(k) = <<Op("getLogs", k)>> \o (<<Op("clear", k)>> \o Load("newest", k))
      /\ EnterChat(k) \in Seq(Instr)
    <2>1. Op("getLogs", k) \in Instr /\ Op("clear", k) \in Instr BY DEF OpName
    <2>2. <<Op("getLogs", k), Op("clear", k)>> \o Load("newest", k)
              = <<Op("getLogs", k)>> \o (<<Op("clear", k)>> \o Load("newest", k))
        BY <1>5, <2>1, TwoInFront
    <2>3. <<Op("clear", k)>> \o Load("newest", k) \in Seq(Instr) BY <1>5, <2>1, InFrontOf
    <2>4. <<Op("getLogs", k)>> \o (<<Op("clear", k)>> \o Load("newest", k)) \in Seq(Instr)
        BY <2>1, <2>3, InFrontOf
    <2> QED BY <2>2, <2>4 DEF EnterChat
<1> QED BY <1>1, <1>2, <1>3, <1>4, <1>6

\* The first steps of the parts.
First(s, name) == s # <<>> /\ Head(s).op = name

LEMMA FirstSteps ==
    ASSUME NEW k \in Kind
    PROVE  /\ Rested(k) \in SUBSET Seq(Instr) /\ EnterChat(k) \in Seq(Instr)
           /\ Adding(k) \in SUBSET Seq(Instr) /\ \A s \in Adding(k) :
                 s # <<>> /\ Head(s) = Op("add", k) /\ Tail(s) \in Rested(k) \cup {EnterChat(k)}
           /\ Copying(k) \in SUBSET Seq(Instr) /\ \A s \in Copying(k) :
                 s # <<>> /\ Head(s) = Op("copy", k) /\ Tail(s) \in Adding(k)
           /\ Replacing(k) \in SUBSET Seq(Instr) /\ \A s \in Replacing(k) :
                 s # <<>> /\ Head(s) = Op("replace", k) /\ Tail(s) \in Copying(k)
           /\ Reading(k) \in SUBSET Seq(Instr) /\ \A s \in Reading(k) :
                 s # <<>> /\ Head(s) = Op("newest", k) /\ Tail(s) \in Replacing(k)
           /\ Paging(k) \in SUBSET Seq(Instr) /\ \A s \in Paging(k) :
                 s # <<>> /\ Head(s) \in {Op("older", k), Op("newer", k)} /\ Tail(s) \in Replacing(k)
           /\ Clearing(k) \in SUBSET Seq(Instr) /\ \A s \in Clearing(k) :
                 s # <<>> /\ Head(s) = Op("clear", k) /\ Tail(s) \in Reading(k)
           /\ Entering(k) \in SUBSET Seq(Instr) /\ \A s \in Entering(k) :
                 s # <<>> /\ Head(s) = Op("getLogs", k) /\ Tail(s) \in Clearing(k)
           /\ Opening(k) \in SUBSET Seq(Instr) /\ \A s \in Opening(k) :
                 s # <<>> /\ Head(s) = Op("goto", Chat(k)) /\ Tail(s) \in Entering(k) \cup Reading(k)
           /\ Storing(k) \in SUBSET Seq(Instr) /\ \A s \in Storing(k) :
                 s # <<>> /\ Head(s) = Op("store", k) /\ Tail(s) \in Copying(k) \cup Reading(k)
           /\ Pushing(k) \in SUBSET Seq(Instr) /\ \A s \in Pushing(k) :
                 s # <<>> /\ Head(s) = Op("push", k) /\ Tail(s) \in Storing(k)
           /\ Checking(k) \in SUBSET Seq(Instr) /\ \A s \in Checking(k) :
                 s # <<>> /\ Head(s) = Op("check", k) /\ Tail(s) \in Pushing(k)
<1>1. /\ Op("add", k) \in Instr /\ Op("copy", k) \in Instr /\ Op("replace", k) \in Instr
      /\ Op("newest", k) \in Instr /\ Op("older", k) \in Instr /\ Op("newer", k) \in Instr
      /\ Op("clear", k) \in Instr /\ Op("getLogs", k) \in Instr /\ Op("store", k) \in Instr
      /\ Op("push", k) \in Instr /\ Op("check", k) \in Instr /\ Op("spin", k) \in Instr
      /\ Op("goto", Chat(k)) \in Instr
    BY Ops DEF OpName
<1>2. Rested(k) \in SUBSET Seq(Instr)
    <2>1. \A o \in Instr : <<o>> \in Seq(Instr) OBVIOUS
    <2>2. <<>> \in Seq(Instr) OBVIOUS
    <2> QED BY ONLY <1>1, <2>1, <2>2 DEF Rested, Goto
<1>3. EnterChat(k) \in Seq(Instr) BY EnterIs
<1>4. Rested(k) \cup {EnterChat(k)} \in SUBSET Seq(Instr) BY ONLY <1>2, <1>3
<1>5. Adding(k) \in SUBSET Seq(Instr) /\ \A s \in Adding(k) :
         s # <<>> /\ Head(s) = Op("add", k) /\ Tail(s) \in Rested(k) \cup {EnterChat(k)}
    BY ONLY <1>1, <1>4, Firsts DEF Adding
<1>6. Copying(k) \in SUBSET Seq(Instr) /\ \A s \in Copying(k) :
         s # <<>> /\ Head(s) = Op("copy", k) /\ Tail(s) \in Adding(k)
    BY ONLY <1>1, <1>5, Firsts DEF Copying
<1>7. Replacing(k) \in SUBSET Seq(Instr) /\ \A s \in Replacing(k) :
         s # <<>> /\ Head(s) = Op("replace", k) /\ Tail(s) \in Copying(k)
    BY ONLY <1>1, <1>6, Firsts DEF Replacing
<1>8. Reading(k) \in SUBSET Seq(Instr) /\ \A s \in Reading(k) :
         s # <<>> /\ Head(s) = Op("newest", k) /\ Tail(s) \in Replacing(k)
    BY ONLY <1>1, <1>7, Firsts DEF Reading
<1>9. Paging(k) \in SUBSET Seq(Instr) /\ \A s \in Paging(k) :
         s # <<>> /\ Head(s) \in {Op("older", k), Op("newer", k)} /\ Tail(s) \in Replacing(k)
    BY ONLY <1>1, <1>7, Firsts DEF Paging
<1>10. Clearing(k) \in SUBSET Seq(Instr) /\ \A s \in Clearing(k) :
         s # <<>> /\ Head(s) = Op("clear", k) /\ Tail(s) \in Reading(k)
    BY ONLY <1>1, <1>8, Firsts DEF Clearing
<1>11. Entering(k) \in SUBSET Seq(Instr) /\ \A s \in Entering(k) :
         s # <<>> /\ Head(s) = Op("getLogs", k) /\ Tail(s) \in Clearing(k)
    BY ONLY <1>1, <1>10, Firsts DEF Entering
<1>12. Entering(k) \cup Reading(k) \in SUBSET Seq(Instr) BY ONLY <1>8, <1>11
<1>13. Opening(k) \in SUBSET Seq(Instr) /\ \A s \in Opening(k) :
         s # <<>> /\ Head(s) = Op("goto", Chat(k)) /\ Tail(s) \in Entering(k) \cup Reading(k)
    BY ONLY <1>1, <1>12, Firsts DEF Opening
<1>14. Copying(k) \cup Reading(k) \in SUBSET Seq(Instr) BY ONLY <1>6, <1>8
<1>15. Storing(k) \in SUBSET Seq(Instr) /\ \A s \in Storing(k) :
         s # <<>> /\ Head(s) = Op("store", k) /\ Tail(s) \in Copying(k) \cup Reading(k)
    BY ONLY <1>1, <1>14, Firsts DEF Storing
<1>16. Pushing(k) \in SUBSET Seq(Instr) /\ \A s \in Pushing(k) :
         s # <<>> /\ Head(s) = Op("push", k) /\ Tail(s) \in Storing(k)
    BY ONLY <1>1, <1>15, Firsts DEF Pushing
<1>17. Checking(k) \in SUBSET Seq(Instr) /\ \A s \in Checking(k) :
         s # <<>> /\ Head(s) = Op("check", k) /\ Tail(s) \in Pushing(k)
    BY ONLY <1>1, <1>16, Firsts DEF Checking
<1> QED BY ONLY <1>2, <1>3, <1>5, <1>6, <1>7, <1>8, <1>9, <1>10, <1>11, <1>13, <1>15, <1>16, <1>17

LEMMA LastSteps ==
    ASSUME NEW k \in Kind
    PROVE  /\ Leaving(k) \in SUBSET Seq(Instr)
           /\ \A s \in Rested(k) : s # <<>> =>
                 Head(s) \in {Op("goto", Chat(k)), Op("spin", k)} /\ Tail(s) = <<>>
           /\ Goto(Chat(k)) # <<>> /\ Head(Goto(Chat(k))) = Op("goto", Chat(k))
           /\ \A s \in Rested(k) : s # <<>> /\ Head(s) = Op("goto", Chat(k)) => s = Goto(Chat(k))
           /\ \A s \in Leaving(k) : /\ s # <<>>
                 /\ \/ Head(s) = Op("goto", "AWAY") /\ Tail(s) = <<>>
                    \/ Head(s) = Op("goto", "LOG_HISTORY") /\ Tail(s) = <<Op("back", k)>>
                    \/ Head(s) = Op("back", k) /\ Tail(s) = <<>>
           /\ <<Op("back", k)>> \in Leaving(k)
           /\ <<Op("back", k)>> # <<>> /\ Head(<<Op("back", k)>>) = Op("back", k)
<1> DEFINE back == Op("back", k)
           open == Op("goto", Chat(k))
           spin == Op("spin", k)
           away == Op("goto", "AWAY")
           history == Op("goto", "LOG_HISTORY")
<1>1. back \in Instr /\ open \in Instr /\ spin \in Instr /\ away \in Instr /\ history \in Instr
    BY Ops DEF OpName, State
<1>2. open.op = "goto" /\ spin.op = "spin" BY Ops
<1>3. Rested(k) = {<<>>, <<open>>, <<spin>>} /\ Goto(Chat(k)) = <<open>> BY DEF Rested, Goto
<1>4. Leaving(k) = {<<away>>, <<history>> \o <<back>>, <<back>>} BY DEF Leaving, Goto
<1> HIDE DEF back, open, spin, away, history
<1>5. \A o \in Instr : <<o>> \in Seq(Instr) /\ <<o>> # <<>> /\ Head(<<o>>) = o /\ Tail(<<o>>) = <<>>
    OBVIOUS
<1>6. /\ <<history>> \o <<back>> \in Seq(Instr) /\ <<history>> \o <<back>> # <<>>
      /\ Head(<<history>> \o <<back>>) = history /\ Tail(<<history>> \o <<back>>) = <<back>>
    BY <1>1, <1>5, InFrontOf
<1>7. /\ Leaving(k) \in SUBSET Seq(Instr) /\ <<back>> \in Leaving(k)
      /\ \A s \in Leaving(k) : /\ s # <<>>
            /\ \/ Head(s) = away /\ Tail(s) = <<>>
               \/ Head(s) = history /\ Tail(s) = <<back>>
               \/ Head(s) = back /\ Tail(s) = <<>>
    BY ONLY <1>1, <1>4, <1>5, <1>6
<1>8. /\ \A s \in Rested(k) : s # <<>> => Head(s) \in {open, spin} /\ Tail(s) = <<>>
      /\ \A s \in Rested(k) : s # <<>> /\ Head(s) = open => s = <<open>>
    <2>1. open # spin BY <1>2
    <2> QED BY ONLY <1>1, <1>3, <1>5, <2>1
<1> QED BY <1>1, <1>3, <1>5, <1>7, <1>8 DEF back, open, spin, away, history

\* The programs that the commands consist of.
LEMMA Wholes ==
    ASSUME NEW k \in Kind
    PROVE  /\ \A s \in Rested(k) \cup {EnterChat(k)} :
                 /\ Flush(k) \o s \in Copying(k)
                 /\ Load("newest", k) \o s \in Reading(k)
                 /\ Load("older", k) \o s \in Paging(k)
                 /\ Load("newer", k) \o s \in Paging(k)
           /\ Flush(k) \in Copying(k) /\ Load("newest", k) \in Reading(k)
           /\ Load("older", k) \in Paging(k) /\ Load("newer", k) \in Paging(k)
           /\ EnterChat(k) \in Entering(k)
<1>1. /\ Op("add", k) \in Instr /\ Op("copy", k) \in Instr /\ Op("replace", k) \in Instr
      /\ Op("newest", k) \in Instr /\ Op("older", k) \in Instr /\ Op("newer", k) \in Instr
      /\ Op("clear", k) \in Instr /\ Op("getLogs", k) \in Instr
    BY Ops DEF OpName
<1>2. /\ Rested(k) \cup {EnterChat(k)} \in SUBSET Seq(Instr) /\ Adding(k) \in SUBSET Seq(Instr)
      /\ Copying(k) \in SUBSET Seq(Instr) /\ Replacing(k) \in SUBSET Seq(Instr)
      /\ Reading(k) \in SUBSET Seq(Instr) /\ Clearing(k) \in SUBSET Seq(Instr)
    BY FirstSteps
<1>3. ASSUME NEW s \in Rested(k) \cup {EnterChat(k)}
      PROVE  /\ Flush(k) \o s \in Copying(k)
             /\ Load("newest", k) \o s \in Reading(k)
             /\ Load("older", k) \o s \in Paging(k)
             /\ Load("newer", k) \o s \in Paging(k)
    <2>1. s \in Seq(Instr) BY <1>2
    <2>2. <<Op("add", k)>> \o s \in Adding(k) BY ONLY <1>1, <1>2, Firsts, <1>3 DEF Adding
    <2>3. <<Op("copy", k)>> \o (<<Op("add", k)>> \o s) \in Copying(k)
        BY ONLY <1>1, <1>2, <2>2, Firsts DEF Copying
    <2>4. Flush(k) \o s \in Copying(k) BY <2>1, <2>3, EnterIs
    <2>5. <<Op("replace", k)>> \o (Flush(k) \o s) \in Replacing(k)
        BY ONLY <1>1, <1>2, <2>4, Firsts DEF Replacing
    <2>6. /\ <<Op("newest", k)>> \o (<<Op("replace", k)>> \o (Flush(k) \o s)) \in Reading(k)
          /\ <<Op("older", k)>> \o (<<Op("replace", k)>> \o (Flush(k) \o s)) \in Paging(k)
          /\ <<Op("newer", k)>> \o (<<Op("replace", k)>> \o (Flush(k) \o s)) \in Paging(k)
        BY ONLY <1>1, <1>2, <2>5, Firsts DEF Reading, Paging
    <2>7. \A page \in Page3 : Load(page, k) \o s =
              <<Op(page, k)>> \o (<<Op("replace", k)>> \o (Flush(k) \o s))
        BY <2>1, EnterIs
    <2> QED BY <2>4, <2>6, <2>7 DEF Page3
<1>4. <<>> \in Rested(k) BY DEF Rested
<1>5. /\ Flush(k) \o <<>> = Flush(k) /\ Load("newest", k) \o <<>> = Load("newest", k)
      /\ Load("older", k) \o <<>> = Load("older", k) /\ Load("newer", k) \o <<>> = Load("newer", k)
    <2>1. /\ Flush(k) \in Seq(Instr) /\ Load("newest", k) \in Seq(Instr)
          /\ Load("older", k) \in Seq(Instr) /\ Load("newer", k) \in Seq(Instr)
        <3>1. \A s \in Seq(Instr) : \A page \in Page3 : Load(page, k) \in Seq(Instr) BY EnterIs
        <3>2. <<>> \in Seq(Instr) OBVIOUS
        <3> QED BY <3>1, <3>2, EnterIs DEF Page3
    <2> QED BY ONLY <2>1, ConcatEmptySeq
<1>6. /\ Flush(k) \in Copying(k) /\ Load("newest", k) \in Reading(k)
      /\ Load("older", k) \in Paging(k) /\ Load("newer", k) \in Paging(k)
    BY <1>3, <1>4, <1>5
<1>7. <<Op("clear", k)>> \o Load("newest", k) \in Clearing(k)
    BY ONLY <1>1, <1>2, <1>6, Firsts DEF Clearing
<1>8. <<Op("getLogs", k)>> \o (<<Op("clear", k)>> \o Load("newest", k)) \in Entering(k)
    BY ONLY <1>1, <1>2, <1>7, Firsts DEF Entering
<1>9. EnterChat(k) \in Entering(k) BY <1>8, EnterIs
<1> QED BY <1>3, <1>6, <1>9

\* Programs that have no flush before them.
LEMMA NoMoreFlush ==
    ASSUME NEW k \in Kind
    PROVE  /\ \A s \in Settled(k) :
                 /\ s = <<>> \/ Head(s).op \in {"goto", "spin", "add", "back"}
                 /\ s # <<>> /\ Head(s).op # "add" => s \in Rested(k) \cup Leaving(k)
                 /\ s # <<>> /\ Head(s) = Op("goto", Chat(k)) => s \in Returning(k)
                 /\ s # <<>> => Tail(s) \in Settled(k)
           /\ \A s \in Returning(k) :
                 /\ s \in Settled(k) /\ s # <<>>
                 /\ \/ Head(s) = Op("goto", Chat(k)) /\ Tail(s) = <<>>
                    \/ Head(s) = Op("add", k) /\ Tail(s) \in Returning(k)
           /\ \A s \in Settled(k) :
                 s # <<>> /\ Head(s).op = "add" /\ Tail(s) \in Returning(k) => s \in Returning(k)
           /\ <<Op("back", k)>> \notin Returning(k) /\ <<>> \in Settled(k)
<1>1. Op("add", k) \in Instr /\ Rested(k) \in SUBSET Seq(Instr) BY Ops, FirstSteps DEF OpName
<1>2. \A s \in Then(Op("add", k), Rested(k)) :
          s # <<>> /\ Head(s) = Op("add", k) /\ Tail(s) \in Rested(k) /\ s = <<Op("add", k)>> \o Tail(s)
    BY ONLY <1>1, Firsts
<1>3. Goto(Chat(k)) \in Rested(k) /\ <<>> \in Rested(k) BY DEF Rested
<1>4. LET a == <<Op("add", k)>> \o Goto(Chat(k)) IN
          /\ a \in Then(Op("add", k), Rested(k)) /\ a # <<>> /\ Head(a) = Op("add", k)
          /\ Tail(a) = Goto(Chat(k))
    <2>1. Goto(Chat(k)) \in Seq(Instr) BY <1>1, <1>3
    <2> QED BY ONLY <1>1, <1>3, <2>1, Firsts, InFrontOf
<1>5. \A s \in Rested(k) \cup Leaving(k) : s # <<>> =>
          /\ Head(s).op \in {"goto", "spin", "back"}
          /\ Tail(s) \in Rested(k) \cup Leaving(k)
          /\ Head(s) = Op("goto", Chat(k)) => s = Goto(Chat(k))
    <2>1. \A s \in Rested(k) : s # <<>> =>
              /\ Head(s).op \in {"goto", "spin", "back"} /\ Tail(s) = <<>>
              /\ Head(s) = Op("goto", Chat(k)) => s = Goto(Chat(k))
        <3>1. Op("goto", Chat(k)).op = "goto" /\ Op("spin", k).op = "spin" BY ONLY Ops
        <3>2. \A s \in Rested(k) : s # <<>> =>
                  /\ Head(s) \in {Op("goto", Chat(k)), Op("spin", k)} /\ Tail(s) = <<>>
                  /\ Head(s) = Op("goto", Chat(k)) => s = Goto(Chat(k))
            BY LastSteps
        <3> QED BY ONLY <3>1, <3>2
    <2>2. \A s \in Leaving(k) :
              /\ Head(s).op \in {"goto", "spin", "back"}
              /\ Tail(s) \in {<<>>, <<Op("back", k)>>}
              /\ Head(s) # Op("goto", Chat(k))
        <3>1. /\ Op("goto", "AWAY") # Op("goto", Chat(k)) /\ Op("back", k) # Op("goto", Chat(k))
              /\ Op("goto", "LOG_HISTORY") # Op("goto", Chat(k))
            <4>1. Chat(k) \notin {"AWAY", "LOG_HISTORY"} BY DEF Chat, Kind
            <4> QED BY ONLY <4>1, Ops
        <3>2. /\ Op("goto", "AWAY").op = "goto" /\ Op("back", k).op = "back"
              /\ Op("goto", "LOG_HISTORY").op = "goto"
            BY ONLY Ops
        <3>3. ASSUME NEW s \in Leaving(k)
              PROVE  \/ Head(s) = Op("goto", "AWAY") /\ Tail(s) = <<>>
                     \/ Head(s) = Op("goto", "LOG_HISTORY") /\ Tail(s) = <<Op("back", k)>>
                     \/ Head(s) = Op("back", k) /\ Tail(s) = <<>>
            BY LastSteps
        <3> QED BY ONLY <3>1, <3>2, <3>3
    <2>3. <<Op("back", k)>> \in Leaving(k) BY LastSteps
    <2> QED BY ONLY <1>3, <2>1, <2>2, <2>3
<1>6. /\ Goto(Chat(k)) # <<>> /\ Head(Goto(Chat(k))) = Op("goto", Chat(k))
      /\ Tail(Goto(Chat(k))) = <<>>
    BY <1>3, LastSteps
<1>7. /\ Op("add", k).op = "add" /\ Op("goto", Chat(k)).op = "goto" /\ Op("back", k).op = "back"
      /\ <<Op("back", k)>> # <<>> /\ Head(<<Op("back", k)>>) = Op("back", k)
    BY Ops, LastSteps
<1>8. Settled(k) = Rested(k) \cup Leaving(k) \cup Then(Op("add", k), Rested(k)) BY DEF Settled
<1>9. Returning(k) = {Goto(Chat(k)), <<Op("add", k)>> \o Goto(Chat(k))} BY DEF Returning
<1>10. \A s \in Settled(k) :
           /\ s = <<>> \/ Head(s).op \in {"goto", "spin", "add", "back"}
           /\ s # <<>> /\ Head(s).op # "add" => s \in Rested(k) \cup Leaving(k)
           /\ s # <<>> /\ Head(s) = Op("goto", Chat(k)) => s \in Returning(k)
           /\ s # <<>> => Tail(s) \in Settled(k)
    BY ONLY <1>2, <1>5, <1>7, <1>8, <1>9
<1>11. \A s \in Returning(k) :
           /\ s \in Settled(k) /\ s # <<>>
           /\ \/ Head(s) = Op("goto", Chat(k)) /\ Tail(s) = <<>>
              \/ Head(s) = Op("add", k) /\ Tail(s) \in Returning(k)
    BY ONLY <1>3, <1>4, <1>6, <1>8, <1>9
<1>12. ASSUME NEW s \in Settled(k), s # <<>>, Head(s).op = "add", Tail(s) \in Returning(k)
       PROVE  s \in Returning(k)
    <2>1. s \in Then(Op("add", k), Rested(k)) BY ONLY <1>5, <1>8, <1>12
    <2>2. Tail(s) \in Rested(k) /\ s = <<Op("add", k)>> \o Tail(s) BY ONLY <1>2, <2>1
    <2>3. Head(Tail(s)).op # "add" /\ Tail(s) # <<>> BY ONLY <1>5, <1>11, <1>12, <2>2
    <2>4. Tail(s) = Goto(Chat(k)) BY ONLY <1>7, <1>11, <1>12, <1>5, <2>2, <2>3
    <2> QED BY ONLY <1>9, <2>2, <2>4
<1>13. <<Op("back", k)>> \notin Returning(k) BY ONLY <1>7, <1>11
<1> QED BY ONLY <1>3, <1>8, <1>10, <1>11, <1>12, <1>13

\* What follows a step, in the words of the actions.
Followed(k, s) ==
    LET o == Head(s)
        t == Tail(s) IN
    /\ t \in Program(k)
    /\ o.op \in OpName
    /\ IF o.op = "goto" THEN o.arg \in {"AWAY", "LOG_HISTORY", Chat(k)} ELSE o.arg = k
    /\ o.op = "goto" /\ o.arg = "AWAY" => t = <<>>
    /\ o.op = "back" => t = <<>>
    /\ o.op \in Page3 <=> First(t, "replace")
    /\ o.op = "replace" => First(t, "copy")
    /\ o.op = "copy" <=> First(t, "add")
    /\ o.op = "clear" => First(t, "newest")
    /\ o.op = "push" <=> First(t, "store")
    /\ ~First(t, "newer") /\ ~First(t, "check")

LEMMA ProgramSteps ==
    ASSUME NEW k \in Kind, NEW s \in Program(k), s # <<>>
    PROVE  Followed(k, s) /\ (Tail(s) \in Settled(k) => s \in Settled(k) \/ Head(s).op = "copy")
<1>1. \A name, arg : Op(name, arg).op = name /\ Op(name, arg).arg = arg BY Ops
<1>2. \A t \in Settled(k) : t # <<>> => Head(t).op \in {"goto", "spin", "add", "back"}
    BY NoMoreFlush
<1> USE <1>1 DEF First, Page3, OpName, Program
<1>3. CASE s \in Rested(k) \cup Leaving(k)
    <2>1. /\ Tail(s) = <<>> \/ (Head(s) = Op("goto", "LOG_HISTORY") /\ Tail(s) = <<Op("back", k)>>)
          /\ Head(s) \in {Op("goto", Chat(k)), Op("spin", k), Op("goto", "AWAY"),
                          Op("goto", "LOG_HISTORY"), Op("back", k)}
        <3>1. CASE s \in Rested(k)
            <4>1. Head(s) \in {Op("goto", Chat(k)), Op("spin", k)} /\ Tail(s) = <<>>
                BY ONLY LastSteps, k \in Kind, s # <<>>, <3>1
            <4> QED BY ONLY <4>1
        <3>2. CASE s \in Leaving(k)
            <4>1. \/ Head(s) = Op("goto", "AWAY") /\ Tail(s) = <<>>
                  \/ Head(s) = Op("goto", "LOG_HISTORY") /\ Tail(s) = <<Op("back", k)>>
                  \/ Head(s) = Op("back", k) /\ Tail(s) = <<>>
                BY ONLY LastSteps, k \in Kind, <3>2
            <4> QED BY ONLY <4>1
        <3> QED BY ONLY <1>3, <3>1, <3>2
    <2>2. Head(s) \in {Op("goto", Chat(k)), Op("spin", k), Op("goto", "AWAY"),
                       Op("goto", "LOG_HISTORY"), Op("back", k)}
        BY ONLY <2>1
    <2>3. Head(<<Op("back", k)>>) = Op("back", k) /\ <<Op("back", k)>> \in Leaving(k) BY LastSteps
    <2>4. <<>> \in Rested(k) BY DEF Rested
    <2>5. s \in Settled(k) BY <1>3 DEF Settled
    <2>6. Head(s).op \in {"goto", "spin", "back"} /\ Tail(s) \in Rested(k) \cup Leaving(k)
        BY ONLY <1>1, <2>1, <2>2, <2>3, <2>4
    <2>7. ~First(Tail(s), "replace") /\ ~First(Tail(s), "add") /\ ~First(Tail(s), "store")
          /\ ~First(Tail(s), "newer") /\ ~First(Tail(s), "check")
        <3>1. Tail(s) = <<>> \/ Head(Tail(s)) = Op("back", k) BY ONLY <2>1, <2>3
        <3>2. Tail(s) = <<>> \/ Head(Tail(s)).op = "back" BY ONLY <1>1, <3>1
        <3> QED BY ONLY <3>2 DEF First
    <2>8. IF Head(s).op = "goto" THEN Head(s).arg \in {"AWAY", "LOG_HISTORY", Chat(k)}
          ELSE Head(s).arg = k
        BY ONLY <1>1, <2>2
    <2>9. /\ Head(s).op = "goto" /\ Head(s).arg = "AWAY" => Tail(s) = <<>>
          /\ Head(s).op = "back" => Tail(s) = <<>>
        BY ONLY <1>1, <2>1, <2>2
    <2>10. Tail(s) \in Program(k) BY ONLY <2>6 DEF Program
    <2> QED BY ONLY <2>5, <2>6, <2>7, <2>8, <2>9, <2>10 DEF Followed, Page3, OpName
<1>4. CASE s \in Adding(k)
    <2>1. Head(s) = Op("add", k) /\ Tail(s) \in Rested(k) \cup {EnterChat(k)}
        BY <1>4, FirstSteps
    <2>2. EnterChat(k) \in Entering(k) /\ Tail(s) \in Program(k) BY <2>1, Wholes
    <2>3. EnterChat(k) # <<>> /\ Head(EnterChat(k)) = Op("getLogs", k) BY <2>2, FirstSteps
    <2>4. \A t \in Rested(k) : t # <<>> => Head(t) \in {Op("goto", Chat(k)), Op("spin", k)}
        BY LastSteps
    <2>5. ~First(Tail(s), "replace") /\ ~First(Tail(s), "add") /\ ~First(Tail(s), "store")
          /\ ~First(Tail(s), "newer") /\ ~First(Tail(s), "check")
        <3>1. Tail(s) = <<>> \/ Head(Tail(s)) \in {Op("getLogs", k), Op("goto", Chat(k)), Op("spin", k)}
            BY ONLY <2>1, <2>3, <2>4
        <3>2. Tail(s) = <<>> \/ Head(Tail(s)).op \in {"getLogs", "goto", "spin"}
            BY ONLY <1>1, <3>1
        <3> QED BY ONLY <3>2 DEF First
    <2>6. Tail(s) \in Settled(k) => s \in Settled(k)
        <3>1. EnterChat(k) \notin Settled(k) BY ONLY <1>1, <1>2, <2>3
        <3>2. /\ Op("add", k) \in Instr /\ Rested(k) \cup {EnterChat(k)} \in SUBSET Seq(Instr)
              /\ Rested(k) \in SUBSET Seq(Instr)
            BY Ops, FirstSteps
        <3>3. s = <<Op("add", k)>> \o Tail(s) BY ONLY <1>4, <3>2, Firsts DEF Adding
        <3>4. \A t \in Rested(k) : <<Op("add", k)>> \o t \in Then(Op("add", k), Rested(k))
            BY ONLY <3>2, Firsts
        <3> QED BY ONLY <2>1, <3>1, <3>3, <3>4 DEF Settled
    <2>7. Head(s).op = "add" /\ Head(s).arg = k BY ONLY <1>1, <2>1
    <2> QED BY ONLY <2>2, <2>5, <2>6, <2>7 DEF Followed, Page3, OpName
<1>5. CASE s \in Copying(k)
    <2>1. Head(s) = Op("copy", k) /\ Tail(s) \in Adding(k)
        BY <1>5, FirstSteps
    <2>2. Tail(s) # <<>> /\ (Head(Tail(s)) = Op("add", k))
        BY <2>1, FirstSteps
    <2>3. Head(s).op = "copy" /\ Head(s).arg = k /\ Head(Tail(s)).op \in {"add"}
        BY ONLY <1>1, <2>1, <2>2
    <2>4. Tail(s) \in Program(k) BY ONLY <2>1 DEF Program
    <2> QED BY ONLY <2>2, <2>3, <2>4 DEF Followed, First, Page3, OpName
<1>6. CASE s \in Replacing(k)
    <2>1. Head(s) = Op("replace", k) /\ Tail(s) \in Copying(k)
        BY <1>6, FirstSteps
    <2>2. Tail(s) # <<>> /\ (Head(Tail(s)) = Op("copy", k))
        BY <2>1, FirstSteps
    <2>3. Head(s).op = "replace" /\ Head(s).arg = k /\ Head(Tail(s)).op \in {"copy"}
        BY ONLY <1>1, <2>1, <2>2
    <2>4. Tail(s) \in Program(k) BY ONLY <2>1 DEF Program
    <2>5. Tail(s) \notin Settled(k) BY ONLY <1>2, <2>2, <2>3
    <2> QED BY ONLY <2>2, <2>3, <2>4, <2>5 DEF Followed, First, Page3, OpName
<1>7. CASE s \in Reading(k)
    <2>1. Head(s) = Op("newest", k) /\ Tail(s) \in Replacing(k)
        BY <1>7, FirstSteps
    <2>2. Tail(s) # <<>> /\ (Head(Tail(s)) = Op("replace", k))
        BY <2>1, FirstSteps
    <2>3. Head(s).op = "newest" /\ Head(s).arg = k /\ Head(Tail(s)).op \in {"replace"}
        BY ONLY <1>1, <2>1, <2>2
    <2>4. Tail(s) \in Program(k) BY ONLY <2>1 DEF Program
    <2>5. Tail(s) \notin Settled(k) BY ONLY <1>2, <2>2, <2>3
    <2> QED BY ONLY <2>2, <2>3, <2>4, <2>5 DEF Followed, First, Page3, OpName
<1>8. CASE s \in Paging(k)
    <2>1. Head(s) \in {Op("older", k), Op("newer", k)} /\ Tail(s) \in Replacing(k)
        BY <1>8, FirstSteps
    <2>2. Tail(s) # <<>> /\ (Head(Tail(s)) = Op("replace", k))
        BY <2>1, FirstSteps
    <2>3. Head(s).op \in {"older", "newer"} /\ Head(s).arg = k /\ Head(Tail(s)).op \in {"replace"}
        BY ONLY <1>1, <2>1, <2>2
    <2>4. Tail(s) \in Program(k) BY ONLY <2>1 DEF Program
    <2>5. Tail(s) \notin Settled(k) BY ONLY <1>2, <2>2, <2>3
    <2> QED BY ONLY <2>2, <2>3, <2>4, <2>5 DEF Followed, First, Page3, OpName
<1>9. CASE s \in Clearing(k)
    <2>1. Head(s) = Op("clear", k) /\ Tail(s) \in Reading(k)
        BY <1>9, FirstSteps
    <2>2. Tail(s) # <<>> /\ (Head(Tail(s)) = Op("newest", k))
        BY <2>1, FirstSteps
    <2>3. Head(s).op = "clear" /\ Head(s).arg = k /\ Head(Tail(s)).op \in {"newest"}
        BY ONLY <1>1, <2>1, <2>2
    <2>4. Tail(s) \in Program(k) BY ONLY <2>1 DEF Program
    <2>5. Tail(s) \notin Settled(k) BY ONLY <1>2, <2>2, <2>3
    <2> QED BY ONLY <2>2, <2>3, <2>4, <2>5 DEF Followed, First, Page3, OpName
<1>10. CASE s \in Entering(k)
    <2>1. Head(s) = Op("getLogs", k) /\ Tail(s) \in Clearing(k)
        BY <1>10, FirstSteps
    <2>2. Tail(s) # <<>> /\ (Head(Tail(s)) = Op("clear", k))
        BY <2>1, FirstSteps
    <2>3. Head(s).op = "getLogs" /\ Head(s).arg = k /\ Head(Tail(s)).op \in {"clear"}
        BY ONLY <1>1, <2>1, <2>2
    <2>4. Tail(s) \in Program(k) BY ONLY <2>1 DEF Program
    <2>5. Tail(s) \notin Settled(k) BY ONLY <1>2, <2>2, <2>3
    <2> QED BY ONLY <2>2, <2>3, <2>4, <2>5 DEF Followed, First, Page3, OpName
<1>11. CASE s \in Opening(k)
    <2>1. Head(s) = Op("goto", Chat(k)) /\ Tail(s) \in Entering(k) \cup Reading(k)
        BY <1>11, FirstSteps
    <2>2. Tail(s) # <<>> /\ (Head(Tail(s)) = Op("getLogs", k) \/ Head(Tail(s)) = Op("newest", k))
        BY <2>1, FirstSteps
    <2>3. Head(s).op = "goto" /\ Head(s).arg = Chat(k) /\ Head(Tail(s)).op \in {"getLogs", "newest"}
        BY ONLY <1>1, <2>1, <2>2
    <2>4. Tail(s) \in Program(k) BY ONLY <2>1 DEF Program
    <2>5. Tail(s) \notin Settled(k) BY ONLY <1>2, <2>2, <2>3
    <2> QED BY ONLY <2>2, <2>3, <2>4, <2>5 DEF Followed, First, Page3, OpName, Chat, Kind
<1>12. CASE s \in Storing(k)
    <2>1. Head(s) = Op("store", k) /\ Tail(s) \in Copying(k) \cup Reading(k)
        BY <1>12, FirstSteps
    <2>2. Tail(s) # <<>> /\ (Head(Tail(s)) = Op("copy", k) \/ Head(Tail(s)) = Op("newest", k))
        BY <2>1, FirstSteps
    <2>3. Head(s).op = "store" /\ Head(s).arg = k /\ Head(Tail(s)).op \in {"copy", "newest"}
        BY ONLY <1>1, <2>1, <2>2
    <2>4. Tail(s) \in Program(k) BY ONLY <2>1 DEF Program
    <2>5. Tail(s) \notin Settled(k) BY ONLY <1>2, <2>2, <2>3
    <2> QED BY ONLY <2>2, <2>3, <2>4, <2>5 DEF Followed, First, Page3, OpName
<1>13. CASE s \in Pushing(k)
    <2>1. Head(s) = Op("push", k) /\ Tail(s) \in Storing(k)
        BY <1>13, FirstSteps
    <2>2. Tail(s) # <<>> /\ (Head(Tail(s)) = Op("store", k))
        BY <2>1, FirstSteps
    <2>3. Head(s).op = "push" /\ Head(s).arg = k /\ Head(Tail(s)).op \in {"store"}
        BY ONLY <1>1, <2>1, <2>2
    <2>4. Tail(s) \in Program(k) BY ONLY <2>1 DEF Program
    <2>5. Tail(s) \notin Settled(k) BY ONLY <1>2, <2>2, <2>3
    <2> QED BY ONLY <2>2, <2>3, <2>4, <2>5 DEF Followed, First, Page3, OpName
<1>14. CASE s \in Checking(k)
    <2>1. Head(s) = Op("check", k) /\ Tail(s) \in Pushing(k)
        BY <1>14, FirstSteps
    <2>2. Tail(s) # <<>> /\ (Head(Tail(s)) = Op("push", k))
        BY <2>1, FirstSteps
    <2>3. Head(s).op = "check" /\ Head(s).arg = k /\ Head(Tail(s)).op \in {"push"}
        BY ONLY <1>1, <2>1, <2>2
    <2>4. Tail(s) \in Program(k) BY ONLY <2>1 DEF Program
    <2>5. Tail(s) \notin Settled(k) BY ONLY <1>2, <2>2, <2>3
    <2> QED BY ONLY <2>2, <2>3, <2>4, <2>5 DEF Followed, First, Page3, OpName
<1> QED BY ONLY s \in Program(k), <1>3, <1>4, <1>5, <1>6, <1>7, <1>8, <1>9, <1>10, <1>11, <1>12, <1>13, <1>14 DEF Program
\* On the way to the newest page.
LEMMA AwaitingSteps ==
    ASSUME NEW k \in Kind
    PROVE  /\ \A s \in Awaiting(k) :
                 /\ s # <<>> /\ Head(s).op \in {"goto", "getLogs", "clear"}
                 /\ Head(s).op = "goto" => Head(s).arg = Chat(k)
                 /\ Tail(s) \in Awaiting(k) \/ First(Tail(s), "newest")
           /\ Goto(Chat(k)) \o EnterChat(k) \in Awaiting(k)
<1>1. \A name, arg : Op(name, arg).op = name /\ Op(name, arg).arg = arg BY Ops
<1>2. \A s \in Reading(k) : First(s, "newest")
    <2>1. \A s \in Reading(k) : s # <<>> /\ Head(s) = Op("newest", k) BY FirstSteps
    <2> QED BY ONLY <1>1, <2>1 DEF First
<1>3. ASSUME NEW s \in Awaiting(k)
      PROVE  /\ s # <<>> /\ Head(s).op \in {"goto", "getLogs", "clear"}
             /\ Head(s).op = "goto" => Head(s).arg = Chat(k)
             /\ Tail(s) \in Awaiting(k) \/ First(Tail(s), "newest")
    <2>1. \/ s # <<>> /\ Head(s) = Op("clear", k) /\ Tail(s) \in Reading(k)
          \/ s # <<>> /\ Head(s) = Op("getLogs", k) /\ Tail(s) \in Clearing(k)
          \/ s # <<>> /\ Head(s) = Op("goto", Chat(k)) /\ Tail(s) \in Entering(k) \cup Reading(k)
        BY <1>3, FirstSteps DEF Awaiting
    <2> QED BY ONLY <1>1, <1>2, <2>1 DEF Awaiting
<1>4. Goto(Chat(k)) \o EnterChat(k) \in Awaiting(k)
    <2>1. Op("goto", Chat(k)) \in Instr /\ Goto(Chat(k)) = <<Op("goto", Chat(k))>> BY Ops
    <2>2. EnterChat(k) \in Entering(k) \cup Reading(k) BY Wholes
    <2>3. Entering(k) \cup Reading(k) \in SUBSET Seq(Instr) BY FirstSteps
    <2> QED BY ONLY <2>1, <2>2, <2>3, Firsts DEF Awaiting, Opening
<1> QED BY <1>3, <1>4

LEMMA AwaitingSame ==
    ASSUME NEW k, inside' = k
    PROVE  Awaiting(inside)' = Awaiting(k)
BY DEF Awaiting, Clearing, Entering, Opening, Reading, Replacing, Copying, Adding, Rested, Then,
       Goto, Op, Chat, EnterChat, Load, Flush

-----------------------------------------------------------------------------
(* The inductive invariant. *)

Message == Incoming \cup Outgoing
Copy == [title : Peer, logs : Seq(Message)]

Progress == {"unsent", "typed", "refused", "sent", "announcedToFriend", "announcedToGroup"}

Limit == IF Page > PushLimit THEN Page ELSE PushLimit

\* The loop thread in a handler, before it has made the copy that it flushes.
Handling == [at : {"push", "store", "test", "peer", "mark", "copy"}, msg : Incoming]

Typed ==
    /\ state \in State /\ inside \in Kind \cup {"none"}
    /\ current \in [Kind -> Peer] /\ \A k \in Kind : current[k] \in Of(k)
    /\ offset \in Nat
    /\ live \subseteq Incoming /\ due \subseteq Incoming
    /\ unread \subseteq Peer
    /\ \/ loop = NoHandler
       \/ loop \in Handling
       \/ loop \in [at : {"add"}, msg : Incoming, copy : Copy]
    /\ task = <<>> \/ \E c \in Copy : task = <<c>>
    /\ screen = <<>> \/ \E c \in Copy : screen = <<c>>
    /\ file \in [Peer -> Seq(Message)]
    /\ log \in [Peer -> Seq(Message)] /\ \A p \in Peer : Len(log[p]) <= Limit
    /\ outgoing \in [Outgoing -> Progress]

\* Where the main thread is, and what it carries.
MainAt ==
    /\ inside = "none" => todo = <<>> /\ state = "AWAY"
    /\ inside \in Kind =>
          /\ todo \in Program(inside)
          /\ state \in {Chat(inside), "LOG_HISTORY", "AWAY"}
          /\ state = "AWAY" => At("goto") /\ Arg = Chat(inside)
    /\ At("newer") => offset >= Page
    /\ At("replace") => local \in Seq(Message) /\ Len(local) <= Page
    /\ At("add") => \E c \in Copy : local = <<c>>
    /\ At("store") => \E m \in Outgoing : local = <<m>>

\* The flush of a handler will show the open chat as it is.
FlushComing ==
    \/ loop.at \in {"copy", "add"}
    \/ /\ loop.at \in {"store", "test", "peer"} /\ From[loop.msg] = current[inside]
       /\ loop.at # "peer" => state = Chat(inside)

\* The program flushes no more, or has not yet changed what a flush would show.
Still == todo \in Settled(inside) \/ At("check")

\* The open chat is shown as it is, or there is a flush to come that shows it so.
Fresh ==
    /\ loop.at = "add" => loop.copy = CopyOf(current[inside])
    /\ state = Chat(inside) \/ todo \in Returning(inside) =>
          \/ FlushComing
          \/ (IF At("add") THEN local ELSE Newest) = <<CopyOf(current[inside])>>

Shown == (inside \in Kind /\ ~crossed) => ~Crossing /\ (Still => Fresh)

Known(m) == m \in seen \cup excused

\* On its way to the screen with a handler, with the main thread, or with the pool.
ByHandler(m) ==
    \/ loop.at \in {"test", "peer", "mark", "copy"} /\ loop.msg = m
    \/ loop.at = "add" /\ m \in Printed(loop.copy)

ByMain(m) ==
    /\ inside \in Kind /\ current[inside] = From[m]
    /\ \/ At("newest") \/ todo \in Awaiting(inside)
       \/ At("replace") /\ m \in RangeOf(local)
       \/ At("copy") /\ m \in RangeOf(log[From[m]])
       \/ At("add") /\ m \in Printed(local[1])

ByPool(m) == task # <<>> /\ m \in Printed(task[1])

\* What there is to say of a message that has been stored, whatever the loop thread does.
Elsewhere(m) == Known(m) \/ From[m] \in unread \/ ByMain(m) \/ ByPool(m)

Accounted ==
    \A m \in Incoming : m \in RangeOf(file[From[m]]) => ByHandler(m) \/ Elsewhere(m)

\* What has become of the message that the loop thread is handling: it is in its
\* sender's log when a flush will show it.
Has(m) ==
    LET open   == current[KindOf(From[m])] = From[m]
        logged == m \in RangeOf(log[From[m]]) IN
    /\ ~TestsDiffer /\ ~OtherChat
    /\ loop.at \in {"store", "test"} /\ open /\ state = Chat(KindOf(From[m])) => logged
    /\ loop.at = "peer" /\ open => logged
    /\ loop.at = "copy" => logged
    /\ loop.at = "add" => m \in Printed(loop.copy)

HandlerHas ==
    loop.at # "idle" =>
        /\ loop.at \in {"push", "store"} => Known(loop.msg) \/ Has(loop.msg)
        /\ loop.at \notin {"push", "store"} =>
              /\ loop.msg \in RangeOf(file[From[loop.msg]])
              /\ Elsewhere(loop.msg) \/ Has(loop.msg)

-----------------------------------------------------------------------------
(* Peers, pages and logs. *)

LEMMA Peers ==
    /\ \A p \in Peer : KindOf(p) \in Kind /\ p \in Of(KindOf(p))
    /\ \A k \in Kind : /\ Of(k) \subseteq Peer /\ \A p \in Of(k) : KindOf(p) = k
                       /\ Chat(k) \in State /\ Chat(k) \notin {"AWAY", "LOG_HISTORY"}
    /\ \A j, k \in Kind : Chat(j) = Chat(k) => j = k
    /\ \A m \in Incoming : From[m] \in Peer
BY PeerAssumption DEF Peer, KindOf, Kind, Of, Chat, State

LEMMA PageRead ==
    ASSUME NEW f \in Seq(Message), NEW off \in Nat
    PROVE  /\ Lines(f, off) \in Seq(Message) /\ Len(Lines(f, off)) <= Page
           /\ RangeOf(Lines(f, off)) \subseteq RangeOf(f)
<1> DEFINE total == Len(f)
           start == IF total > off + Page THEN total - off - Page ELSE 0
<1>1. total \in Nat /\ Page \in Nat /\ Page > 0 BY PageAssumption
<1>2. CASE off >= total
    <2>1. Lines(f, off) = <<>> BY <1>2 DEF Lines
    <2>2. <<>> \in Seq(Message) /\ Len(<<>>) = 0 /\ RangeOf(<<>>) = {} BY DEF RangeOf
    <2> QED BY <1>1, <2>1, <2>2
<1>3. CASE off < total
    <2>1. Lines(f, off) = SubSeq(f, start + 1, total - off)
        <3>1. ~(off >= Len(f)) BY <1>1, <1>3
        <3> QED BY ONLY <3>1 DEF Lines
    <2>2. /\ start + 1 \in 1 .. total /\ total - off \in 1 .. total
          /\ total - off - start <= Page /\ start \in Nat /\ total - off - start >= 0
        BY <1>1, <1>3
    <2> HIDE DEF start
    <2> DEFINE p == SubSeq(f, start + 1, total - off)
    <2>3. /\ p \in Seq(Message) /\ Len(p) = total - off - start
          /\ \A i \in 1 .. Len(p) : p[i] = f[start + i]
        BY <1>1, <2>2, SubSeqProperties
    <2>4. \A i \in 1 .. Len(p) : start + i \in 1 .. total BY <1>1, <2>2, <2>3
    <2>5. DOMAIN p = 1 .. Len(p) /\ DOMAIN f = 1 .. total BY <2>3
    <2> HIDE DEF p
    <2>6. RangeOf(p) \subseteq RangeOf(f) BY <2>3, <2>4, <2>5 DEF RangeOf
    <2> QED BY <2>1, <2>2, <2>3, <2>6 DEF p
<1> QED BY <1>1, <1>2, <1>3

LEMMA Ranged ==
    ASSUME NEW l \in Seq(Message), NEW m \in Message
    PROVE  /\ Append(l, m) \in Seq(Message)
           /\ Len(Append(l, m)) = Len(l) + 1
           /\ RangeOf(Append(l, m)) = RangeOf(l) \cup {m}
<1>1. /\ Append(l, m) \in Seq(Message) /\ Len(Append(l, m)) = Len(l) + 1
      /\ \A i \in 1 .. Len(l) : Append(l, m)[i] = l[i]
      /\ Append(l, m)[Len(l) + 1] = m
    BY AppendProperties
<1>2. DOMAIN l = 1 .. Len(l) /\ DOMAIN Append(l, m) = 1 .. (Len(l) + 1) /\ Len(l) \in Nat
    BY <1>1
<1>3. \A i : i \in 1 .. (Len(l) + 1) <=> i \in 1 .. Len(l) \/ i = Len(l) + 1 BY <1>2
<1> DEFINE a == Append(l, m)
<1> HIDE DEF a
<1>4. RangeOf(a) = RangeOf(l) \cup {m}
    BY <1>1, <1>2, <1>3 DEF RangeOf, a
<1> QED BY <1>1, <1>4 DEF a

LEMMA PushedLog ==
    ASSUME NEW l \in Seq(Message), NEW m \in Message, Len(l) <= Limit
    PROVE  /\ Pushed(l, m) \in Seq(Message) /\ Len(Pushed(l, m)) <= Limit
           /\ m \in RangeOf(Pushed(l, m))
<1> DEFINE a == Append(l, m)
<1>1. a \in Seq(Message) /\ Len(a) = Len(l) + 1 /\ a[Len(l) + 1] = m
    BY AppendProperties
<1>2. Len(l) \in Nat /\ PushLimit \in Nat /\ PushLimit > 0 /\ PushLimit <= Limit /\ Limit \in Nat
    BY PageAssumption DEF Limit
<1> HIDE DEF a
<1>3. CASE Len(l) >= PushLimit
    <2>1. Pushed(l, m) = Tail(a) BY <1>3 DEF Pushed, a
    <2>2. /\ Tail(a) \in Seq(Message) /\ Len(Tail(a)) = Len(l)
          /\ \A i \in 1 .. Len(Tail(a)) : Tail(a)[i] = a[i + 1]
        BY <1>1, <1>2, HeadTailProperties
    <2>3. Len(l) \in DOMAIN Tail(a) /\ Tail(a)[Len(l)] = m BY <1>1, <1>2, <1>3, <2>2
    <2> QED BY <1>2, <2>1, <2>2, <2>3 DEF RangeOf
<1>4. CASE Len(l) < PushLimit
    <2>1. Pushed(l, m) = a BY <1>2, <1>4 DEF Pushed, a
    <2>2. Len(l) + 1 \in DOMAIN a BY <1>1, <1>2
    <2> QED BY <1>1, <1>2, <1>4, <2>1, <2>2 DEF RangeOf
<1> QED BY <1>2, <1>3, <1>4
-----------------------------------------------------------------------------
(* What the main thread begins. *)

Started(k, s) ==
    /\ s \in Program(k) /\ s # <<>>
    /\ ~First(s, "replace") /\ ~First(s, "add") /\ ~First(s, "store")
    /\ First(s, "newer") => offset >= Page
    /\ s \notin Returning(k)

LEMMA Beginnings ==
    ASSUME NEW k \in Kind
    PROVE  /\ \A s \in ChatCommand(k) : Started(k, s)
           /\ Started(k, Send(k)) /\ Send(k) \notin Settled(k)
           /\ LET s == Goto(Chat(k)) \o EnterChat(k) IN
                 /\ Started(k, s) /\ s \notin Settled(k)
                 /\ Head(s) = Op("goto", Chat(k))
           /\ Started(k, Load("older", k)) /\ Load("older", k) \notin Settled(k)
<1> DEFINE Starts(s, o) == s \in Program(k) /\ s # <<>> /\ Head(s) = o
           Flushes == {"check", "copy", "newest", "older"}
<1>1. \A name, arg : Op(name, arg).op = name /\ Op(name, arg).arg = arg BY Ops
<1>2. /\ \A s \in Settled(k) : s # <<>> => Head(s).op \in {"goto", "spin", "add", "back"}
      /\ \A s \in Settled(k) : s # <<>> /\ Head(s) = Op("goto", Chat(k)) => s \in Returning(k)
      /\ \A s \in Returning(k) : /\ s \in Settled(k)
                                 /\ \/ Head(s) = Op("goto", Chat(k)) /\ Tail(s) = <<>>
                                    \/ Head(s) = Op("add", k)
    BY NoMoreFlush
<1>3. ASSUME NEW s, NEW name \in Flushes, Starts(s, Op(name, k))
      PROVE  Started(k, s) /\ s \notin Settled(k)
    <2>1. Head(s).op \in Flushes BY ONLY <1>1, <1>3
    <2>2. s \notin Settled(k) BY ONLY <1>2, <1>3, <2>1
    <2> QED BY ONLY <1>2, <1>3, <2>1, <2>2 DEF Started, First
<1>4. ASSUME NEW s, NEW place \in {"AWAY", "LOG_HISTORY"}, Starts(s, Op("goto", place))
      PROVE  Started(k, s)
    <2>1. Head(s).op = "goto" /\ Head(s).arg = place /\ Chat(k) # place
        BY <1>1, <1>4, Peers
    <2>2. Head(s) # Op("goto", Chat(k)) /\ Head(s) # Op("add", k) BY ONLY <1>1, <2>1
    <2> QED BY ONLY <1>2, <1>4, <2>1, <2>2 DEF Started, First
<1>5. ASSUME NEW s, Starts(s, Op("goto", Chat(k))), Tail(s) # <<>>
      PROVE  Started(k, s) /\ s \notin Settled(k)
    <2>1. Head(s).op = "goto" BY ONLY <1>1, <1>5
    <2>2. Head(s) # Op("add", k) BY ONLY <1>1, <2>1
    <2>3. s \notin Returning(k) /\ s \notin Settled(k) BY ONLY <1>2, <1>5, <2>2
    <2> QED BY ONLY <1>5, <2>1, <2>3 DEF Started, First
<1>6. ASSUME NEW s, Starts(s, Op("newer", k)), offset >= Page
      PROVE  Started(k, s)
    <2>1. Head(s).op = "newer" BY ONLY <1>1, <1>6
    <2>2. s \notin Returning(k) BY ONLY <1>2, <1>6, <2>1
    <2> QED BY ONLY <1>6, <2>1, <2>2 DEF Started, First
<1>7. Op("goto", Chat(k)) \in Instr /\ Goto(Chat(k)) = <<Op("goto", Chat(k))>>
      /\ Entering(k) \cup Reading(k) \in SUBSET Seq(Instr)
    <2>1. Op("goto", Chat(k)) \in Instr /\ Goto(Chat(k)) = <<Op("goto", Chat(k))>> BY Ops
    <2> QED BY <2>1, FirstSteps
<1>8. \A s \in Entering(k) \cup Reading(k) : s # <<>> BY FirstSteps
<1>9. \A s \in Entering(k) \cup Reading(k) :
          Starts(Goto(Chat(k)) \o s, Op("goto", Chat(k))) /\ Tail(Goto(Chat(k)) \o s) = s
    <2>1. \A s \in Entering(k) \cup Reading(k) : <<Op("goto", Chat(k))>> \o s \in Opening(k)
        BY ONLY <1>7, Firsts DEF Opening
    <2>2. \A s \in Entering(k) \cup Reading(k) :
              LET a == <<Op("goto", Chat(k))>> \o s IN
              a # <<>> /\ Head(a) = Op("goto", Chat(k)) /\ Tail(a) = s
        BY ONLY <1>7, InFrontOf
    <2> QED BY ONLY <1>7, <2>1, <2>2 DEF Program
<1>10. Goto(Chat(k)) \in Rested(k) /\ <<Op("spin", k)>> \in Rested(k) BY DEF Rested
<1>11. \A s \in Copying(k) : Starts(s, Op("copy", k))
    <2>1. \A s \in Copying(k) : s # <<>> /\ Head(s) = Op("copy", k) BY FirstSteps
    <2> QED BY ONLY <2>1 DEF Program
<1>12. \A s \in Reading(k) : Starts(s, Op("newest", k))
    <2>1. \A s \in Reading(k) : s # <<>> /\ Head(s) = Op("newest", k) BY FirstSteps
    <2> QED BY ONLY <2>1 DEF Program
<1>13. /\ Starts(Load("newer", k), Op("newer", k)) /\ Starts(Load("older", k), Op("older", k))
    <2>1. Load("newer", k) \in Paging(k) /\ Load("older", k) \in Paging(k) BY Wholes
    <2>2. \A page \in Page3 : Load(page, k) # <<>> /\ Head(Load(page, k)) = Op(page, k)
        <3>1. ASSUME NEW page \in Page3 PROVE Load(page, k) # <<>> /\ Head(Load(page, k)) = Op(page, k)
            <4>1. Op(page, k) \in Instr /\ Op("replace", k) \in Instr BY Ops DEF OpName, Page3
            <4>2. Flush(k) \in Seq(Instr) /\ <<Op("replace", k)>> \o Flush(k) \in Seq(Instr)
                BY <4>1, EnterIs, InFrontOf
            <4>3. Load(page, k) = <<Op(page, k)>> \o (<<Op("replace", k)>> \o Flush(k))
                BY <4>1, <4>2, TwoInFront DEF Load
            <4> QED BY <4>1, <4>2, <4>3, InFrontOf
        <3> QED BY <3>1
    <2> QED BY ONLY <2>1, <2>2 DEF Page3, Program
<1>14. /\ Starts(Goto("AWAY"), Op("goto", "AWAY"))
       /\ Starts(Goto("LOG_HISTORY") \o <<Op("back", k)>>, Op("goto", "LOG_HISTORY"))
    <2>1. /\ Op("goto", "AWAY") \in Instr /\ Op("goto", "LOG_HISTORY") \in Instr
          /\ Op("back", k) \in Instr /\ Goto("AWAY") = <<Op("goto", "AWAY")>>
          /\ Goto("LOG_HISTORY") = <<Op("goto", "LOG_HISTORY")>>
        BY Ops DEF OpName, State
    <2>2. <<Op("back", k)>> \in Seq(Instr) BY ONLY <2>1
    <2>3. /\ Goto("AWAY") # <<>> /\ Head(Goto("AWAY")) = Op("goto", "AWAY")
        BY ONLY <2>1
    <2>4. LET s == Goto("LOG_HISTORY") \o <<Op("back", k)>> IN
          s # <<>> /\ Head(s) = Op("goto", "LOG_HISTORY")
        BY <2>1, <2>2, InFrontOf
    <2>5. /\ Goto("AWAY") \in Leaving(k)
          /\ Goto("LOG_HISTORY") \o <<Op("back", k)>> \in Leaving(k)
        BY DEF Leaving
    <2> QED BY ONLY <2>3, <2>4, <2>5 DEF Program
<1> HIDE DEF Starts
<1>15. ASSUME NEW s \in ChatCommand(k) PROVE Started(k, s)
    <2>1. CASE s = Goto("AWAY") BY <1>4, <1>14, <2>1
    <2>2. CASE s = Goto("LOG_HISTORY") \o <<Op("back", k)>> BY <1>4, <1>14, <2>2
    <2>3. CASE offset >= Page /\ s = Load("newer", k) BY <1>6, <1>13, <2>3
    <2>4. CASE s = Goto(Chat(k)) \o Load("newest", k)
        <3>1. Load("newest", k) \in Reading(k) BY Wholes
        <3> QED BY <1>5, <1>8, <1>9, <2>4, <3>1
    <2>5. CASE s = Load("newest", k) \o Goto(Chat(k))
        <3>1. Load("newest", k) \o Goto(Chat(k)) \in Reading(k) BY <1>10, Wholes
        <3> QED BY <1>3, <1>12, <2>5, <3>1
    <2>6. CASE s \in {Flush(k) \o <<Op("spin", k)>>, Flush(k) \o EnterChat(k)}
        <3>1. s \in Copying(k) BY <1>10, <2>6, Wholes
        <3> QED BY <1>3, <1>11, <3>1
    <2>7. s \in {Goto("AWAY"), Goto("LOG_HISTORY") \o <<Op("back", k)>>,
                 IF offset >= Page THEN Load("newer", k) ELSE Goto(Chat(k)) \o Load("newest", k),
                 Load("newest", k) \o Goto(Chat(k)),
                 Flush(k) \o IF state = "LOG_HISTORY" THEN <<Op("spin", k)>> ELSE EnterChat(k)}
        BY ONLY <1>15 DEF ChatCommand
    <2> QED BY ONLY <2>1, <2>2, <2>3, <2>4, <2>5, <2>6, <2>7
<1>16. Started(k, Send(k)) /\ Send(k) \notin Settled(k)
    <2>1. /\ Op("check", k) \in Instr /\ Op("push", k) \in Instr /\ Op("store", k) \in Instr
        BY Ops DEF OpName
    <2>2. PICK rest : /\ rest \in Copying(k) \cup Reading(k)
                      /\ Send(k) = <<Op("check", k), Op("push", k), Op("store", k)>> \o rest
        <3>1. Load("newest", k) \o Goto(Chat(k)) \in Reading(k) /\ Flush(k) \in Copying(k)
            BY <1>10, Wholes
        <3> QED BY <3>1 DEF Send
    <2>3. Copying(k) \cup Reading(k) \in SUBSET Seq(Instr) BY FirstSteps
    <2>4. Send(k) = <<Op("check", k)>> \o (<<Op("push", k)>> \o (<<Op("store", k)>> \o rest))
        <3>1. rest \in Seq(Instr) BY <2>2, <2>3
        <3>2. <<Op("push", k), Op("store", k)>> \in Seq(Instr) BY ONLY <2>1
        <3>3. PICK t : t = <<Op("push", k), Op("store", k)>> OBVIOUS
        <3>4. <<Op("check", k), Op("push", k), Op("store", k)>> = <<Op("check", k)>> \o t
            <4>1. PICK u : u = <<Op("check", k)>> \o t OBVIOUS
            <4>2. t \in Seq(Instr) /\ Len(t) = 2 /\ t[1] = Op("push", k) /\ t[2] = Op("store", k)
                BY ONLY <2>1, <3>3
            <4>3. <<Op("check", k)>> \in Seq(Instr) /\ Len(<<Op("check", k)>>) = 1
                  /\ <<Op("check", k)>>[1] = Op("check", k)
                BY ONLY <2>1
            <4>4. /\ u \in Seq(Instr) /\ Len(u) = 3 /\ u[1] = Op("check", k)
                  /\ u[2] = Op("push", k) /\ u[3] = Op("store", k)
                <5> DEFINE one == <<Op("check", k)>>
                <5> HIDE DEF one
                <5>1. /\ u \in Seq(Instr) /\ Len(u) = Len(one) + Len(t)
                      /\ \A i \in 1 .. Len(u) :
                            u[i] = IF i <= Len(one) THEN one[i] ELSE t[i - Len(one)]
                    <6>1. one \in Seq(Instr) /\ u = one \o t BY ONLY <4>1, <4>3 DEF one
                    <6>2. t \in Seq(Instr) BY ONLY <4>2
                    <6> QED BY ONLY <6>1, <6>2, ConcatProperties
                <5>2. Len(one) = 1 /\ one[1] = Op("check", k) BY ONLY <4>3 DEF one
                <5> QED BY ONLY <4>2, <5>1, <5>2
            <4>5. u = <<Op("check", k), Op("push", k), Op("store", k)>> BY ONLY <4>4
            <4> QED BY ONLY <4>1, <4>5
        <3>5. <<Op("check", k)>> \in Seq(Instr) /\ t \in Seq(Instr) BY ONLY <2>1, <3>2, <3>3
        <3>6. (<<Op("check", k)>> \o t) \o rest = <<Op("check", k)>> \o (t \o rest)
            BY ONLY <3>1, <3>5, ConcatAssociative
        <3>7. t \o rest = <<Op("push", k)>> \o (<<Op("store", k)>> \o rest)
            BY <2>1, <3>1, <3>3, TwoInFront
        <3> QED BY ONLY <2>2, <3>4, <3>6, <3>7
    <2>5. <<Op("store", k)>> \o rest \in Storing(k) /\ Storing(k) \in SUBSET Seq(Instr)
        BY ONLY <2>1, <2>2, <2>3, Firsts DEF Storing
    <2>6. /\ <<Op("push", k)>> \o (<<Op("store", k)>> \o rest) \in Pushing(k)
          /\ Pushing(k) \in SUBSET Seq(Instr)
        BY ONLY <2>1, <2>5, Firsts DEF Pushing
    <2>7. Send(k) \in Checking(k)
        BY ONLY <2>1, <2>4, <2>6, Firsts DEF Checking
    <2>8. Send(k) # <<>> /\ Head(Send(k)) = Op("check", k) BY <2>7, FirstSteps
    <2>9. Starts(Send(k), Op("check", k)) BY ONLY <2>7, <2>8 DEF Program, Starts
    <2> QED BY <1>3, <2>9
<1>17. LET s == Goto(Chat(k)) \o EnterChat(k) IN
          Started(k, s) /\ s \notin Settled(k) /\ Head(s) = Op("goto", Chat(k))
    <2>1. EnterChat(k) \in Entering(k) BY Wholes
    <2> QED BY <1>5, <1>8, <1>9, <2>1 DEF Starts
<1>18. Started(k, Load("older", k)) /\ Load("older", k) \notin Settled(k) BY <1>3, <1>13
<1> QED BY <1>15, <1>16, <1>17, <1>18
-----------------------------------------------------------------------------
(* Where the main thread is. *)

\* The step that the main thread does next, and what is left of its program.
LEMMA MainPoint ==
    ASSUME Typed, MainAt, todo # <<>>
    PROVE  /\ inside \in Kind /\ todo \in Program(inside) /\ Followed(inside, todo)
           /\ Tail(todo) \in Settled(inside) => todo \in Settled(inside) \/ Head(todo).op = "copy"
           /\ ~At("goto") => /\ Arg = inside /\ Here = current[inside]
                             /\ state # "AWAY"
           /\ current[inside] \in Peer /\ KindOf(current[inside]) = inside
<1>1. inside \in Kind /\ todo \in Program(inside) BY DEF Typed, MainAt
<1>2. /\ Followed(inside, todo)
      /\ Tail(todo) \in Settled(inside) => todo \in Settled(inside) \/ Head(todo).op = "copy"
    BY ONLY <1>1, todo # <<>>, ProgramSteps
<1>3. ~At("goto") => Arg = inside BY ONLY <1>2, todo # <<>> DEF Followed, At, Arg
<1>4. current[inside] \in Of(inside) BY <1>1 DEF Typed
<1>5. current[inside] \in Peer /\ KindOf(current[inside]) = inside BY ONLY <1>1, <1>4, Peers
<1>6. ~At("goto") => state # "AWAY" BY ONLY <1>1, MainAt DEF MainAt
<1> QED BY ONLY <1>1, <1>2, <1>3, <1>5, <1>6 DEF Here

\* What the invariant says of the types of what the handlers and the pool carry.
Carried ==
    /\ \/ loop = NoHandler
       \/ loop \in Handling
       \/ loop \in [at : {"add"}, msg : Incoming, copy : Copy]
    /\ task = <<>> \/ \E c \in Copy : task = <<c>>
    /\ screen = <<>> \/ \E c \in Copy : screen = <<c>>

Stored ==
    /\ file \in [Peer -> Seq(Message)]
    /\ log \in [Peer -> Seq(Message)] /\ \A p \in Peer : Len(log[p]) <= Limit
    /\ outgoing \in [Outgoing -> Progress]

Sited ==
    /\ state \in State /\ inside \in Kind \cup {"none"}
    /\ current \in [Kind -> Peer] /\ \A k \in Kind : current[k] \in Of(k)
    /\ offset \in Nat

Owed == live \subseteq Incoming /\ due \subseteq Incoming /\ unread \subseteq Peer

LEMMA TypedParts == Typed <=> Carried /\ Stored /\ Sited /\ Owed
BY DEF Typed, Carried, Stored, Sited, Owed

LEMMA Copied ==
    ASSUME Typed, NEW p \in Peer
    PROVE  CopyOf(p) \in Copy
BY DEF Typed, Copy, CopyOf

\* Where the main thread is depends on its own variables alone.
LEMMA Unmoved ==
    ASSUME MainAt, UNCHANGED mainVars
    PROVE  MainAt'
BY DEF MainAt, mainVars, At, Arg

LEMMA HandlerTypes ==
    ASSUME Typed, loop.at # "idle"
    PROVE  /\ loop.msg \in Incoming /\ loop.msg \in Message /\ From[loop.msg] \in Peer
           /\ loop.at = "add" => loop.copy \in Copy
           /\ loop.at # "add" => loop \in Handling
           /\ loop.at \in {"push", "store", "test", "peer", "mark", "copy", "add"}
<1>1. loop # NoHandler BY DEF NoHandler
<1>2. loop \in Handling \/ loop \in [at : {"add"}, msg : Incoming, copy : Copy]
    BY <1>1 DEF Typed
<1>3. loop \in Handling => /\ loop.msg \in Incoming
                           /\ loop.at \in {"push", "store", "test", "peer", "mark", "copy"}
    BY DEF Handling
<1> QED BY <1>2, <1>3, Peers DEF Message

\* A handler goes on with its message.
LEMMA HandlerMoves ==
    ASSUME loop \in Handling, NEW a \in {"store", "test", "peer", "mark", "copy"},
           loop' = [loop EXCEPT !.at = a]
    PROVE  loop'.at = a /\ loop'.msg = loop.msg /\ loop' \in Handling
BY DEF Handling

LEMMA LogTaken ==
    ASSUME Typed, NEW m \in Incoming
    PROVE  LogOf(m) \in Peer /\ KindOf(LogOf(m)) = KindOf(From[m])
<1>1. From[m] \in Peer BY Peers
<1>2. CASE From[m] \in Friend
    <2>1. current["friend"] \in Friend BY DEF Typed, Of, Kind
    <2> QED BY <1>2, <2>1 DEF LogOf, Peer, KindOf
<1>3. CASE From[m] \notin Friend BY <1>1, <1>3 DEF LogOf
<1> QED BY <1>2, <1>3

\* A message goes into one log.
LEMMA LogPushed ==
    ASSUME Typed, NEW p \in Peer, NEW m \in Message, log' = [log EXCEPT ![p] = Pushed(@, m)]
    PROVE  /\ log' \in [Peer -> Seq(Message)] /\ \A q \in Peer : Len(log'[q]) <= Limit
           /\ m \in RangeOf(log'[p]) /\ \A q \in Peer : q # p => log'[q] = log[q]
<1>1. log[p] \in Seq(Message) /\ Len(log[p]) <= Limit BY DEF Typed
<1>2. /\ Pushed(log[p], m) \in Seq(Message) /\ Len(Pushed(log[p], m)) <= Limit
      /\ m \in RangeOf(Pushed(log[p], m))
    BY <1>1, PushedLog
<1>3. log \in [Peer -> Seq(Message)] /\ \A q \in Peer : Len(log[q]) <= Limit BY DEF Typed
<1>4. \A q \in Peer : log'[q] = IF q = p THEN Pushed(log[p], m) ELSE log[q]
    BY ONLY <1>3, log' = [log EXCEPT ![p] = Pushed(@, m)]
<1>5. log' \in [Peer -> Seq(Message)]
    BY ONLY <1>2, <1>3, log' = [log EXCEPT ![p] = Pushed(@, m)]
<1> QED BY ONLY <1>2, <1>3, <1>4, <1>5

\* A message goes into one file.
LEMMA FileStored ==
    ASSUME Typed, NEW p \in Peer, NEW m \in Message, file' = [file EXCEPT ![p] = Append(@, m)]
    PROVE  /\ file' \in [Peer -> Seq(Message)]
           /\ \A q \in Peer : RangeOf(file'[q]) = RangeOf(file[q]) \cup (IF q = p THEN {m} ELSE {})
<1>1. file[p] \in Seq(Message) /\ file \in [Peer -> Seq(Message)] BY DEF Typed
<1>2. Append(file[p], m) \in Seq(Message) /\ RangeOf(Append(file[p], m)) = RangeOf(file[p]) \cup {m}
    BY <1>1, Ranged
<1>3. file' \in [Peer -> Seq(Message)]
    BY ONLY <1>1, <1>2, file' = [file EXCEPT ![p] = Append(@, m)]
<1>4. \A q \in Peer : file'[q] = IF q = p THEN Append(file[p], m) ELSE file[q]
    BY ONLY <1>1, file' = [file EXCEPT ![p] = Append(@, m)]
<1> QED BY ONLY <1>2, <1>3, <1>4
-----------------------------------------------------------------------------
(* Types and the place of the main thread are kept. *)

Sound == Typed /\ MainAt

LEMMA OpenChatSound == \A p \in Peer : Sound /\ OpenChat(p) => Sound'
<1> SUFFICES ASSUME NEW p \in Peer, Typed, MainAt, OpenChat(p) PROVE Typed' /\ MainAt'
    BY DEF Sound
<1> DEFINE k == KindOf(p)
<1>1. k \in Kind /\ p \in Of(k) BY Peers
<1>2. /\ current' = [current EXCEPT ![k] = p] /\ inside' = k
      /\ todo' = Goto(Chat(k)) \o EnterChat(k) /\ inside = "none"
      /\ UNCHANGED <<state, offset, local, shared>>
    BY DEF OpenChat
<1> HIDE DEF k
<1>3. /\ Started(k, todo') /\ Head(todo') = Op("goto", Chat(k)) BY <1>1, <1>2, Beginnings
<1>4. state = "AWAY" BY <1>2 DEF MainAt
<1>5. current' \in [Kind -> Peer] /\ \A j \in Kind : current'[j] \in Of(j)
    BY <1>1, <1>2 DEF Typed
<1>6. Sited' BY <1>1, <1>2, <1>5 DEF Sited, Typed
<1>7. (Carried /\ Stored /\ Owed)'
    <2>1. Carried /\ Stored /\ Owed BY TypedParts
    <2> QED BY <1>2, <2>1 DEF shared, netVars, storeVars, printVars, Carried, Stored, Owed
<1>8. Typed' BY <1>6, <1>7 DEF Typed, Carried, Stored, Sited, Owed
<1>9. Head(todo').op = "goto" /\ Head(todo').arg = Chat(k) /\ todo' # <<>>
      /\ todo' \in Program(k)
    BY <1>3, Ops DEF Started
<1>10. MainAt'
    BY ONLY <1>1, <1>2, <1>4, <1>9 DEF MainAt, At, Arg, Kind
<1> QED BY <1>8, <1>10

\* A program that has just begun.
LEMMA Begun ==
    ASSUME NEW k \in Kind, MainAt, inside = k, inside' = k, state' = state, todo = <<>>,
           offset' = offset, todo' = <<>> \/ Started(k, todo')
    PROVE  MainAt'
<1>1. state \in {Chat(k), "LOG_HISTORY"} /\ k # "none" BY DEF MainAt, At, Kind
<1>2. Chat(k) # "AWAY" BY Peers
<1>3. todo' \in Program(k)
    <2>1. <<>> \in Program(k) BY DEF Program, Rested
    <2> QED BY <2>1 DEF Started
<1>4. (~At("replace") /\ ~At("add") /\ ~At("store"))' /\ (At("newer")' => offset' >= Page)
    BY DEF Started, First, At
<1> QED BY ONLY <1>1, <1>2, <1>3, <1>4, inside' = k, state' = state DEF MainAt

LEMMA TypedSound ==
    /\ Sound /\ TypeCommand => Sound'
    /\ \A m \in Outgoing : Sound /\ TypeMessage(m) => Sound'
<1>1. ASSUME Typed, MainAt, TypeCommand PROVE Typed' /\ MainAt'
    <2>1. PICK s \in ChatCommand(inside) : todo' = s BY <1>1 DEF TypeCommand
    <2>2. inside \in Kind /\ todo = <<>> /\ UNCHANGED <<state, current, inside, offset, local, shared>>
        BY <1>1 DEF TypeCommand
    <2>3. Started(inside, todo') BY <2>1, <2>2, Beginnings
    <2>4. MainAt' BY ONLY <1>1, <2>2, <2>3, Begun
    <2>5. Typed' BY <1>1, <2>2 DEF Typed, shared, netVars, storeVars, printVars
    <2> QED BY <2>4, <2>5
<1>2. ASSUME NEW m \in Outgoing, Typed, MainAt, TypeMessage(m) PROVE Typed' /\ MainAt'
    <2>1. /\ inside \in Kind /\ todo = <<>> /\ todo' = Send(inside)
          /\ outgoing' = [outgoing EXCEPT ![m] = "typed"]
          /\ UNCHANGED <<state, current, inside, offset, local, loop, live, due, storeVars, printVars>>
        BY <1>2 DEF TypeMessage
    <2>2. Started(inside, todo') BY <2>1, Beginnings
    <2>3. MainAt' BY ONLY <1>2, <2>1, <2>2, Begun
    <2>4. outgoing' \in [Outgoing -> Progress] BY <1>2, <2>1 DEF Typed, Progress
    <2>5. Typed' BY <1>2, <2>1, <2>4 DEF Typed, storeVars, printVars
    <2> QED BY <2>3, <2>5
<1> QED BY <1>1, <1>2 DEF Sound

\* An operation that is not the last to go with a state.
LEMMA Advanced ==
    ASSUME Typed, MainAt, todo # <<>>, ~At("goto"), todo' = Tail(todo),
           inside' = inside, state' = state,
           \A page \in Page3 : At(page) => local' \in Seq(Message) /\ Len(local') <= Page,
           At("copy") => \E c \in Copy : local' = <<c>>,
           At("push") => \E m \in Outgoing : local' = <<m>>
    PROVE  MainAt'
<1>1. /\ inside \in Kind /\ Followed(inside, todo) /\ state # "AWAY"
      /\ state \in {Chat(inside), "LOG_HISTORY", "AWAY"}
    BY MainPoint DEF MainAt
<1>2. todo' \in Program(inside) /\ ~First(todo', "newer") BY <1>1 DEF Followed
<1>3. First(todo', "replace") => \E page \in Page3 : At(page)
    BY ONLY <1>1, todo # <<>>, todo' = Tail(todo) DEF Followed, At
<1>4. /\ First(todo', "add") => At("copy")
      /\ First(todo', "store") => At("push")
    BY ONLY <1>1, todo # <<>>, todo' = Tail(todo) DEF Followed, At
<1>5. inside # "none" BY <1>1 DEF Kind
<1>6. \A name : At(name)' <=> First(todo', name) BY DEF At, First
<1>7. (At("replace") => local \in Seq(Message) /\ Len(local) <= Page)'
    BY ONLY <1>3, <1>6, \A page \in Page3 : At(page) => local' \in Seq(Message) /\ Len(local') <= Page
<1>8. (At("add") => \E c \in Copy : local = <<c>>)'
    BY ONLY <1>4, <1>6, At("copy") => \E c \in Copy : local' = <<c>> DEF Copy, Message
<1>9. (At("store") => \E m \in Outgoing : local = <<m>>)'
    BY ONLY <1>4, <1>6, At("push") => \E m \in Outgoing : local' = <<m>>
<1>10. ~At("newer")' BY ONLY <1>2, <1>6
<1> QED BY ONLY <1>1, <1>2, <1>5, <1>7, <1>8, <1>9, <1>10, inside' = inside, state' = state DEF MainAt

LEMMA GotoSound == Sound /\ GotoState => Sound'
<1> SUFFICES ASSUME Typed, MainAt, GotoState PROVE Typed' /\ MainAt'
    BY DEF Sound
<1>1. /\ todo # <<>> /\ Head(todo).op = "goto" /\ state' = Arg /\ todo' = Tail(todo)
      /\ IF Arg = "AWAY" THEN inside' = "none" /\ offset' = 0 /\ screen' = <<>>
         ELSE UNCHANGED <<inside, offset, screen>>
      /\ UNCHANGED <<current, local, loop, netVars, storeVars, outgoing, task>>
    BY DEF GotoState, At
<1>2. inside \in Kind /\ Followed(inside, todo) BY <1>1, MainPoint
<1>3. Arg \in {"AWAY", "LOG_HISTORY", Chat(inside)} /\ (Arg = "AWAY" => todo' = <<>>)
    BY <1>1, <1>2 DEF Followed, Arg
<1>4. todo' \in Program(inside) /\ ~First(todo', "newer") /\ ~First(todo', "replace")
      /\ ~First(todo', "add") /\ ~First(todo', "store")
    BY <1>1, <1>2 DEF Followed, Page3
<1>5. /\ inside # "none" /\ Chat(inside) # "AWAY" /\ Chat(inside) \in State
    BY <1>2, Peers DEF Kind
<1>6. \A name : At(name)' <=> First(todo', name) BY DEF At, First
<1>7. MainAt'
    <2>1. CASE Arg = "AWAY"
        <3>1. inside' = "none" /\ todo' = <<>> /\ state' = "AWAY" BY <1>1, <1>3, <2>1
        <3>2. inside' \notin Kind BY <3>1 DEF Kind
        <3> QED BY ONLY <1>4, <1>6, <3>1, <3>2 DEF MainAt
    <2>2. CASE Arg # "AWAY"
        <3>1. inside' = inside /\ state' \in {"LOG_HISTORY", Chat(inside)} /\ state' # "AWAY"
            BY <1>1, <1>3, <1>5, <2>2
        <3> QED BY ONLY <1>4, <1>5, <1>6, <3>1 DEF MainAt
    <2> QED BY <2>1, <2>2
<1>8. Sited'
    <2>1. state' \in State BY <1>1, <1>3, <1>5 DEF State
    <2>2. inside' \in Kind \cup {"none"} /\ offset' \in Nat BY <1>1 DEF Typed
    <2> QED BY <1>1, <2>1, <2>2 DEF Typed, Sited
<1>9. (Carried /\ Stored /\ Owed)'
    <2>1. Carried /\ Stored /\ Owed BY TypedParts
    <2>2. UNCHANGED <<loop, live, due, log, file, unread, outgoing, task>>
          /\ (screen' = screen \/ screen' = <<>>)
        BY <1>1 DEF netVars, storeVars
    <2> QED BY <2>1, <2>2 DEF Carried, Stored, Owed
<1>10. Typed' BY <1>8, <1>9 DEF Typed, Carried, Stored, Sited, Owed
<1> QED BY <1>7, <1>10

\* What an operation needs of the page that it reads.
LEMMA OffsetKept ==
    ASSUME Typed, MainAt, ReadPage
    PROVE  /\ offset' \in Nat /\ inside \in Kind /\ ~At("goto") /\ todo # <<>>
           /\ Here = current[inside] /\ Here \in Peer /\ Arg = inside
           /\ local' = Lines(file[Here], offset')
           /\ local' \in Seq(Message) /\ Len(local') <= Page
           /\ RangeOf(local') \subseteq RangeOf(file[Here])
<1>1. /\ todo # <<>> /\ ~At("goto")
      /\ \/ offset' = 0
         \/ offset' = offset + Page
         \/ At("newer") /\ offset' = offset - Page
      /\ local' = Lines(file[Here], offset')
    BY DEF ReadPage, At
<1>2. offset \in Nat /\ Page \in Nat /\ (At("newer") => offset >= Page)
    BY PageAssumption DEF Typed, MainAt
<1>3. offset' \in Nat BY ONLY <1>1, <1>2
<1>4. inside \in Kind /\ Arg = inside /\ Here = current[inside] /\ Here \in Peer
    BY <1>1, MainPoint
<1>5. file[Here] \in Seq(Message) BY <1>4 DEF Typed
<1>6. /\ local' \in Seq(Message) /\ Len(local') <= Page
      /\ RangeOf(local') \subseteq RangeOf(file[Here])
    BY <1>1, <1>3, <1>5, PageRead
<1> QED BY <1>1, <1>3, <1>4, <1>6

LEMMA PageSound ==
    /\ Sound /\ PageBack => Sound'
    /\ Sound /\ ReadPage => Sound'
    /\ Sound /\ ReplaceLog => Sound'
<1>1. ASSUME Typed, MainAt, PageBack PROVE Typed' /\ MainAt'
    <2>1. /\ todo # <<>> /\ Head(todo).op = "back" /\ ~At("goto")
          /\ todo' = (IF log[Here] = <<>> THEN <<>> ELSE Load("older", Arg)) \o Tail(todo)
          /\ UNCHANGED <<state, current, inside, offset, local, shared>>
        BY <1>1 DEF PageBack, At
    <2>2. inside \in Kind /\ Tail(todo) = <<>> /\ Arg = inside
        BY <1>1, <2>1, MainPoint DEF Followed
    <2>3. Load("older", inside) \o <<>> = Load("older", inside) /\ <<>> \o <<>> = <<>>
        <3>1. Load("older", inside) \in Seq(Instr) BY <2>2, EnterIs DEF Page3
        <3>2. <<>> \in Seq(Instr) OBVIOUS
        <3> QED BY ONLY <3>1, <3>2, ConcatEmptySeq
    <2>4. todo' = <<>> \/ Started(inside, todo')
        BY <2>1, <2>2, <2>3, Beginnings
    <2>5. /\ state \in {Chat(inside), "LOG_HISTORY"} /\ inside # "none"
        BY <1>1, <2>1, <2>2, MainPoint DEF MainAt, Kind
    <2>6. MainAt'
        <3>1. Chat(inside) # "AWAY" BY <2>2, Peers
        <3>2. todo' \in Program(inside)
            <4>1. <<>> \in Program(inside) BY DEF Program, Rested
            <4> QED BY <2>4, <4>1 DEF Started
        <3>3. (~At("replace") /\ ~At("add") /\ ~At("store"))' /\ (At("newer")' => offset' >= Page)
            BY <2>1, <2>4 DEF Started, First, At
        <3> QED BY ONLY <2>1, <2>2, <2>5, <3>1, <3>2, <3>3 DEF MainAt
    <2>7. Typed' BY <1>1, <2>1 DEF Typed, shared, netVars, storeVars, printVars
    <2> QED BY <2>6, <2>7
<1>2. ASSUME Typed, MainAt, ReadPage PROVE Typed' /\ MainAt'
    <2>1. /\ offset' \in Nat /\ inside \in Kind /\ ~At("goto") /\ todo # <<>>
          /\ local' \in Seq(Message) /\ Len(local') <= Page
        BY <1>2, OffsetKept
    <2>2. todo' = Tail(todo) /\ UNCHANGED <<state, current, inside, shared>>
        BY <1>2 DEF ReadPage
    <2>3. ~At("copy") /\ ~At("push") BY <1>2 DEF ReadPage, At
    <2>4. MainAt' BY <1>2, <2>1, <2>2, <2>3, Advanced
    <2>5. Typed' BY <1>2, <2>1, <2>2 DEF Typed, shared, netVars, storeVars, printVars
    <2> QED BY <2>4, <2>5
<1>3. ASSUME Typed, MainAt, ReplaceLog PROVE Typed' /\ MainAt'
    <2>1. /\ todo # <<>> /\ Head(todo).op = "replace" /\ ~At("goto") /\ todo' = Tail(todo)
          /\ log' = [log EXCEPT ![Here] = local]
          /\ UNCHANGED <<state, current, inside, offset, loop, netVars, file, unread, outgoing, printVars>>
        BY <1>3 DEF ReplaceLog, At
    <2>2. local \in Seq(Message) /\ Len(local) <= Page BY <1>3, <2>1 DEF MainAt, At
    <2>3. MainAt' BY <1>3, <2>1, Advanced DEF At, Page3
    <2>4. Here \in Peer BY <1>3, <2>1, MainPoint
    <2>5. Len(local) <= Limit
        <3>1. Len(local) \in Nat BY <2>2
        <3> QED BY <2>2, <3>1, PageAssumption DEF Limit
    <2>6. log' \in [Peer -> Seq(Message)] /\ \A p \in Peer : Len(log'[p]) <= Limit
        <3>1. log \in [Peer -> Seq(Message)] /\ \A p \in Peer : Len(log[p]) <= Limit
            BY <1>3 DEF Typed
        <3>2. log' \in [Peer -> Seq(Message)] BY ONLY <2>1, <2>2, <2>4, <3>1
        <3>3. \A p \in Peer : log'[p] = IF p = Here THEN local ELSE log[p]
            BY ONLY <2>1, <2>4, <3>1
        <3> QED BY ONLY <2>5, <3>1, <3>2, <3>3
    <2>7. Typed' BY <1>3, <2>1, <2>6 DEF Typed, netVars, printVars
    <2> QED BY <2>3, <2>7
<1> QED BY <1>1, <1>2, <1>3 DEF Sound

LEMMA PlainSound ==
    /\ Sound /\ GetChatLogs => Sound'
    /\ Sound /\ ClearUnread => Sound'
    /\ Sound /\ FlushLogs => Sound'
    /\ Sound /\ Spin => Sound'
<1>1. ASSUME Typed, MainAt, GetChatLogs PROVE Typed' /\ MainAt'
    <2>1. /\ todo # <<>> /\ Head(todo).op = "getLogs" /\ ~At("goto") /\ todo' = Tail(todo)
          /\ UNCHANGED <<state, current, inside, offset, local, loop, live, storeVars, outgoing,
                         printVars>>
          /\ \/ due' = due
             \/ \E some \in SUBSET Incoming : due' = due \cup some
        BY <1>1 DEF GetChatLogs, At
    <2>2. MainAt' BY <1>1, <2>1, Advanced DEF At, Page3
    <2>3. due' \subseteq Incoming BY <1>1, <2>1 DEF Typed
    <2>4. Typed' BY <1>1, <2>1, <2>3 DEF Typed, storeVars, printVars
    <2> QED BY <2>2, <2>4
<1>2. ASSUME Typed, MainAt, ClearUnread PROVE Typed' /\ MainAt'
    <2>1. /\ todo # <<>> /\ Head(todo).op = "clear" /\ ~At("goto") /\ todo' = Tail(todo)
          /\ unread' \subseteq unread
          /\ UNCHANGED <<state, current, inside, offset, local, loop, netVars, log, file,
                         outgoing, printVars>>
        BY <1>2 DEF ClearUnread, At
    <2>2. MainAt' BY <1>2, <2>1, Advanced DEF At, Page3
    <2>3. Typed' BY <1>2, <2>1 DEF Typed, netVars, printVars
    <2> QED BY <2>2, <2>3
<1>3. ASSUME Typed, MainAt, FlushLogs PROVE Typed' /\ MainAt'
    <2>1. /\ todo # <<>> /\ Head(todo).op \in {"copy", "add"} /\ ~At("goto") /\ todo' = Tail(todo)
          /\ \/ At("copy") /\ local' = <<CopyOf(Here)>> /\ task' = task
             \/ At("add") /\ ~At("copy") /\ task' = local
          /\ UNCHANGED <<state, current, inside, offset, loop, netVars, storeVars, outgoing, screen>>
        BY <1>3 DEF FlushLogs, At
    <2>2. Here \in Peer BY <1>3, <2>1, MainPoint
    <2>3. CopyOf(Here) \in Copy BY <1>3, <2>2, Copied
    <2>4. MainAt' BY <1>3, <2>1, <2>3, Advanced DEF At, Page3
    <2>5. task' = <<>> \/ \E c \in Copy : task' = <<c>>
        BY <1>3, <2>1 DEF MainAt, Typed
    <2>6. Carried'
        <3>1. Carried BY <1>3, TypedParts
        <3>2. loop' = loop /\ screen' = screen BY <2>1
        <3> QED BY ONLY <2>5, <3>1, <3>2 DEF Carried, Copy, Message
    <2>7. (Stored /\ Sited /\ Owed)'
        <3>1. Stored /\ Sited /\ Owed BY <1>3, TypedParts
        <3> QED BY <2>1, <3>1 DEF Stored, Sited, Owed, netVars, storeVars
    <2>8. Typed' BY <2>6, <2>7 DEF Typed, Carried, Stored, Sited, Owed
    <2> QED BY <2>4, <2>8
<1>4. ASSUME Typed, MainAt, Spin PROVE Typed' /\ MainAt'
    <2>1. UNCHANGED <<mainVars, shared>> BY <1>4 DEF Spin
    <2>2. MainAt' BY <1>4, <2>1, Unmoved
    <2>3. Typed' BY <1>4, <2>1 DEF Typed, mainVars, shared, netVars, storeVars, printVars
    <2> QED BY <2>2, <2>3
<1> QED BY <1>1, <1>2, <1>3, <1>4 DEF Sound

LEMMA SendSound ==
    /\ Sound /\ CheckList => Sound'
    /\ Sound /\ SendMessage => Sound'
<1>1. ASSUME Typed, MainAt, CheckList PROVE Typed' /\ MainAt'
    <2>1. /\ todo # <<>> /\ Head(todo).op = "check" /\ ~At("goto")
          /\ \/ todo' = Tail(todo) /\ outgoing' = outgoing
             \/ todo' = <<>> /\ outgoing' = [m \in Outgoing |->
                                   IF outgoing[m] = "typed" THEN "refused" ELSE outgoing[m]]
          /\ UNCHANGED <<state, current, inside, offset, local, loop, netVars, storeVars, printVars>>
        BY <1>1 DEF CheckList, At
    <2>2. ASSUME todo' = Tail(todo) PROVE MainAt'
        BY <1>1, <2>1, <2>2, Advanced DEF At, Page3
    <2>3. ASSUME todo' = <<>> PROVE MainAt'
        <3>1. inside \in Kind /\ inside # "none" /\ state \in {Chat(inside), "LOG_HISTORY"}
            BY <1>1, <2>1, MainPoint DEF MainAt, Kind
        <3>2. Chat(inside) # "AWAY" BY <3>1, Peers
        <3>3. <<>> \in Program(inside) BY DEF Program, Rested
        <3> QED BY ONLY <2>1, <2>3, <3>1, <3>2, <3>3 DEF MainAt, At
    <2>4. outgoing' \in [Outgoing -> Progress] BY <1>1, <2>1 DEF Typed, Progress
    <2>5. Typed' BY <1>1, <2>1, <2>4 DEF Typed, netVars, storeVars, printVars
    <2> QED BY <2>1, <2>2, <2>3, <2>5
<1>2. ASSUME Typed, MainAt, SendMessage PROVE Typed' /\ MainAt'
    <2>1. /\ todo # <<>> /\ Head(todo).op \in {"push", "store"} /\ ~At("goto") /\ todo' = Tail(todo)
          /\ UNCHANGED <<state, current, inside, offset, loop, netVars, unread, printVars>>
        BY <1>2 DEF SendMessage, At
    <2>2. Here \in Peer /\ inside \in Kind BY <1>2, <2>1, MainPoint
    <2>3. (At("push") => \E m \in Outgoing : local' = <<m>>) /\ Stored'
        <3>1. Stored BY <1>2, TypedParts
        <3>2. CASE At("push")
            <4>1. PICK m \in Outgoing : /\ outgoing' = [outgoing EXCEPT ![m] = "sent"]
                                        /\ log' = [log EXCEPT ![Here] = Pushed(@, m)]
                                        /\ local' = <<m>> /\ file' = file
                BY <1>2, <3>2 DEF SendMessage, At
            <4>2. m \in Message BY DEF Message
            <4>3. log' \in [Peer -> Seq(Message)] /\ \A p \in Peer : Len(log'[p]) <= Limit
                BY ONLY <1>2, <2>2, <4>1, <4>2, LogPushed
            <4>4. outgoing' \in [Outgoing -> Progress] BY <3>1, <4>1 DEF Stored, Progress
            <4> QED BY <3>1, <4>1, <4>3, <4>4 DEF Stored
        <3>3. CASE At("store")
            <4>1. /\ file' = [file EXCEPT ![Here] = @ \o local] /\ UNCHANGED <<outgoing, log>>
                BY <1>2, <3>3 DEF SendMessage, At
            <4>2. PICK m \in Outgoing : local = <<m>> BY <1>2, <3>3 DEF MainAt
            <4>3. file[Here] \in Seq(Message) /\ local \in Seq(Message)
                BY <2>2, <3>1, <4>2 DEF Stored, Message
            <4>4. file[Here] \o local \in Seq(Message) BY <4>3, ConcatProperties
            <4>5. file' \in [Peer -> Seq(Message)] BY <2>2, <3>1, <4>1, <4>4 DEF Stored
            <4> QED BY <3>1, <3>3, <4>1, <4>5 DEF Stored, At
        <3> QED BY <2>1, <3>2, <3>3 DEF At
    <2>4. MainAt' BY <1>2, <2>1, <2>3, Advanced DEF At, Page3
    <2>5. (Carried /\ Sited /\ Owed)'
        <3>1. Carried /\ Sited /\ Owed BY <1>2, TypedParts
        <3> QED BY <2>1, <3>1 DEF Carried, Sited, Owed, netVars, printVars
    <2>6. Typed' BY <2>3, <2>5 DEF Typed, Carried, Stored, Sited, Owed
    <2> QED BY <2>4, <2>6
<1> QED BY <1>1, <1>2 DEF Sound

LEMMA HandlerSound ==
    /\ \A m \in Incoming : Sound /\ HandleMessage(m) => Sound'
    /\ Sound /\ HandlerStep => Sound'
    /\ Sound /\ PrintLogs => Sound'
<1>1. ASSUME NEW m \in Incoming, Typed, MainAt, HandleMessage(m) PROVE Typed' /\ MainAt'
    <2>1. /\ live' \subseteq live /\ due' \subseteq due
          /\ loop' \in {[at |-> "push", msg |-> m], [at |-> "store", msg |-> m]}
          /\ UNCHANGED <<mainVars, requests, storeVars, outgoing, printVars>>
        BY <1>1 DEF HandleMessage
    <2>2. MainAt' BY <1>1, <2>1, Unmoved
    <2>3. Carried /\ Stored /\ Sited /\ Owed BY <1>1, TypedParts
    <2>4. (Stored /\ Sited /\ Owed)' BY <2>1, <2>3 DEF Stored, Sited, Owed, mainVars, storeVars
    <2>5. Carried'
        <3>1. loop' \in Handling BY <2>1 DEF Handling
        <3> QED BY <2>1, <2>3, <3>1 DEF Carried, printVars
    <2>6. Typed' BY <2>4, <2>5 DEF Typed, Carried, Stored, Sited, Owed
    <2> QED BY <2>2, <2>6
<1>2. ASSUME Typed, MainAt, HandlerStep PROVE Typed' /\ MainAt'
    <2>1. UNCHANGED mainVars /\ loop.at # "idle"
        BY <1>2 DEF HandlerStep, PushMessage, StoreMessage, TestState, TestPeer, MarkUnread,
                    FlushCopy, FlushAdd
    <2>2. MainAt' BY <1>2, <2>1, Unmoved
    <2>3. Carried /\ Stored /\ Sited /\ Owed BY <1>2, TypedParts
    <2>4. /\ loop.msg \in Incoming /\ loop.msg \in Message /\ From[loop.msg] \in Peer
          /\ loop.at = "add" => loop.copy \in Copy
          /\ loop.at # "add" => loop \in Handling
        BY <1>2, <2>1, HandlerTypes
    <2>5. Sited' BY <2>1, <2>3 DEF Sited, mainVars
    <2>6. CASE PushMessage
        <3>1. /\ log' = [log EXCEPT ![LogOf(loop.msg)] = Pushed(@, loop.msg)]
              /\ loop' = [loop EXCEPT !.at = "store"] /\ loop.at = "push"
              /\ UNCHANGED <<mainVars, netVars, file, unread, outgoing, printVars>>
            BY <2>6 DEF PushMessage
        <3>2. LogOf(loop.msg) \in Peer BY <1>2, <2>4, LogTaken
        <3>3. log' \in [Peer -> Seq(Message)] /\ \A p \in Peer : Len(log'[p]) <= Limit
            BY ONLY <1>2, <2>4, <3>1, <3>2, LogPushed
        <3>4. Stored' BY <2>3, <3>1, <3>3 DEF Stored
        <3>5. loop' \in Handling BY <2>4, <3>1, HandlerMoves
        <3>6. (Carried /\ Owed)' BY <2>3, <3>1, <3>5 DEF Carried, Owed, netVars, printVars
        <3> QED BY <2>2, <2>5, <3>4, <3>6 DEF Typed, Carried, Stored, Sited, Owed
    <2>7. CASE StoreMessage
        <3>1. /\ file' = [file EXCEPT ![From[loop.msg]] = Append(@, loop.msg)]
              /\ loop' = [loop EXCEPT !.at = "test"] /\ loop.at = "store"
              /\ UNCHANGED <<mainVars, netVars, log, unread, outgoing, printVars>>
            BY <2>7 DEF StoreMessage
        <3>2. file' \in [Peer -> Seq(Message)] BY <1>2, <2>4, <3>1, FileStored
        <3>3. Stored' BY <2>3, <3>1, <3>2 DEF Stored
        <3>4. loop' \in Handling BY <2>4, <3>1, HandlerMoves
        <3>5. (Carried /\ Owed)' BY <2>3, <3>1, <3>4 DEF Carried, Owed, netVars, printVars
        <3> QED BY <2>2, <2>5, <3>3, <3>5 DEF Typed, Carried, Stored, Sited, Owed
    <2>8. CASE TestState \/ TestPeer
        <3>1. /\ loop.at \in {"test", "peer"}
              /\ \E a \in {"peer", "mark", "copy"} : loop' = [loop EXCEPT !.at = a]
              /\ UNCHANGED <<mainVars, netVars, storeVars, outgoing, printVars>>
            BY <2>8 DEF TestState, TestPeer
        <3>2. loop' \in Handling BY <2>4, <3>1, HandlerMoves
        <3>3. (Stored /\ Carried /\ Owed)'
            BY <2>3, <3>1, <3>2 DEF Stored, Carried, Owed, netVars, storeVars, printVars
        <3> QED BY <2>2, <2>5, <3>3 DEF Typed, Carried, Stored, Sited, Owed
    <2>9. CASE MarkUnread
        <3>1. /\ unread' = unread \cup {From[loop.msg]} /\ loop' = NoHandler
              /\ UNCHANGED <<mainVars, netVars, log, file, outgoing, printVars>>
            BY <2>9 DEF MarkUnread
        <3>2. (Stored /\ Carried /\ Owed)'
            BY <2>3, <2>4, <3>1 DEF Stored, Carried, Owed, netVars, printVars
        <3> QED BY <2>2, <2>5, <3>2 DEF Typed, Carried, Stored, Sited, Owed
    <2>10. CASE FlushCopy
        <3> DEFINE p == current[KindOf(From[loop.msg])]
        <3>1. /\ loop' = [at |-> "add", msg |-> loop.msg, copy |-> CopyOf(p)]
              /\ UNCHANGED <<mainVars, netVars, storeVars, outgoing, printVars>>
            BY <2>10 DEF FlushCopy
        <3>2. p \in Peer BY <2>3, <2>4, Peers DEF Sited
        <3>3. CopyOf(p) \in Copy BY <1>2, <3>2, Copied
        <3> HIDE DEF p
        <3>4. loop' \in [at : {"add"}, msg : Incoming, copy : Copy] BY <2>4, <3>1, <3>3
        <3>5. Stored' /\ Owed' BY <2>3, <3>1 DEF Stored, Owed, netVars, storeVars
        <3>6. Carried'
            <4>1. task' = task /\ screen' = screen BY <3>1 DEF printVars
            <4>2. Copy' = Copy BY DEF Copy, Message
            <4> QED BY ONLY <2>3, <3>4, <4>1, <4>2 DEF Carried
        <3> QED BY <2>2, <2>5, <3>5, <3>6 DEF Typed, Carried, Stored, Sited, Owed
    <2>11. CASE FlushAdd
        <3>1. /\ loop.at = "add" /\ task' = <<loop.copy>> /\ loop' = NoHandler
              /\ UNCHANGED <<mainVars, netVars, storeVars, outgoing, screen>>
            BY <2>11 DEF FlushAdd
        <3>2. Stored' /\ Owed' BY <2>3, <3>1 DEF Stored, Owed, netVars, storeVars
        <3>3. Carried' BY <2>3, <2>4, <3>1 DEF Carried
        <3> QED BY <2>2, <2>5, <3>2, <3>3 DEF Typed, Carried, Stored, Sited, Owed
    <2> QED BY <1>2, <2>6, <2>7, <2>8, <2>9, <2>10, <2>11 DEF HandlerStep
<1>3. ASSUME Typed, MainAt, PrintLogs PROVE Typed' /\ MainAt'
    <2>1. /\ screen' = task /\ task' = <<>>
          /\ UNCHANGED <<mainVars, loop, netVars, storeVars, outgoing>>
        BY <1>3 DEF PrintLogs
    <2>2. MainAt' BY <1>3, <2>1, Unmoved
    <2>3. Carried /\ Stored /\ Sited /\ Owed BY <1>3, TypedParts
    <2>4. (Carried /\ Stored /\ Sited /\ Owed)'
        BY <2>1, <2>3 DEF Carried, Stored, Sited, Owed, mainVars, netVars, storeVars
    <2> QED BY <2>2, <2>4 DEF Typed, Carried, Stored, Sited, Owed
<1> QED BY <1>1, <1>2, <1>3 DEF Sound

LEMMA AnnounceSound ==
    \A m \in Outgoing, k \in Kind : Sound /\ Announce(m, k) => Sound'
<1> SUFFICES ASSUME NEW m \in Outgoing, NEW k \in Kind, Typed, MainAt, Announce(m, k)
             PROVE  Typed' /\ MainAt'
    BY DEF Sound
<1>1. UNCHANGED <<mainVars, loop, live, due, unread, printVars>> BY DEF Announce
<1>2. MainAt' BY <1>1, Unmoved
<1>3. Carried /\ Stored /\ Sited /\ Owed BY TypedParts
<1>4. (Carried /\ Sited /\ Owed)' BY <1>1, <1>3 DEF Carried, Sited, Owed, mainVars, printVars
<1>5. current[k] \in Peer /\ m \in Message /\ Announced(k) \in Progress
    BY <1>3 DEF Sited, Message, Announced, Progress
<1>6. Stored'
    <2>1. CASE /\ log' = [log EXCEPT ![current[k]] = Pushed(@, m)] /\ file' = file
               /\ outgoing' = [outgoing EXCEPT ![m] = Announced(k)]
        <3>1. log' \in [Peer -> Seq(Message)] /\ \A p \in Peer : Len(log'[p]) <= Limit
            BY ONLY <1>5, <2>1, Typed, LogPushed
        <3>2. outgoing' \in [Outgoing -> Progress] BY <1>3, <1>5, <2>1 DEF Stored
        <3> QED BY <1>3, <2>1, <3>1, <3>2 DEF Stored
    <2>2. CASE /\ file' = [file EXCEPT ![current[k]] = Append(@, m)] /\ log' = log
               /\ outgoing' = [outgoing EXCEPT ![m] = "sent"]
        <3>1. file' \in [Peer -> Seq(Message)] BY <1>5, <2>2, FileStored
        <3>2. outgoing' \in [Outgoing -> Progress] BY <1>3, <2>2 DEF Stored, Progress
        <3> QED BY <1>3, <2>2, <3>1, <3>2 DEF Stored
    <2> QED BY <2>1, <2>2 DEF Announce
<1> QED BY <1>2, <1>4, <1>6 DEF Typed, Carried, Stored, Sited, Owed

\* The types and the place of the main thread are kept by every step.
LEMMA SoundKept == Sound /\ ViewNext => Sound'
<1>1. Sound /\ MainStep => Sound'
    BY PageSound, GotoSound, PlainSound, SendSound DEF MainStep
<1> QED BY <1>1, OpenChatSound, TypedSound, HandlerSound, AnnounceSound DEF ViewNext
-----------------------------------------------------------------------------
(* The open chat is shown. *)

LEMMA NotCrossed ==
    ASSUME History, inside' # "none", ~crossed'
    PROVE  ~Crossing' /\ ~QuietPush /\ (~crossed \/ At("clear"))
BY DEF History

\* What a step has to show, when it leaves a chat open and flushes have not crossed.
Refreshes ==
    (/\ inside' \in Kind /\ Still' /\ ~Crossing' /\ ~QuietPush
     /\ inside \in Kind /\ Still => ~Crossing /\ Fresh)
       => Fresh'

LEMMA StillSteps ==
    ASSUME Typed, MainAt, inside \in Kind, Still
    PROVE  todo = <<>> \/ Head(todo).op \in {"goto", "spin", "add", "back", "check"}
<1>1. CASE todo \in Settled(inside) BY <1>1, NoMoreFlush
<1>2. CASE At("check") BY <1>2 DEF At
<1> QED BY <1>1, <1>2 DEF Still

LEMMA ShownIf ==
    ASSUME Typed, MainAt, Shown, History, Refreshes
    PROVE  Shown'
<1> SUFFICES ASSUME inside' \in Kind, ~crossed'
             PROVE  ~Crossing' /\ (Still' => Fresh')
    BY DEF Shown
<1>1. inside' # "none" BY DEF Kind
<1>2. ~Crossing' /\ ~QuietPush /\ (~crossed \/ At("clear")) BY <1>1, NotCrossed
<1>3. ASSUME inside \in Kind, Still PROVE ~Crossing /\ Fresh
    <2>1. ~At("clear") BY <1>3, StillSteps DEF At
    <2> QED BY ONLY <1>2, <1>3, <2>1, Shown DEF Shown
<1> QED BY <1>2, <1>3 DEF Refreshes

\* A step of the main thread that lets go of its operation.
LEMMA StillAfter ==
    ASSUME Typed, MainAt, todo # <<>>, todo' = Tail(todo), inside' = inside, Still'
    PROVE  /\ inside \in Kind
           /\ \/ At("copy") /\ At("add")'
              \/ /\ todo \in Settled(inside) /\ Still /\ ~At("add")'
                 /\ At("goto") \/ At("spin") \/ At("add") \/ At("back")
<1>1. /\ inside \in Kind /\ Followed(inside, todo)
      /\ Tail(todo) \in Settled(inside) => todo \in Settled(inside) \/ At("copy")
    BY MainPoint DEF At
<1>2. Tail(todo) \in Settled(inside)
    <2>1. ~At("check")' BY <1>1 DEF Followed, At, First
    <2>2. todo' \in Settled(inside') BY ONLY <2>1, Still' DEF Still
    <2> QED BY <2>2
<1>3. At("copy") <=> At("add")' BY <1>1 DEF Followed, At, First
<1>4. todo \in Settled(inside) => Head(todo).op \in {"goto", "spin", "add", "back"}
    BY <1>1, NoMoreFlush
<1> QED BY <1>1, <1>2, <1>3, <1>4 DEF Still, At

\* The operations between a change of the log and its flush.
LEMMA NotYetStill ==
    ASSUME Typed, MainAt
    PROVE  GetChatLogs \/ ClearUnread \/ ReadPage \/ ReplaceLog \/ SendMessage => Refreshes
<1> SUFFICES ASSUME GetChatLogs \/ ClearUnread \/ ReadPage \/ ReplaceLog \/ SendMessage,
                    Still'
             PROVE  FALSE
    BY DEF Refreshes
<1>1. /\ todo # <<>> /\ todo' = Tail(todo) /\ inside' = inside
      /\ Head(todo).op \in {"getLogs", "clear", "newest", "older", "newer", "replace", "push", "store"}
    BY DEF GetChatLogs, ClearUnread, ReadPage, ReplaceLog, SendMessage, At
<1>2. ~(At("copy") \/ At("goto") \/ At("spin") \/ At("add") \/ At("back")) BY <1>1 DEF At
<1> QED BY <1>1, <1>2, StillAfter

\* Nothing that the screen depends on.
LEMMA FreshStays ==
    ASSUME Fresh, UNCHANGED <<loop, current, state, inside, local, task, screen>>,
           log'[current[inside]] = log[current[inside]], At("add")' <=> At("add"),
           todo' \in Returning(inside) => todo \in Returning(inside)
    PROVE  Fresh'
<1>1. CopyOf(current[inside])' = CopyOf(current[inside]) BY DEF CopyOf
<1>2. FlushComing' <=> FlushComing BY DEF FlushComing
<1>3. Newest' = Newest BY DEF Newest
<1>4. Returning(inside)' = Returning(inside) BY DEF Returning, Goto, Op, Chat
<1> QED BY <1>1, <1>2, <1>3, <1>4 DEF Fresh

LEMMA ReturnHeads ==
    ASSUME NEW k \in Kind
    PROVE  /\ <<>> \notin Returning(k) /\ <<>> \in Settled(k)
           /\ Send(k) \notin Returning(k)
<1>1. <<>> \notin Returning(k) /\ <<>> \in Settled(k) BY NoMoreFlush
<1>2. Send(k) \notin Returning(k) BY Beginnings DEF Started
<1> QED BY <1>1, <1>2

LEMMA TypedRefreshes ==
    ASSUME Typed, MainAt
    PROVE  /\ \A p \in Peer : OpenChat(p) => Refreshes
           /\ TypeCommand => Refreshes
           /\ \A m \in Outgoing : TypeMessage(m) => Refreshes
           /\ PageBack => Refreshes
           /\ CheckList => Refreshes
           /\ Spin => Refreshes
<1>1. ASSUME NEW p \in Peer, OpenChat(p), Still' PROVE FALSE
    <2> DEFINE k == KindOf(p)
               s == Goto(Chat(k)) \o EnterChat(k)
    <2>1. inside' = k /\ todo' = s BY <1>1 DEF OpenChat
    <2>2. k \in Kind BY Peers
    <2> HIDE DEF k
    <2>3. s \notin Settled(k) /\ s # <<>> /\ Head(s) = Op("goto", Chat(k))
        BY <2>2, Beginnings DEF Started
    <2> HIDE DEF s
    <2>4. Head(s).op = "goto" BY <2>3, Ops
    <2>5. ~At("check")' BY <2>1, <2>4 DEF At
    <2>6. todo' \in Settled(inside') BY ONLY <2>5, <1>1 DEF Still
    <2> QED BY ONLY <2>1, <2>3, <2>6
<1>2. ASSUME inside \in Kind, todo = <<>>, Still => Fresh,
             UNCHANGED <<loop, current, state, inside, local, log, task, screen>>,
             todo' = <<>> \/ Started(inside, todo')
      PROVE  Fresh'
    <2>1. todo \in Settled(inside) /\ ~At("add") /\ todo \notin Returning(inside)
        BY <1>2, ReturnHeads DEF At
    <2>2. Fresh BY ONLY <1>2, <2>1 DEF Still
    <2>3. todo' \notin Returning(inside) /\ ~At("add")'
        BY <1>2, ReturnHeads DEF Started, At, First
    <2> QED BY <1>2, <2>1, <2>2, <2>3, FreshStays
<1>3. ASSUME TypeCommand PROVE Refreshes
    <2>1. /\ inside \in Kind /\ todo = <<>>
          /\ UNCHANGED <<loop, current, state, inside, local, log, task, screen>>
          /\ \E s \in ChatCommand(inside) : todo' = s
        BY <1>3 DEF TypeCommand, shared, storeVars, printVars
    <2>2. Started(inside, todo') BY <2>1, Beginnings
    <2> QED BY <1>2, <2>1, <2>2 DEF Refreshes
<1>4. ASSUME NEW m \in Outgoing, TypeMessage(m) PROVE Refreshes
    <2>1. /\ inside \in Kind /\ todo = <<>> /\ todo' = Send(inside)
          /\ UNCHANGED <<loop, current, state, inside, local, log, task, screen>>
        BY <1>4 DEF TypeMessage, storeVars, printVars
    <2>2. Started(inside, todo') BY <2>1, Beginnings
    <2> QED BY <1>2, <2>1, <2>2 DEF Refreshes
<1>5. ASSUME PageBack PROVE Refreshes
    <2>1. /\ todo # <<>> /\ At("back") /\ ~At("goto")
          /\ todo' = (IF log[Here] = <<>> THEN <<>> ELSE Load("older", Arg)) \o Tail(todo)
          /\ UNCHANGED <<loop, current, state, inside, local, log, task, screen>>
        BY <1>5 DEF PageBack, At, shared, storeVars, printVars
    <2>2. /\ inside \in Kind /\ Tail(todo) = <<>> /\ Arg = inside
          /\ Tail(todo) \in Settled(inside) => todo \in Settled(inside) \/ Head(todo).op = "copy"
        BY <2>1, MainPoint DEF Followed, At
    <2>3. todo \in Settled(inside) BY <2>1, <2>2, ReturnHeads DEF At
    <2>4. Load("older", inside) \o <<>> = Load("older", inside) /\ <<>> \o <<>> = <<>>
        <3>1. Load("older", inside) \in Seq(Instr) BY <2>2, EnterIs DEF Page3
        <3>2. <<>> \in Seq(Instr) OBVIOUS
        <3> QED BY ONLY <3>1, <3>2, ConcatEmptySeq
    <2>5. todo' = <<>> \/ Started(inside, todo') BY <2>1, <2>2, <2>4, Beginnings
    <2>6. ~At("add") /\ ~At("add")' /\ todo' \notin Returning(inside)
        BY <2>1, <2>2, <2>5, ReturnHeads DEF At, Started, First
    <2>7. ASSUME Fresh PROVE Fresh' BY <2>1, <2>6, <2>7, FreshStays
    <2> QED BY <2>2, <2>3, <2>7 DEF Refreshes, Still
<1>6. ASSUME CheckList PROVE Refreshes
    <2>1. /\ todo # <<>> /\ At("check") /\ ~At("add") /\ todo' \in {Tail(todo), <<>>} /\ ~At("goto")
          /\ UNCHANGED <<loop, current, state, inside, local, log, task, screen>>
        BY <1>6 DEF CheckList, At, storeVars, printVars
    <2>2. inside \in Kind BY <2>1, MainPoint
    <2>3. CASE todo' = Tail(todo)
        <3>1. ~(At("copy") \/ At("spin") \/ At("back")) BY <2>1 DEF At
        <3> QED BY <2>1, <2>3, <3>1, StillAfter DEF Refreshes
    <2>4. CASE todo' = <<>>
        <3>1. todo' \notin Returning(inside) /\ ~At("add")' BY <2>2, <2>4, ReturnHeads DEF At
        <3>2. Still BY <2>1 DEF Still
        <3>3. ASSUME Fresh PROVE Fresh' BY <2>1, <3>1, <3>3, FreshStays
        <3> QED BY <2>2, <3>2, <3>3 DEF Refreshes
    <2> QED BY <2>1, <2>3, <2>4
<1>7. ASSUME Spin PROVE Refreshes
    <2>1. todo' = todo /\ UNCHANGED <<loop, current, state, inside, local, log, task, screen>>
        BY <1>7 DEF Spin, mainVars, shared, storeVars, printVars
    <2>2. inside \in Kind BY <1>7, MainPoint DEF Spin, At
    <2>3. Still' => Still BY <2>1 DEF Still, At, Settled, Rested, Leaving, Then, Goto, Op, Chat
    <2>4. ASSUME Fresh PROVE Fresh' BY <2>1, <2>4, FreshStays DEF At
    <2> QED BY <2>2, <2>3, <2>4 DEF Refreshes
<1> QED BY <1>1, <1>3, <1>4, <1>5, <1>6, <1>7 DEF Refreshes

\* A program whose flush is over, by its first operation.
LEMMA SettledHeads ==
    ASSUME NEW k \in Kind, NEW s \in Settled(k), s # <<>>, Head(s).op = "goto"
    PROVE  \/ Head(s).arg = Chat(k) /\ s \in Returning(k)
           \/ Head(s).arg = "AWAY"
           \/ Head(s).arg = "LOG_HISTORY" /\ Tail(s) = <<Op("back", k)>>
<1>1. s \in Rested(k) \cup Leaving(k) BY NoMoreFlush
<1>2. CASE s \in Rested(k)
    <2>1. Head(s) \in {Op("goto", Chat(k)), Op("spin", k)} BY <1>2, LastSteps
    <2>2. /\ Op("spin", k).op = "spin" /\ Op("goto", Chat(k)).arg = Chat(k) BY Ops
    <2>3. Head(s) = Op("goto", Chat(k)) BY ONLY <2>1, <2>2, Head(s).op = "goto"
    <2>4. s \in Returning(k) BY <2>3, NoMoreFlush
    <2> QED BY ONLY <2>2, <2>3, <2>4
<1>3. CASE s \in Leaving(k)
    <2>1. \/ Head(s) = Op("goto", "AWAY") /\ Tail(s) = <<>>
          \/ Head(s) = Op("goto", "LOG_HISTORY") /\ Tail(s) = <<Op("back", k)>>
          \/ Head(s) = Op("back", k) /\ Tail(s) = <<>>
        BY <1>3, LastSteps
    <2>2. /\ Op("back", k).op = "back" /\ Op("goto", "AWAY").arg = "AWAY"
          /\ Op("goto", "LOG_HISTORY").arg = "LOG_HISTORY"
        BY Ops
    <2> QED BY ONLY <2>1, <2>2, Head(s).op = "goto"
<1> QED BY <1>1, <1>2, <1>3

LEMMA GotoRefreshes ==
    ASSUME Typed, MainAt, GotoState
    PROVE  Refreshes
<1> SUFFICES ASSUME inside' \in Kind, Still', inside \in Kind /\ Still => ~Crossing /\ Fresh
             PROVE  Fresh'
    BY DEF Refreshes
<1>1. /\ todo # <<>> /\ Head(todo).op = "goto" /\ state' = Arg /\ todo' = Tail(todo)
      /\ ~At("add") /\ At("goto") /\ ~At("copy")
      /\ IF Arg = "AWAY" THEN inside' = "none" ELSE UNCHANGED <<inside, screen>>
      /\ UNCHANGED <<current, local, loop, log, task>>
    BY DEF GotoState, At, storeVars
<1>2. Arg # "AWAY" /\ inside' = inside /\ screen' = screen BY <1>1 DEF Kind
<1>3. inside \in Kind /\ todo \in Settled(inside) /\ Still /\ ~At("add")'
    BY <1>1, <1>2, StillAfter
<1>4. Fresh BY <1>3
<1>5. \/ Arg = Chat(inside) /\ todo \in Returning(inside)
      \/ Arg = "LOG_HISTORY" /\ todo' = <<Op("back", inside)>>
    BY <1>1, <1>2, <1>3, SettledHeads DEF Arg
<1>6. CopyOf(current[inside])' = CopyOf(current[inside]) BY <1>1, <1>2 DEF CopyOf
<1>7. Newest' = Newest BY <1>1, <1>2 DEF Newest
<1>8. CASE Arg = Chat(inside) /\ todo \in Returning(inside)
    <2>1. FlushComing \/ Newest = <<CopyOf(current[inside])>> BY <1>1, <1>4, <1>8 DEF Fresh
    <2>2. FlushComing => FlushComing'
        BY <1>1, <1>2, <1>8 DEF FlushComing
    <2>3. loop.at = "add" => loop.copy = CopyOf(current[inside]) BY <1>4 DEF Fresh
    <2>4. (loop.at = "add" => loop.copy = CopyOf(current[inside]))' BY <1>1, <1>6, <2>3
    <2>5. FlushComing' \/ Newest' = <<CopyOf(current[inside])>>' BY <1>6, <1>7, <2>1, <2>2
    <2> QED BY ONLY <1>3, <2>4, <2>5 DEF Fresh
<1>9. CASE Arg = "LOG_HISTORY" /\ todo' = <<Op("back", inside)>>
    <2>1. Chat(inside) # "LOG_HISTORY" BY <1>3, Peers
    <2>2. <<Op("back", inside)>> \notin Returning(inside) BY <1>3, NoMoreFlush
    <2>3. Returning(inside)' = Returning(inside) BY <1>2 DEF Returning, Goto, Op, Chat
    <2>4. ~(state = Chat(inside) \/ todo \in Returning(inside))'
        <3>1. Chat(inside)' = Chat(inside) BY <1>2 DEF Chat
        <3> QED BY <1>1, <1>9, <2>1, <2>2, <2>3, <3>1
    <2>5. loop.at = "add" => loop.copy = CopyOf(current[inside]) BY <1>4 DEF Fresh
    <2>6. (loop.at = "add" => loop.copy = CopyOf(current[inside]))' BY <1>1, <1>6, <2>5
    <2> QED BY ONLY <2>4, <2>6 DEF Fresh
<1> QED BY <1>5, <1>8, <1>9

LEMMA FlushRefreshes ==
    ASSUME Typed, MainAt, FlushLogs
    PROVE  Refreshes
<1> SUFFICES ASSUME inside' \in Kind, Still', ~Crossing', inside \in Kind /\ Still => ~Crossing /\ Fresh
             PROVE  Fresh'
    BY DEF Refreshes
<1>1. /\ todo # <<>> /\ todo' = Tail(todo) /\ ~At("goto")
      /\ \/ At("copy") /\ local' = <<CopyOf(Here)>> /\ task' = task
         \/ At("add") /\ ~At("copy") /\ task' = local
      /\ UNCHANGED <<state, current, inside, loop, log, screen>>
    BY DEF FlushLogs, At, storeVars
<1>2. inside \in Kind /\ Here = current[inside] BY <1>1, MainPoint
<1>3. CopyOf(current[inside])' = CopyOf(current[inside]) BY <1>1 DEF CopyOf
<1>4. CASE At("copy") /\ local' = <<CopyOf(Here)>>
    <2>1. At("add")'
        <3>1. ~(At("spin") \/ At("goto") \/ At("add") \/ At("back")) BY <1>4 DEF At
        <3> QED BY <1>1, <3>1, StillAfter
    <2>2. loop'.at # "add" BY <2>1 DEF Crossing
    <2>3. local' = <<CopyOf(current[inside])>>' BY <1>2, <1>3, <1>4
    <2> QED BY ONLY <2>1, <2>2, <2>3 DEF Fresh
<1>5. CASE At("add") /\ ~At("copy") /\ task' = local
    <2>1. todo \in Settled(inside) /\ Still /\ ~At("add")' BY <1>1, <1>5, StillAfter
    <2>2. Fresh BY <1>2, <2>1
    <2>3. todo' \in Returning(inside) => todo \in Returning(inside)
        <3>1. Head(todo).op = "add" BY <1>5 DEF At
        <3> QED BY <1>1, <1>2, <2>1, <3>1, NoMoreFlush
    <2>4. Returning(inside)' = Returning(inside) /\ Chat(inside)' = Chat(inside)
        BY <1>1 DEF Returning, Goto, Op, Chat
    <2>5. local # <<>>
        <3>1. \E c \in Copy : local = <<c>> BY <1>5 DEF MainAt
        <3> QED BY <3>1
    <2>6. Newest' = local BY <1>5, <2>5 DEF Newest
    <2>7. FlushComing' <=> FlushComing BY <1>1 DEF FlushComing
    <2>8. (state = Chat(inside) \/ todo \in Returning(inside))' =>
              FlushComing \/ local = <<CopyOf(current[inside])>>
        BY <1>1, <1>5, <2>2, <2>3, <2>4 DEF Fresh
    <2>9. (state = Chat(inside) \/ todo \in Returning(inside))' =>
              FlushComing' \/ Newest' = <<CopyOf(current[inside])>>'
        BY ONLY <1>3, <2>6, <2>7, <2>8
    <2>10. (loop.at = "add" => loop.copy = CopyOf(current[inside]))'
        BY <1>1, <1>3, <2>2 DEF Fresh
    <2> QED BY ONLY <2>1, <2>9, <2>10 DEF Fresh
<1> QED BY <1>1, <1>4, <1>5

LEMMA SameProgram ==
    ASSUME UNCHANGED mainVars
    PROVE  /\ UNCHANGED <<state, current, inside, todo, offset, local>>
           /\ Still' <=> Still
           /\ At("add")' <=> At("add")
           /\ \A k : Chat(k)' = Chat(k)
           /\ Returning(inside)' = Returning(inside)
<1>1. UNCHANGED <<state, current, inside, todo, offset, local>> BY DEF mainVars
<1> QED BY <1>1 DEF Still, At, Settled, Rested, Leaving, Then, Goto, Op, Chat, Returning

LEMMA HandlerRefreshes ==
    ASSUME Typed, MainAt, HandlerStep
    PROVE  Refreshes
<1> SUFFICES ASSUME inside \in Kind, Still, ~Crossing', ~QuietPush, ~Crossing, Fresh
             PROVE  Fresh'
    <2>1. UNCHANGED mainVars
        BY DEF HandlerStep, PushMessage, StoreMessage, TestState, TestPeer, MarkUnread, FlushCopy,
               FlushAdd
    <2> QED BY <2>1, SameProgram DEF Refreshes
<1>1. UNCHANGED mainVars /\ screen' = screen /\ loop.at # "idle" /\ (~PushMessage => log' = log)
    BY DEF HandlerStep, PushMessage, StoreMessage, TestState, TestPeer, MarkUnread, FlushCopy,
           FlushAdd, storeVars, printVars
<1>2. /\ UNCHANGED <<state, current, inside, todo, offset, local>>
      /\ At("add")' <=> At("add") /\ \A k : Chat(k)' = Chat(k)
      /\ Returning(inside)' = Returning(inside)
    BY <1>1, SameProgram
<1>3. ~PushMessage => CopyOf(current[inside])' = CopyOf(current[inside]) BY <1>1, <1>2 DEF CopyOf
<1>4. /\ loop.msg \in Incoming /\ From[loop.msg] \in Peer
      /\ loop.at # "add" => loop \in Handling
    BY <1>1, HandlerTypes
<1>5. KindOf(current[inside]) = inside BY Peers DEF Typed
<1>6. CASE PushMessage
    <2>1. /\ loop.at = "push" /\ task' = task /\ loop' = [loop EXCEPT !.at = "store"]
          /\ log' = [log EXCEPT ![LogOf(loop.msg)] = Pushed(@, loop.msg)]
        BY <1>6 DEF PushMessage, printVars
    <2>2. loop'.at = "store" /\ loop'.msg = loop.msg /\ loop' # loop BY <1>4, <2>1, HandlerMoves
    <2>3. Newest' = Newest BY <1>1, <2>1 DEF Newest
    <2>4. ~FlushComing BY <2>1 DEF FlushComing
    <2>5. CASE log'[current[inside]] = log[current[inside]]
        <3>1. CopyOf(current[inside])' = CopyOf(current[inside]) BY <1>2, <2>5 DEF CopyOf
        <3> QED BY <1>2, <2>2, <2>3, <2>4, <3>1 DEF Fresh
    <2>6. CASE log'[current[inside]] # log[current[inside]]
        <3>1. From[loop.msg] = current[inside] /\ todo \notin Returning(inside)
            BY <2>2, <2>6 DEF QuietPush
        <3>2. state = Chat(inside) => FlushComing' BY <1>2, <2>2, <3>1 DEF FlushComing
        <3>3. loop'.at # "add" BY <2>2
        <3> QED BY <1>2, <3>1, <3>2, <3>3 DEF Fresh
    <2> QED BY <2>5, <2>6
<1>7. CASE StoreMessage
    <2>1. loop' = [loop EXCEPT !.at = "test"] /\ loop.at = "store" /\ task' = task /\ ~PushMessage
        BY <1>7 DEF StoreMessage, PushMessage, printVars
    <2>2. loop'.at = "test" /\ loop'.msg = loop.msg BY <1>4, <2>1, HandlerMoves
    <2>3. Newest' = Newest BY <1>1, <2>1 DEF Newest
    <2>4. FlushComing => FlushComing' BY <1>2, <2>1, <2>2 DEF FlushComing
    <2> QED BY <1>2, <1>3, <2>1, <2>2, <2>3, <2>4 DEF Fresh
<1>8. CASE TestState
    <2>1. /\ loop.at = "test" /\ task' = task /\ ~PushMessage
          /\ IF state = Chat(KindOf(From[loop.msg])) THEN loop' = [loop EXCEPT !.at = "peer"]
             ELSE loop' = [loop EXCEPT !.at = "mark"]
        BY <1>8 DEF TestState, PushMessage, printVars
    <2>2. Newest' = Newest BY <1>1, <2>1 DEF Newest
    <2>3. loop'.at \in {"peer", "mark"} /\ loop'.msg = loop.msg BY <1>4, <2>1, HandlerMoves
    <2>4. FlushComing => FlushComing'
        <3> SUFFICES ASSUME FlushComing PROVE FlushComing' OBVIOUS
        <3>1. From[loop.msg] = current[inside] /\ state = Chat(inside) BY <2>1 DEF FlushComing
        <3>2. loop' = [loop EXCEPT !.at = "peer"] BY <1>5, <2>1, <3>1
        <3>3. loop'.at = "peer" BY <1>4, <2>1, <3>2, HandlerMoves
        <3> QED BY <1>2, <2>3, <3>1, <3>3 DEF FlushComing
    <2> QED BY <1>2, <1>3, <2>1, <2>2, <2>3, <2>4 DEF Fresh
<1>9. CASE TestPeer
    <2>1. /\ loop.at = "peer" /\ task' = task /\ ~PushMessage
          /\ IF current[KindOf(From[loop.msg])] = From[loop.msg] THEN loop' = [loop EXCEPT !.at = "copy"]
             ELSE loop' = [loop EXCEPT !.at = "mark"]
        BY <1>9 DEF TestPeer, PushMessage, printVars
    <2>2. Newest' = Newest BY <1>1, <2>1 DEF Newest
    <2>3. loop'.at \in {"copy", "mark"} /\ loop'.msg = loop.msg BY <1>4, <2>1, HandlerMoves
    <2>4. FlushComing => FlushComing'
        <3> SUFFICES ASSUME FlushComing PROVE FlushComing' OBVIOUS
        <3>1. From[loop.msg] = current[inside] BY <2>1 DEF FlushComing
        <3>2. loop' = [loop EXCEPT !.at = "copy"] BY <1>5, <2>1, <3>1
        <3>3. loop'.at = "copy" BY <1>4, <2>1, <3>2, HandlerMoves
        <3> QED BY <3>3 DEF FlushComing
    <2> QED BY <1>2, <1>3, <2>1, <2>2, <2>3, <2>4 DEF Fresh
<1>10. CASE MarkUnread
    <2>1. loop.at = "mark" /\ task' = task /\ loop' = NoHandler /\ ~PushMessage
        BY <1>10 DEF MarkUnread, PushMessage, printVars
    <2>2. Newest' = Newest BY <1>1, <2>1 DEF Newest
    <2>3. ~FlushComing /\ loop'.at # "add" BY <2>1 DEF FlushComing, NoHandler
    <2> QED BY <1>2, <1>3, <2>1, <2>2, <2>3 DEF Fresh
<1>11. CASE FlushCopy
    <2>1. loop' = [at |-> "add", msg |-> loop.msg, copy |-> CopyOf(current[KindOf(From[loop.msg])])]
          /\ ~PushMessage
        BY <1>11 DEF FlushCopy, PushMessage
    <2>2. loop'.at = "add" /\ loop'.msg = loop.msg
          /\ loop'.copy = CopyOf(current[KindOf(From[loop.msg])])
        BY <2>1
    <2>3. inside = KindOf(From[loop.msg])
        <3>1. loop'.at \in {"copy", "add"} BY <2>2
        <3>2. ~(inside' # KindOf(From[loop'.msg])) BY <3>1 DEF Crossing, KindOf
        <3> QED BY <1>2, <2>2, <3>2
    <2>4. loop'.copy = CopyOf(current[inside])' BY <1>3, <2>1, <2>2, <2>3
    <2>5. FlushComing' BY <2>2 DEF FlushComing
    <2> QED BY <2>4, <2>5 DEF Fresh
<1>12. CASE FlushAdd
    <2>1. loop.at = "add" /\ task' = <<loop.copy>> /\ loop' = NoHandler /\ ~PushMessage
        BY <1>12 DEF FlushAdd, PushMessage
    <2>2. loop.copy = CopyOf(current[inside]) BY <2>1 DEF Fresh
    <2>3. ~At("add")' BY <1>2, <2>1 DEF Crossing
    <2>4. Newest' = <<CopyOf(current[inside])>>' BY <1>3, <2>1, <2>2 DEF Newest
    <2>5. loop'.at # "add" BY <2>1 DEF NoHandler
    <2> QED BY <2>3, <2>4, <2>5 DEF Fresh
<1> QED BY <1>6, <1>7, <1>8, <1>9, <1>10, <1>11, <1>12 DEF HandlerStep

LEMMA MessageRefreshes ==
    ASSUME Typed, MainAt, NEW m \in Incoming, HandleMessage(m)
    PROVE  Refreshes
<1>1. /\ UNCHANGED mainVars /\ task' = task /\ screen' = screen /\ loop.at = "idle"
      /\ loop'.at # "add" /\ log' = log
    BY DEF HandleMessage, printVars, storeVars
<1> SUFFICES ASSUME inside \in Kind, Still, Fresh
             PROVE  Fresh'
    BY <1>1, SameProgram DEF Refreshes
<1>2. /\ UNCHANGED <<state, current, inside, todo, offset, local>>
      /\ At("add")' <=> At("add") /\ \A k : Chat(k)' = Chat(k)
      /\ Returning(inside)' = Returning(inside)
    BY <1>1, SameProgram
<1>3. Newest' = Newest BY <1>1 DEF Newest
<1>4. ~FlushComing BY <1>1 DEF FlushComing
<1>5. CopyOf(current[inside])' = CopyOf(current[inside]) BY <1>1, <1>2 DEF CopyOf
<1> QED BY <1>1, <1>2, <1>3, <1>4, <1>5 DEF Fresh

LEMMA OtherRefreshes ==
    ASSUME Typed, MainAt
    PROVE  /\ PrintLogs => Refreshes
           /\ \A m \in Outgoing, k \in Kind : Announce(m, k) => Refreshes
<1>1. ASSUME PrintLogs PROVE Refreshes
    <2>1. UNCHANGED mainVars /\ loop' = loop /\ log' = log /\ task # <<>> /\ screen' = task /\ task' = <<>>
        BY <1>1 DEF PrintLogs, storeVars
    <2> SUFFICES ASSUME inside \in Kind, Still, Fresh PROVE Fresh'
        BY <2>1, SameProgram DEF Refreshes
    <2>2. /\ UNCHANGED <<state, current, inside, todo, offset, local>>
          /\ At("add")' <=> At("add") /\ \A k : Chat(k)' = Chat(k)
          /\ Returning(inside)' = Returning(inside)
        BY <2>1, SameProgram
    <2>3. Newest' = Newest BY <2>1 DEF Newest
    <2>4. CopyOf(current[inside])' = CopyOf(current[inside]) BY <2>1, <2>2 DEF CopyOf
    <2>5. FlushComing' <=> FlushComing BY <2>1, <2>2 DEF FlushComing
    <2> QED BY <2>1, <2>2, <2>3, <2>4, <2>5 DEF Fresh
<1>2. ASSUME NEW m \in Outgoing, NEW k \in Kind, Announce(m, k) PROVE Refreshes
    <2>1. /\ UNCHANGED mainVars /\ loop' = loop /\ task' = task /\ screen' = screen
          /\ \/ outgoing[m] = "unsent" /\ outgoing' = [outgoing EXCEPT ![m] = Announced(k)]
             \/ log' = log
        BY <1>2 DEF Announce, printVars
    <2> SUFFICES ASSUME inside \in Kind, Still, ~QuietPush, Fresh PROVE Fresh'
        BY <2>1, SameProgram DEF Refreshes
    <2>2. /\ UNCHANGED <<state, current, inside, todo, offset, local>>
          /\ At("add")' <=> At("add")
        BY <2>1, SameProgram
    <2>3. log'[current[inside]] = log[current[inside]]
        <3>1. ASSUME outgoing[m] = "unsent", outgoing' = [outgoing EXCEPT ![m] = Announced(k)]
              PROVE  outgoing' # outgoing
            <4>1. outgoing'[m] = Announced(k) BY <3>1 DEF Typed
            <4>2. Announced(k) # "unsent" BY DEF Announced
            <4> QED BY ONLY <3>1, <4>1, <4>2
        <3> QED BY <2>1, <2>2, <3>1 DEF QuietPush
    <2> QED BY <2>1, <2>2, <2>3, FreshStays
<1> QED BY <1>1, <1>2

\* What is shown of the open chat is kept by every step.
LEMMA ShownKept == Sound /\ Shown /\ ViewNext => Shown'
<1> SUFFICES ASSUME Typed, MainAt, Shown, ViewNext PROVE Shown' BY DEF Sound
<1>1. MainStep => Refreshes
    BY TypedRefreshes, NotYetStill, GotoRefreshes, FlushRefreshes DEF MainStep
<1>2. Refreshes
    BY <1>1, TypedRefreshes, HandlerRefreshes, MessageRefreshes, OtherRefreshes DEF ViewNext
<1>3. History BY DEF ViewNext
<1> QED BY <1>2, <1>3, ShownIf

LEMMA ShownAtFirst == ViewInit => Sound /\ Shown
<1> SUFFICES ASSUME ViewInit PROVE Sound /\ Shown OBVIOUS
<1>1. inside = "none" /\ "none" \notin Kind BY DEF ViewInit, Kind
<1>2. Shown BY <1>1 DEF Shown
<1>3. MainAt BY <1>1 DEF ViewInit, MainAt, At
<1>4. Carried BY DEF ViewInit, Carried
<1>5. Stored
    <2>1. <<>> \in Seq(Message) /\ Len(<<>>) = 0 OBVIOUS
    <2>2. Limit \in Nat BY PageAssumption DEF Limit
    <2> QED BY <2>1, <2>2 DEF ViewInit, Stored, Progress
<1>6. Sited BY DEF ViewInit, Sited, State
<1>7. Owed BY DEF ViewInit, Owed
<1> QED BY <1>2, <1>3, <1>4, <1>5, <1>6, <1>7 DEF Sound, Typed, Carried, Stored, Sited, Owed
-----------------------------------------------------------------------------
(* The theorem about the screen. *)

LEMMA ScreenHolds == Sound /\ Shown => ViewInv
<1> SUFFICES ASSUME Typed, MainAt, Shown PROVE ViewTypeOK /\ ScreenIsCurrent
    BY DEF Sound, ViewInv
<1>1. ViewTypeOK
    <2>1. Len(task) <= 1 /\ Len(screen) <= 1
        <3>1. ASSUME NEW s, s = <<>> \/ \E c \in Copy : s = <<c>> PROVE Len(s) <= 1
            <4>1. CASE s = <<>>
                <5>1. Len(<<>>) = 0 OBVIOUS
                <5> QED BY ONLY <4>1, <5>1
            <4>2. CASE \E c \in Copy : s = <<c>>
                <5>1. PICK c \in Copy : s = <<c>> BY <4>2
                <5>2. Len(<<c>>) = 1 OBVIOUS
                <5> QED BY ONLY <5>1, <5>2
            <4> QED BY <3>1, <4>1, <4>2
        <3> QED BY <3>1 DEF Typed
    <2>2. \A p \in Peer : RangeOf(file[p]) \subseteq Incoming \cup Outgoing
        <3>1. \A p \in Peer : file[p] \in Seq(Message) BY DEF Typed
        <3>2. \A s \in Seq(Message) : \A i \in DOMAIN s : s[i] \in Message OBVIOUS
        <3> QED BY ONLY <3>1, <3>2 DEF RangeOf, Message
    <2>3. \A p \in Peer : Len(log[p]) <= IF Page > PushLimit THEN Page ELSE PushLimit
        BY DEF Typed, Limit
    <2>4. live \cup due \subseteq Incoming BY DEF Typed
    <2> QED BY <2>1, <2>2, <2>3, <2>4 DEF Typed, ViewTypeOK
<1>2. ScreenIsCurrent
    <2> SUFFICES ASSUME todo = <<>>, inside \in Kind, state = Chat(inside), loop.at = "idle", ~crossed
                 PROVE  Newest = <<CopyOf(current[inside])>>
        BY DEF ScreenIsCurrent
    <2>1. Still BY ReturnHeads DEF Still
    <2>2. Fresh BY <2>1 DEF Shown
    <2>3. ~At("add") /\ ~FlushComing BY DEF At, FlushComing
    <2> QED BY <2>2, <2>3 DEF Fresh
<1> QED BY <1>1, <1>2

\* When neither thread is flushing, and unless flushes have crossed or the log was changed
\* without one (QuietPush), the chat that is open is printed as its log is, or its print is
\* queued (Controller.cc: flushLogs, flushGroupLogs; ChatService.cc: handleMessage,
\* handleGroupMessage), for any number of friends, groups and messages and any lengths of
\* log and page.
THEOREM ScreenShowsLog == ViewSpec => []ViewInv
<1>1. Sound /\ Shown /\ UNCHANGED viewVars => (Sound /\ Shown)'
    <2> SUFFICES ASSUME Typed, MainAt, Shown, UNCHANGED viewVars PROVE Typed' /\ MainAt' /\ Shown'
        BY DEF Sound
    <2>1. /\ UNCHANGED mainVars /\ crossed' = crossed
          /\ UNCHANGED <<loop, live, due, log, file, unread, outgoing, task, screen>>
        BY DEF viewVars, shared, netVars, storeVars, printVars
    <2>2. MainAt' BY <2>1, Unmoved
    <2>3. Typed' BY <2>1 DEF Typed, mainVars
    <2>4. /\ UNCHANGED <<state, current, inside, todo, offset, local>> /\ (Still' <=> Still)
          /\ At("add")' <=> At("add") /\ Returning(inside)' = Returning(inside)
        BY <2>1, SameProgram
    <2>5. Shown'
        <3>1. Crossing' <=> Crossing BY <2>1, <2>4 DEF Crossing, At, KindOf
        <3>2. Fresh => Fresh' BY <2>1, <2>4, FreshStays
        <3> QED BY <2>1, <2>4, <3>1, <3>2 DEF Shown
    <2> QED BY <2>2, <2>3, <2>5
<1>2. Sound /\ Shown /\ [ViewNext]_viewVars => (Sound /\ Shown)'
    BY <1>1, SoundKept, ShownKept
<1> QED BY <1>2, ShownAtFirst, ScreenHolds, PTL DEF ViewSpec
-----------------------------------------------------------------------------
(* What has become of the messages that have been stored. *)

LEMMA KnownStays == History => \A m : Known(m) => Known(m)'
BY DEF History, Known

LEMMA NowKnown ==
    ASSUME History, NEW m \in Incoming,
           \/ m \in Dropped \cup Evicted \cup OffPage
           \/ m = loop'.msg /\ (TestsDiffer' \/ OtherChat')
    PROVE  Known(m)'
<1>1. m \in Dropped \cup Evicted \cup OffPage
             \cup (IF TestsDiffer' \/ OtherChat' THEN {loop'.msg} ELSE {})
    OBVIOUS
<1>2. excused' = (excused \cup Dropped \cup Evicted \cup OffPage
             \cup (IF TestsDiffer' \/ OtherChat' THEN {loop'.msg} ELSE {})) \ seen'
    BY DEF History
<1>3. m \in seen' \/ m \in excused' BY ONLY <1>1, <1>2
<1> QED BY ONLY <1>3 DEF Known

\* A message leaves its sender's log only as one that is excused.
LEMMA LoggedOrKnown ==
    ASSUME History, NEW m \in Incoming, m \in RangeOf(log[From[m]])
    PROVE  m \in RangeOf(log'[From[m]]) \/ Known(m)'
<1> SUFFICES ASSUME m \notin RangeOf(log'[From[m]]) PROVE Known(m)' OBVIOUS
<1>1. m \in Evicted BY DEF Evicted
<1> QED BY <1>1, NowKnown

\* A message leaves the printer's queue printed, or as one that is excused.
LEMMA PooledOrKnown ==
    ASSUME History, NEW m \in Incoming, ByPool(m)
    PROVE  ByPool(m)' \/ Known(m)'
<1>1. task # <<>> /\ m \in Printed(task[1]) BY DEF ByPool
<1>2. CASE task' = <<>>
    <2>1. seen' = seen \cup Printed(task[1]) BY <1>1, <1>2 DEF History
    <2> QED BY <1>1, <2>1 DEF Known
<1>3. CASE task' # <<>>
    <2>1. CASE m \in Printed(task'[1])
        <3>1. Printed(task[1])' = Printed(task'[1]) BY DEF Printed, RangeOf
        <3> QED BY <1>3, <2>1, <3>1 DEF ByPool
    <2>2. CASE m \notin Printed(task'[1])
        <3>1. m \in Dropped BY <1>1, <1>3, <2>2 DEF Dropped
        <3> QED BY <3>1, NowKnown
    <2> QED BY <2>1, <2>2
<1> QED BY <1>2, <1>3

StoredIn(m) == m \in RangeOf(file[From[m]])

\* The files grow; what the user has sent is no message that comes in.
LEMMA FilesGrow ==
    ASSUME Typed, MainAt, ViewNext, NEW m \in Incoming
    PROVE  /\ StoredIn(m) => StoredIn(m)'
           /\ StoredIn(m)' => StoredIn(m) \/ (StoreMessage /\ m = loop.msg)
<1>1. ASSUME NEW p \in Peer, NEW o \in Message, file' = [file EXCEPT ![p] = Append(@, o)]
      PROVE  /\ StoredIn(m) => StoredIn(m)'
             /\ StoredIn(m)' => StoredIn(m) \/ m = o
    <2>1. \A q \in Peer : RangeOf(file'[q]) = RangeOf(file[q]) \cup (IF q = p THEN {o} ELSE {})
        BY <1>1, FileStored
    <2>2. From[m] \in Peer BY Peers
    <2>3. StoredIn(m)' <=> m \in RangeOf(file'[From[m]]) BY DEF StoredIn, RangeOf
    <2> QED BY <2>1, <2>2, <2>3 DEF StoredIn
<1>2. CASE file' = file BY <1>2 DEF StoredIn, RangeOf
<1>3. CASE SendMessage /\ file' # file
    <2>1. /\ At("store") /\ ~At("goto") /\ todo # <<>>
          /\ file' = [file EXCEPT ![Here] = @ \o local]
        BY <1>3 DEF SendMessage, At
    <2>2. PICK o \in Outgoing : local = <<o>> BY <2>1 DEF MainAt
    <2>3. Here \in Peer BY <2>1, MainPoint
    <2>4. file[Here] \in Seq(Message) /\ o \in Message BY <2>3 DEF Typed, Message
    <2>5. file[Here] \o <<o>> = Append(file[Here], o) BY ONLY <2>4
    <2>6. file' = [file EXCEPT ![Here] = Append(@, o)] BY ONLY <2>1, <2>2, <2>5
    <2>7. m # o BY MessageAssumption
    <2> QED BY <1>1, <2>3, <2>4, <2>6, <2>7
<1>4. CASE (\E o \in Outgoing, k \in Kind : Announce(o, k)) /\ file' # file
    <2>1. PICK o \in Outgoing, k \in Kind : file' = [file EXCEPT ![current[k]] = Append(@, o)]
        BY <1>4 DEF Announce
    <2>2. current[k] \in Peer /\ o \in Message /\ m # o BY MessageAssumption DEF Typed, Message
    <2> QED BY <1>1, <2>1, <2>2
<1>5. CASE StoreMessage
    <2>1. file' = [file EXCEPT ![From[loop.msg]] = Append(@, loop.msg)] /\ loop.at # "idle"
        BY <1>5 DEF StoreMessage
    <2>2. From[loop.msg] \in Peer /\ loop.msg \in Message BY <2>1, HandlerTypes
    <2> QED BY <1>1, <1>5, <2>1, <2>2
<1>6. \/ file' = file \/ SendMessage \/ StoreMessage
      \/ \E o \in Outgoing, k \in Kind : Announce(o, k)
    <2>1. MainStep => file' = file \/ SendMessage
        BY DEF MainStep, PageBack, GotoState, GetChatLogs, ClearUnread, ReadPage, ReplaceLog,
               FlushLogs, CheckList, Spin, shared, storeVars
    <2>2. HandlerStep => file' = file \/ StoreMessage
        BY DEF HandlerStep, PushMessage, TestState, TestPeer, MarkUnread, FlushCopy, FlushAdd,
               storeVars
    <2>3. (\E p \in Peer : OpenChat(p)) \/ TypeCommand \/ PrintLogs => file' = file
        BY DEF OpenChat, TypeCommand, PrintLogs, shared, storeVars
    <2>4. (\E o \in Outgoing : TypeMessage(o)) \/ (\E o \in Incoming : HandleMessage(o))
              => file' = file
        BY DEF TypeMessage, HandleMessage, storeVars
    <2> QED BY <2>1, <2>2, <2>3, <2>4 DEF ViewNext
<1> QED BY <1>2, <1>3, <1>4, <1>5, <1>6

\* The pool is where every action has to leave a message, or the screen.
LEMMA ElsewhereIf ==
    ASSUME History, NEW m \in Incoming, Elsewhere(m),
           ~Known(m)' => (From[m] \in unread => From[m] \in unread' \/ Elsewhere(m)'),
           ~Known(m)' => (ByMain(m) => Elsewhere(m)')
    PROVE  Elsewhere(m)'
<1>1. Known(m) => Known(m)' BY KnownStays
<1>2. ByPool(m) => ByPool(m)' \/ Known(m)' BY PooledOrKnown
<1> QED BY <1>1, <1>2 DEF Elsewhere

\* The main thread carries a message on the way to the newest page, and in four of its
\* operations.
LEMMA MainCarries ==
    ASSUME Typed, NEW m, ByMain(m)
    PROVE  /\ todo # <<>> /\ inside \in Kind /\ current[inside] = From[m]
           /\ Head(todo).op \in {"goto", "getLogs", "clear", "newest", "replace", "copy", "add"}
<1>1. inside \in Kind /\ current[inside] = From[m] BY DEF ByMain
<1>2. CASE todo \in Awaiting(inside)
    BY <1>1, <1>2, AwaitingSteps
<1>3. CASE todo \notin Awaiting(inside) BY <1>1, <1>3 DEF ByMain, At
<1> QED BY <1>1, <1>2, <1>3

\* The steps of the main thread.
LEMMA MainElsewhere ==
    ASSUME Typed, MainAt, History, NEW m \in Incoming, Elsewhere(m), StoredIn(m)
    PROVE  MainStep => Elsewhere(m)'
<1>1. ASSUME unread' = unread, ~ByMain(m) PROVE Elsewhere(m)'
    BY <1>1, ElsewhereIf
<1>2. ASSUME PageBack \/ CheckList \/ SendMessage \/ Spin PROVE Elsewhere(m)'
    <2>1. /\ unread' = unread
          /\ Head(todo).op \in {"back", "check", "push", "store", "spin"}
        BY <1>2 DEF PageBack, CheckList, SendMessage, Spin, shared, storeVars, At
    <2>2. ~ByMain(m) BY <2>1, MainCarries
    <2> QED BY <1>1, <2>1, <2>2
<1>3. ASSUME todo # <<>>, ~At("goto")
      PROVE  /\ inside \in Kind /\ Followed(inside, todo)
             /\ Arg = inside /\ Here = current[inside]
    BY <1>3, MainPoint
<1>4. ASSUME todo # <<>>, Head(todo).op \in {"goto", "getLogs", "clear"}, todo' = Tail(todo),
             ByMain(m), current' = current,
             (Head(todo).op = "goto" /\ Arg = "AWAY") \/ inside' = inside
      PROVE  ByMain(m)'
    <2>1. inside \in Kind /\ current[inside] = From[m] /\ todo \in Awaiting(inside)
        BY <1>4 DEF ByMain, At
    <2>2. /\ Tail(todo) \in Awaiting(inside) \/ First(Tail(todo), "newest")
          /\ Head(todo).op = "goto" => Head(todo).arg = Chat(inside)
        BY <2>1, AwaitingSteps
    <2>3. inside' = inside BY <1>4, <2>1, <2>2, Peers DEF Arg
    <2>4. Awaiting(inside)' = Awaiting(inside) BY <2>3, AwaitingSame
    <2> QED BY <1>4, <2>1, <2>2, <2>3, <2>4 DEF ByMain, At, First
<1>5. ASSUME GotoState \/ GetChatLogs PROVE Elsewhere(m)'
    <2>1. /\ todo # <<>> /\ Head(todo).op \in {"goto", "getLogs"} /\ todo' = Tail(todo)
          /\ current' = current /\ unread' = unread
          /\ (Head(todo).op = "goto" /\ Arg = "AWAY") \/ inside' = inside
        BY <1>5 DEF GotoState, GetChatLogs, At, storeVars
    <2>2. ByMain(m) => ByMain(m)' BY <1>4, <2>1
    <2> QED BY <2>1, <2>2, ElsewhereIf DEF Elsewhere
<1>6. ASSUME ClearUnread PROVE Elsewhere(m)'
    <2>1. /\ todo # <<>> /\ Head(todo).op = "clear" /\ unread' = unread \ {Here}
          /\ todo' = Tail(todo) /\ inside' = inside /\ current' = current
        BY <1>6 DEF ClearUnread, At
    <2>2. ByMain(m) => ByMain(m)' BY <1>4, <2>1
    <2>3. inside \in Kind /\ Here = current[inside] /\ First(todo', "newest")
        BY <1>3, <2>1 DEF Followed, At
    <2>4. From[m] = Here => ByMain(m)'
        BY <2>1, <2>3 DEF ByMain, At, First
    <2>5. From[m] \in unread => From[m] \in unread' \/ Elsewhere(m)' BY <2>1, <2>4 DEF Elsewhere
    <2> QED BY <2>2, <2>5, ElsewhereIf DEF Elsewhere
<1>7. ASSUME ReadPage PROVE Elsewhere(m)'
    <2>1. /\ todo # <<>> /\ Head(todo).op \in Page3 /\ todo' = Tail(todo)
          /\ inside' = inside /\ current' = current /\ unread' = unread /\ ~At("goto")
        BY <1>7 DEF ReadPage, At, shared, storeVars, Page3
    <2>2. inside \in Kind /\ Here = current[inside] /\ First(todo', "replace")
        BY <1>3, <2>1 DEF Followed
    <2>3. ASSUME ByMain(m), ~Known(m)' PROVE ByMain(m)'
        <3>1. From[m] = Here BY <2>2, <2>3, MainCarries
        <3>2. Head(todo).op = "newest" BY <2>1, <2>3, MainCarries DEF Page3
        <3>3. m \in RangeOf(local')
            <4> SUFFICES ASSUME m \notin RangeOf(local') PROVE FALSE OBVIOUS
            <4>1. m \in OffPage
                <5>1. At("newest") /\ todo' = Tail(todo) BY <2>1, <3>2 DEF At
                <5>2. m \in RangeOf(file[Here]) \ RangeOf(local') BY <3>1 DEF StoredIn
                <5> QED BY ONLY <3>1, <5>1, <5>2, m \in Incoming DEF OffPage
            <4> QED BY <2>3, <4>1, NowKnown
        <3>4. At("replace")' BY <2>2 DEF At, First
        <3>5. RangeOf(local)' = RangeOf(local') BY DEF RangeOf
        <3> QED BY <2>1, <2>2, <3>1, <3>3, <3>4, <3>5 DEF ByMain
    <2> QED BY <2>1, <2>3, ElsewhereIf DEF Elsewhere
<1>8. ASSUME ReplaceLog PROVE Elsewhere(m)'
    <2>1. /\ todo # <<>> /\ Head(todo).op = "replace" /\ todo' = Tail(todo)
          /\ inside' = inside /\ current' = current /\ unread' = unread /\ ~At("goto")
          /\ log' = [log EXCEPT ![Here] = local]
        BY <1>8 DEF ReplaceLog, At
    <2>2. inside \in Kind /\ Here = current[inside] /\ First(todo', "copy") /\ Here \in Peer
        BY <1>3, <2>1, MainPoint DEF Followed
    <2>3. ASSUME ByMain(m) PROVE ByMain(m)'
        <3>1. todo \notin Awaiting(inside) BY <2>1, <2>2, AwaitingSteps
        <3>2. From[m] = Here /\ m \in RangeOf(local) BY <2>1, <2>2, <2>3, <3>1 DEF ByMain, At
        <3>3. log'[Here] = local BY <2>1, <2>2 DEF Typed
        <3>4. At("copy")' BY <2>2 DEF At, First
        <3>5. RangeOf(log[From[m]])' = RangeOf(log'[From[m]]) BY DEF RangeOf
        <3> QED BY <2>1, <2>2, <3>2, <3>3, <3>4, <3>5 DEF ByMain
    <2> QED BY <2>1, <2>3, ElsewhereIf DEF Elsewhere
<1>9. ASSUME FlushLogs PROVE Elsewhere(m)'
    <2>1. /\ todo # <<>> /\ todo' = Tail(todo) /\ ~At("goto")
          /\ inside' = inside /\ current' = current /\ unread' = unread
          /\ \/ At("copy") /\ local' = <<CopyOf(Here)>>
             \/ At("add") /\ task' = local
        BY <1>9 DEF FlushLogs, At, storeVars
    <2>2. inside \in Kind /\ Here = current[inside] /\ Followed(inside, todo)
        BY <1>3, <2>1
    <2>3. todo \notin Awaiting(inside) BY <2>1, <2>2, AwaitingSteps DEF At
    <2>4. CASE At("copy") /\ local' = <<CopyOf(Here)>>
        <3>1. ASSUME ByMain(m) PROVE ByMain(m)'
            <4>1. From[m] = Here /\ m \in RangeOf(log[Here])
                BY <2>2, <2>3, <2>4, <3>1 DEF ByMain, At
            <4>2. /\ local'[1] = CopyOf(Here) /\ CopyOf(Here).title = Here
                  /\ CopyOf(Here).logs = log[Here]
                BY <2>4 DEF CopyOf
            <4>3. m \in Printed(local'[1])
                <5>1. m \in RangeOf(local'[1].logs) /\ local'[1].title = From[m] BY <4>1, <4>2
                <5> QED BY <5>1 DEF Printed
            <4>4. At("add")' BY <2>1, <2>2, <2>4 DEF Followed, At, First
            <4>5. Printed(local[1])' = Printed(local'[1]) BY DEF Printed, RangeOf
            <4> QED BY <2>1, <2>2, <4>1, <4>3, <4>4, <4>5 DEF ByMain
        <3> QED BY <2>1, <3>1, ElsewhereIf DEF Elsewhere
    <2>5. CASE At("add") /\ task' = local
        <3>1. ASSUME ByMain(m) PROVE ByPool(m)'
            <4>1. m \in Printed(local[1]) BY <2>3, <2>5, <3>1 DEF ByMain, At
            <4>2. local # <<>>
                <5>1. \E c \in Copy : local = <<c>> BY <2>5 DEF MainAt
                <5> QED BY ONLY <5>1
            <4>3. Printed(task[1])' = Printed(task'[1]) BY DEF Printed, RangeOf
            <4> QED BY <2>5, <4>1, <4>2, <4>3 DEF ByPool
        <3> QED BY <2>1, <3>1, ElsewhereIf DEF Elsewhere
    <2> QED BY <2>1, <2>4, <2>5
<1> QED BY <1>2, <1>5, <1>6, <1>7, <1>8, <1>9 DEF MainStep

\* The other threads, which do not touch what the main thread carries.
LEMMA MainKeeps ==
    ASSUME History, UNCHANGED mainVars, NEW m \in Incoming, ByMain(m)
    PROVE  ByMain(m)' \/ Known(m)'
<1>1. UNCHANGED <<state, current, inside, todo, offset, local>> BY DEF mainVars
<1>2. Printed(local[1])' = Printed(local[1]) BY <1>1 DEF Printed, RangeOf
<1>3. (\A op : At(op)' <=> At(op)) /\ Awaiting(inside)' = Awaiting(inside)
    BY <1>1, AwaitingSame DEF At
<1>4. CASE At("copy") /\ m \in RangeOf(log[From[m]])
    <2>1. m \in RangeOf(log'[From[m]]) \/ Known(m)' BY <1>4, LoggedOrKnown
    <2>2. RangeOf(log[From[m]])' = RangeOf(log'[From[m]]) BY DEF RangeOf
    <2> QED BY <1>1, <1>3, <1>4, <2>1, <2>2 DEF ByMain
<1>5. CASE ~(At("copy") /\ m \in RangeOf(log[From[m]]))
    BY <1>1, <1>2, <1>3, <1>5 DEF ByMain, RangeOf
<1> QED BY <1>4, <1>5

\* A stored message that is elsewhere than with the handler stays there.
LEMMA ElsewhereKept ==
    ASSUME Typed, MainAt, ViewNext, NEW m \in Incoming, Elsewhere(m), StoredIn(m)
    PROVE  Elsewhere(m)'
<1>1. History BY DEF ViewNext
<1>2. CASE MainStep BY <1>1, <1>2, MainElsewhere
<1>3. CASE \/ \E p \in Peer : OpenChat(p)
           \/ TypeCommand
           \/ \E o \in Outgoing : TypeMessage(o)
    <2>1. unread' = unread /\ todo = <<>>
        BY <1>3 DEF OpenChat, TypeCommand, TypeMessage, shared, storeVars
    <2>2. ~ByMain(m) BY <2>1, MainCarries
    <2> QED BY <1>1, <2>1, <2>2, ElsewhereIf
<1>4. CASE \/ HandlerStep \/ PrintLogs
           \/ \E o \in Incoming : HandleMessage(o)
           \/ \E o \in Outgoing, k \in Kind : Announce(o, k)
    <2>1. UNCHANGED mainVars /\ unread \subseteq unread'
        <3>1. CASE HandlerStep
            BY <3>1 DEF HandlerStep, PushMessage, StoreMessage, TestState, TestPeer, MarkUnread,
                        FlushCopy, FlushAdd, storeVars
        <3>2. CASE ~HandlerStep
            BY <1>4, <3>2 DEF PrintLogs, HandleMessage, Announce, storeVars
        <3> QED BY <3>1, <3>2
    <2>2. ByMain(m) => ByMain(m)' \/ Known(m)' BY <1>1, <2>1, MainKeeps
    <2> QED BY <1>1, <2>1, <2>2, ElsewhereIf DEF Elsewhere
<1> QED BY <1>2, <1>3, <1>4 DEF ViewNext

\* A step of another thread than the loop's: it leaves what was known of the message,
\* or the chat is entered and will show it from the file.
LEMMA HasWaits ==
    ASSUME Typed, History, NEW m \in Incoming, loop.msg = m, loop.at # "idle", loop' = loop,
           Has(m), ~Known(m)',
           \A k \in Kind : state' = Chat(k) =>
               current'[k] = current[k] /\ (state = Chat(k) \/ (At("goto") /\ Arg = Chat(k))),
           \A k \in Kind : current'[k] = current[k] \/ (inside' = k /\ todo' \in Awaiting(k))
    PROVE  Has(m)' \/ (ByMain(m)' /\ loop.at \notin {"push", "store"})
<1> DEFINE k == KindOf(From[m])
<1>1. k \in Kind /\ From[m] \in Peer BY Peers
<1>2. ~TestsDiffer' /\ ~OtherChat' BY NowKnown DEF Known
<1>3. m \in RangeOf(log[From[m]]) => m \in RangeOf(log'[From[m]]) BY LoggedOrKnown DEF Known
<1>4. k' = k /\ Chat(k)' = Chat(k) /\ Printed(loop.copy)' = Printed(loop.copy)
    BY DEF KindOf, Chat, Printed, RangeOf
<1> HIDE DEF k
<1>5. loop.at \in {"store", "test"} /\ current'[k] = From[m] /\ state' = Chat(k)
         => m \in RangeOf(log'[From[m]])
    <2> SUFFICES ASSUME loop.at \in {"store", "test"}, current'[k] = From[m], state' = Chat(k)
                 PROVE  m \in RangeOf(log[From[m]])
        BY <1>3
    <2>1. current[k] = From[m] /\ (state = Chat(k) \/ (At("goto") /\ Arg = Chat(k))) BY <1>1
    <2>2. ~(At("goto") /\ Arg = Chat(k)) BY <2>1 DEF Has, TestsDiffer, k
    <2> QED BY <2>1, <2>2 DEF Has, k
<1>6. loop.at = "copy" => m \in RangeOf(log'[From[m]]) BY <1>3 DEF Has
<1>7. loop.at = "add" => m \in Printed(loop.copy) BY DEF Has
<1>8. CASE current'[k] = current[k]
    <2>1. loop.at = "peer" /\ current'[k] = From[m] => m \in RangeOf(log'[From[m]])
        BY <1>3, <1>8 DEF Has, k
    <2> QED BY <1>2, <1>4, <1>5, <1>6, <1>7, <2>1 DEF Has, RangeOf, k
<1>9. CASE current'[k] # current[k]
    <2>1. inside' = k /\ todo' \in Awaiting(k) BY <1>1, <1>9
    <2>2. CASE current'[k] = From[m]
        <3>1. Awaiting(inside)' = Awaiting(k) BY <2>1, AwaitingSame
        <3>2. ByMain(m)' BY <1>1, <2>1, <2>2, <3>1 DEF ByMain
        <3>3. state' # Chat(k) BY <1>1, <1>9
        <3>4. loop.at \in {"push", "store"} => Has(m)' BY <1>2, <1>4, <3>3 DEF Has, k
        <3> QED BY <3>2, <3>4
    <2>3. CASE current'[k] # From[m]
        BY <1>2, <1>4, <1>5, <1>6, <1>7, <2>3 DEF Has, RangeOf, k
    <2> QED BY <2>2, <2>3
<1> QED BY <1>8, <1>9

LEMMA HandlerWaits ==
    ASSUME Typed, MainAt, ViewNext, HandlerHas, loop' = loop,
           \A k \in Kind : state' = Chat(k) =>
               current'[k] = current[k] /\ (state = Chat(k) \/ (At("goto") /\ Arg = Chat(k))),
           \A k \in Kind : current'[k] = current[k] \/ (inside' = k /\ todo' \in Awaiting(k))
    PROVE  HandlerHas'
<1> SUFFICES ASSUME loop.at # "idle" PROVE HandlerHas' BY DEF HandlerHas
<1> PICK m : m = loop.msg OBVIOUS
<1>1. m \in Incoming /\ History BY HandlerTypes DEF ViewNext
<1>2. Has(m) => Known(m)' \/ Has(m)' \/ (ByMain(m)' /\ loop.at \notin {"push", "store"})
    BY <1>1, HasWaits
<1>3. Known(m) => Known(m)' BY <1>1, KnownStays
<1>4. StoredIn(m) => StoredIn(m)' BY <1>1, FilesGrow
<1>5. StoredIn(m) /\ Elsewhere(m) => Elsewhere(m)' BY <1>1, ElsewhereKept
<1>6. loop.at \in {"push", "store"} => Known(m)' \/ Has(m)'
    BY <1>2, <1>3 DEF HandlerHas
<1>7. loop.at \notin {"push", "store"} => StoredIn(m)' /\ (Elsewhere(m)' \/ Has(m)')
    BY <1>2, <1>4, <1>5 DEF HandlerHas, StoredIn, Elsewhere
<1>8. loop'.msg = m /\ loop'.at = loop.at OBVIOUS
<1> QED BY <1>6, <1>7, <1>8 DEF HandlerHas, StoredIn

\* The steps that are not the loop thread's.
LEMMA LoopKept ==
    ASSUME Typed, MainAt, ViewNext
    PROVE  \/ HandlerStep \/ \E m \in Incoming : HandleMessage(m)
           \/ /\ loop' = loop
              /\ \A k \in Kind : state' = Chat(k) =>
                    current'[k] = current[k] /\ (state = Chat(k) \/ (At("goto") /\ Arg = Chat(k)))
              /\ \A k \in Kind : current'[k] = current[k] \/ (inside' = k /\ todo' \in Awaiting(k))
<1>1. CASE \E p \in Peer : OpenChat(p)
    <2>1. PICK p \in Peer : OpenChat(p) BY <1>1
    <2> DEFINE k == KindOf(p)
    <2>2. /\ inside = "none" /\ current' = [current EXCEPT ![k] = p] /\ inside' = k
          /\ todo' = Goto(Chat(k)) \o EnterChat(k) /\ state' = state /\ loop' = loop
        BY <2>1 DEF OpenChat, shared
    <2>3. k \in Kind BY Peers
    <2> HIDE DEF k
    <2>4. \A j \in Kind : Chat(j) # state' BY <2>2, Peers DEF MainAt, Chat
    <2>5. todo' \in Awaiting(k) BY <2>2, <2>3, AwaitingSteps
    <2>6. \A j \in Kind : j # k => current'[j] = current[j] BY <2>2 DEF Typed
    <2> QED BY <2>2, <2>4, <2>5, <2>6
<1>2. CASE GotoState
    BY <1>2 DEF GotoState
<1>3. CASE \/ TypeCommand \/ PrintLogs
           \/ \E m \in Outgoing : TypeMessage(m)
           \/ \E m \in Outgoing, k \in Kind : Announce(m, k)
    <2>1. loop' = loop /\ state' = state /\ current' = current
        BY <1>3 DEF TypeCommand, TypeMessage, PrintLogs, Announce, mainVars, shared
    <2> QED BY <2>1
<1>4. CASE MainStep /\ ~GotoState
    <2>1. loop' = loop /\ state' = state /\ current' = current
        BY <1>4 DEF MainStep, PageBack, GetChatLogs, ClearUnread, ReadPage, ReplaceLog,
                    FlushLogs, CheckList, SendMessage, Spin, mainVars, shared
    <2> QED BY <2>1
<1> QED BY <1>1, <1>2, <1>3, <1>4 DEF ViewNext

\* The flush of a handler takes its message along.
LEMMA CopyHas ==
    ASSUME FlushCopy, NEW m \in Incoming, loop.msg = m, Has(m)
    PROVE  m \in Printed(loop'.copy) /\ loop'.at = "add" /\ loop'.msg = m
<1>1. /\ loop.at = "copy"
      /\ loop' = [at |-> "add", msg |-> m, copy |-> CopyOf(current[KindOf(From[m])])]
    BY DEF FlushCopy
<1>2. current[KindOf(From[m])] = From[m] /\ m \in RangeOf(log[From[m]])
    BY <1>1 DEF Has, OtherChat
<1>3. loop'.at = "add" /\ loop'.msg = m /\ loop'.copy = CopyOf(From[m]) BY <1>1, <1>2
<1>4. CopyOf(From[m]).title = From[m] /\ CopyOf(From[m]).logs = log[From[m]] BY DEF CopyOf
<1> QED BY <1>2, <1>3, <1>4 DEF Printed

LEMMA HandlerKept == Sound /\ HandlerHas /\ ViewNext => HandlerHas'
<1> SUFFICES ASSUME Typed, MainAt, HandlerHas, ViewNext PROVE HandlerHas' BY DEF Sound
<1>1. History BY DEF ViewNext
<1>2. CASE /\ loop' = loop
           /\ \A k \in Kind : state' = Chat(k) =>
                 current'[k] = current[k] /\ (state = Chat(k) \/ (At("goto") /\ Arg = Chat(k)))
           /\ \A k \in Kind : current'[k] = current[k] \/ (inside' = k /\ todo' \in Awaiting(k))
    BY <1>2, HandlerWaits
<1>3. CASE \E m \in Incoming : HandleMessage(m)
    <2>1. PICK m \in Incoming : HandleMessage(m) BY <1>3
    <2>2. /\ loop' = [at |-> IF state = Chat(KindOf(From[m])) THEN "push" ELSE "store", msg |-> m]
          /\ state' = state
        BY <2>1 DEF HandleMessage, mainVars
    <2>3. loop'.msg = m /\ loop'.at = IF state = Chat(KindOf(From[m])) THEN "push" ELSE "store"
        BY <2>2
    <2>4. TestsDiffer' => Known(m)' BY <1>1, <2>3, NowKnown
    <2>5. ~OtherChat' BY <2>3 DEF OtherChat
    <2>6. ~TestsDiffer' => Has(m)' BY <2>2, <2>3, <2>5 DEF Has
    <2> QED BY <2>3, <2>4, <2>6 DEF HandlerHas
<1>4. CASE HandlerStep
    <2> PICK m : m = loop.msg OBVIOUS
    <2>1. loop.at # "idle"
        BY <1>4 DEF HandlerStep, PushMessage, StoreMessage, TestState, TestPeer, MarkUnread,
                    FlushCopy, FlushAdd
    <2>2. m \in Incoming /\ m \in Message /\ From[m] \in Peer /\ (loop.at # "add" => loop \in Handling)
        BY <2>1, HandlerTypes
    <2>3. Known(m) => Known(m)' BY <1>1, KnownStays
    <2>4. (TestsDiffer' \/ OtherChat') /\ loop'.msg = m => Known(m)' BY <1>1, <2>2, NowKnown
    <2>5. loop.at \notin {"push", "store"} =>
              /\ StoredIn(m) /\ StoredIn(m)' /\ (Elsewhere(m) => Elsewhere(m)')
              /\ Elsewhere(m) \/ Has(m)
        <3>1. loop.at \notin {"push", "store"} => StoredIn(m) /\ (Elsewhere(m) \/ Has(m))
            BY <2>1 DEF HandlerHas, StoredIn
        <3> QED BY <2>2, <3>1, FilesGrow, ElsewhereKept
    <2>6. ASSUME loop'.msg = m, loop'.at \in {"test", "peer", "mark", "copy", "add"},
                 StoredIn(m)', Elsewhere(m)' \/ Has(m)'
          PROVE  HandlerHas'
        BY <2>6 DEF HandlerHas, StoredIn
    <2>7. CASE PushMessage
        <3>1. /\ loop' = [loop EXCEPT !.at = "store"] /\ loop.at = "push"
              /\ log' = [log EXCEPT ![LogOf(m)] = Pushed(@, m)]
              /\ UNCHANGED <<state, current>>
            BY <2>7 DEF PushMessage, mainVars
        <3>2. loop'.at = "store" /\ loop'.msg = m BY <2>2, <3>1, HandlerMoves
        <3>3. current[KindOf(From[m])] = From[m] => m \in RangeOf(log'[From[m]])
            <4>1. current[KindOf(From[m])] = From[m] => LogOf(m) = From[m] BY DEF LogOf, KindOf
            <4>2. LogOf(m) \in Peer BY <2>2, LogTaken
            <4> QED BY <2>2, <3>1, <4>1, <4>2, LogPushed
        <3>4. ~TestsDiffer' /\ ~OtherChat' => Has(m)' BY <3>1, <3>2, <3>3 DEF Has, RangeOf
        <3> QED BY <2>4, <3>2, <3>4 DEF HandlerHas
    <2>8. CASE StoreMessage
        <3>1. /\ loop' = [loop EXCEPT !.at = "test"] /\ loop.at = "store"
              /\ file' = [file EXCEPT ![From[m]] = Append(@, m)]
              /\ UNCHANGED <<state, current, log>>
            BY <2>8 DEF StoreMessage, mainVars
        <3>2. loop'.at = "test" /\ loop'.msg = m BY <2>2, <3>1, HandlerMoves
        <3>3. StoredIn(m)'
            <4>1. PICK p \in Peer : p = From[m] BY <2>2
            <4>2. file' = [file EXCEPT ![p] = Append(@, m)] BY <3>1, <4>1
            <4>3. \A q \in Peer :
                      RangeOf(file'[q]) = RangeOf(file[q]) \cup (IF q = p THEN {m} ELSE {})
                BY <2>2, <4>2, FileStored
            <4>4. m \in RangeOf(file'[p]) BY <4>3
            <4> QED BY <4>1, <4>4 DEF StoredIn, RangeOf
        <3>4. Known(m) \/ Has(m) BY <3>1 DEF HandlerHas
        <3>5. Has(m) /\ ~TestsDiffer' /\ ~OtherChat' => Has(m)' BY <3>1, <3>2 DEF Has, RangeOf
        <3> QED BY <2>3, <2>4, <2>6, <3>2, <3>3, <3>4, <3>5 DEF Elsewhere
    <2>9. CASE TestState
        <3>1. /\ loop' = [loop EXCEPT !.at = IF state = Chat(KindOf(From[m])) THEN "peer" ELSE "mark"]
              /\ loop.at = "test" /\ UNCHANGED <<state, current, log>>
            BY <2>9 DEF TestState, mainVars, storeVars
        <3>2. loop'.at = (IF state = Chat(KindOf(From[m])) THEN "peer" ELSE "mark") /\ loop'.msg = m
            BY <2>2, <3>1, HandlerMoves
        <3>3. Has(m) => Has(m)' BY <3>1, <3>2 DEF Has, TestsDiffer, OtherChat, RangeOf
        <3> QED BY <2>5, <2>6, <3>1, <3>2, <3>3
    <2>10. CASE TestPeer
        <3>1. /\ loop' = [loop EXCEPT !.at = IF current[KindOf(From[m])] = From[m]
                                             THEN "copy" ELSE "mark"]
              /\ loop.at = "peer" /\ UNCHANGED <<state, current, log>>
            BY <2>10 DEF TestPeer, mainVars, storeVars
        <3>2. /\ loop'.at = IF current[KindOf(From[m])] = From[m] THEN "copy" ELSE "mark"
              /\ loop'.msg = m
            BY <2>2, <3>1, HandlerMoves
        <3>3. Has(m) => Has(m)' BY <3>1, <3>2 DEF Has, TestsDiffer, OtherChat, RangeOf
        <3> QED BY <2>5, <2>6, <3>1, <3>2, <3>3
    <2>11. CASE FlushCopy
        <3>1. loop.at = "copy" /\ loop'.at = "add" /\ loop'.msg = m BY <2>11 DEF FlushCopy
        <3>2. Has(m) => m \in Printed(loop'.copy) BY <2>2, <2>11, CopyHas
        <3>3. Printed(loop.copy)' = Printed(loop'.copy) BY DEF Printed, RangeOf
        <3>4. Has(m) => Has(m)' BY <3>1, <3>2, <3>3 DEF Has, TestsDiffer, OtherChat
        <3> QED BY <2>5, <2>6, <3>1, <3>4
    <2>12. CASE MarkUnread \/ FlushAdd
        <3>1. loop' = NoHandler BY <2>12 DEF MarkUnread, FlushAdd
        <3> QED BY <3>1 DEF HandlerHas, NoHandler
    <2> QED BY <1>4, <2>7, <2>8, <2>9, <2>10, <2>11, <2>12 DEF HandlerStep
<1> QED BY <1>2, <1>3, <1>4, LoopKept

\* What a handler has taken up goes with it to the mark or to the printer's queue.
LEMMA HandlerAccounts ==
    ASSUME Typed, MainAt, HandlerHas, ViewNext, NEW m \in Incoming, ByHandler(m), HandlerStep
    PROVE  ByHandler(m)' \/ Elsewhere(m)'
<1>1. loop.at # "idle" BY DEF ByHandler
<1>2. loop.at # "add" => loop \in Handling /\ loop.msg = m BY <1>1, HandlerTypes DEF ByHandler
<1>3. CASE PushMessage \/ StoreMessage
    BY <1>3 DEF PushMessage, StoreMessage, ByHandler
<1>4. CASE TestState
    <2>1. /\ loop' = [loop EXCEPT !.at = IF state = Chat(KindOf(From[m])) THEN "peer" ELSE "mark"]
          /\ loop.at = "test"
        BY <1>2, <1>4 DEF TestState
    <2>2. loop'.at \in {"peer", "mark"} /\ loop'.msg = m BY <1>2, <2>1, HandlerMoves
    <2> QED BY <2>2 DEF ByHandler
<1>5. CASE TestPeer
    <2>1. /\ loop' = [loop EXCEPT !.at = IF current[KindOf(From[m])] = From[m]
                                         THEN "copy" ELSE "mark"]
          /\ loop.at = "peer"
        BY <1>2, <1>5 DEF TestPeer
    <2>2. loop'.at \in {"copy", "mark"} /\ loop'.msg = m BY <1>2, <2>1, HandlerMoves
    <2> QED BY <2>2 DEF ByHandler
<1>6. CASE MarkUnread
    <2>1. From[m] \in unread' BY <1>2, <1>6 DEF MarkUnread
    <2> QED BY <2>1 DEF Elsewhere
<1>7. CASE FlushCopy
    <2>1. loop.at = "copy" /\ loop.msg = m BY <1>2, <1>7 DEF FlushCopy
    <2>2. StoredIn(m) /\ (Elsewhere(m) \/ Has(m)) BY <2>1 DEF HandlerHas, StoredIn
    <2>3. Elsewhere(m) => Elsewhere(m)' BY <2>2, ElsewhereKept
    <2>4. Has(m) => ByHandler(m)'
        <3>1. Printed(loop.copy)' = Printed(loop'.copy) BY DEF Printed, RangeOf
        <3> QED BY <1>7, <2>1, <3>1, CopyHas DEF ByHandler
    <2> QED BY <2>2, <2>3, <2>4
<1>8. CASE FlushAdd
    <2>1. task' = <<loop.copy>> /\ m \in Printed(loop.copy) BY <1>8 DEF FlushAdd, ByHandler
    <2>2. Printed(task[1])' = Printed(task'[1]) BY DEF Printed, RangeOf
    <2>3. ByPool(m)' BY <2>1, <2>2 DEF ByPool
    <2> QED BY <2>3 DEF Elsewhere
<1> QED BY <1>3, <1>4, <1>5, <1>6, <1>7, <1>8 DEF HandlerStep

LEMMA AccountedKept == Sound /\ HandlerHas /\ Accounted /\ ViewNext => Accounted'
<1> SUFFICES ASSUME Typed, MainAt, HandlerHas, Accounted, ViewNext, NEW m \in Incoming, StoredIn(m)'
             PROVE  ByHandler(m)' \/ Elsewhere(m)'
    BY DEF Sound, Accounted, StoredIn
<1>1. CASE StoreMessage /\ m = loop.msg
    <2>1. loop' = [loop EXCEPT !.at = "test"] /\ loop.at = "store" BY <1>1 DEF StoreMessage
    <2>2. loop'.at = "test" /\ loop'.msg = m BY <1>1, <2>1, HandlerTypes, HandlerMoves
    <2> QED BY <2>2 DEF ByHandler
<1>2. CASE StoredIn(m)
    <2>1. ByHandler(m) \/ Elsewhere(m) BY <1>2 DEF Accounted, StoredIn
    <2>2. Elsewhere(m) => Elsewhere(m)' BY <1>2, ElsewhereKept
    <2>3. ASSUME ByHandler(m) PROVE ByHandler(m)' \/ Elsewhere(m)'
        <3>1. CASE HandlerStep BY <2>3, <3>1, HandlerAccounts
        <3>2. CASE \E o \in Incoming : HandleMessage(o)
            BY <2>3, <3>2 DEF HandleMessage, ByHandler
        <3>3. CASE loop' = loop
            <4>1. Printed(loop.copy)' = Printed(loop.copy) BY <3>3 DEF Printed, RangeOf
            <4> QED BY <2>3, <3>3, <4>1 DEF ByHandler
        <3> QED BY <3>1, <3>2, <3>3, LoopKept
    <2> QED BY <2>1, <2>2, <2>3
<1> QED BY <1>1, <1>2, FilesGrow

\* When all threads are at rest, every message that has been stored was printed in its
\* sender's chat or its sender is marked unread, except for those that the races and the
\* pages listed with SeenOrUnread have kept from the user (ChatService.cc: handleMessage,
\* handleGroupMessage; Controller.cc: chatWithFriend, chatWithGroup).
THEOREM MarkedOrShown == ViewSpec => []SeenOrUnread
<1> DEFINE IInv == Sound /\ HandlerHas /\ Accounted
<1>1. ViewInit => IInv
    <2> SUFFICES ASSUME ViewInit PROVE IInv OBVIOUS
    <2>1. HandlerHas BY DEF ViewInit, HandlerHas, NoHandler
    <2>2. Accounted
        <3>1. \A m \in Incoming : From[m] \in Peer BY Peers
        <3>2. RangeOf(<<>>) = {} BY DEF RangeOf
        <3>3. \A p \in Peer : file[p] = <<>> BY DEF ViewInit
        <3> QED BY <3>1, <3>2, <3>3 DEF Accounted
    <2> QED BY <2>1, <2>2, ShownAtFirst
<1>2. IInv /\ ViewNext => IInv'
    BY SoundKept, HandlerKept, AccountedKept
<1>3. IInv /\ UNCHANGED viewVars => IInv'
    <2> SUFFICES ASSUME Typed, MainAt, HandlerHas, Accounted, UNCHANGED viewVars PROVE IInv'
        BY DEF Sound
    <2>1. /\ UNCHANGED mainVars /\ seen' = seen /\ excused' = excused
          /\ UNCHANGED <<loop, live, due, log, file, unread, outgoing, task, screen>>
        BY DEF viewVars, shared, netVars, storeVars, printVars
    <2>2. UNCHANGED <<state, current, inside, todo, offset, local>> BY <2>1 DEF mainVars
    <2>3. MainAt' BY <2>1, Unmoved
    <2>4. Typed' BY <2>1, <2>2 DEF Typed
    <2>5. \A m : /\ (Known(m)' <=> Known(m)) /\ (ByHandler(m)' <=> ByHandler(m))
                 /\ (ByMain(m)' <=> ByMain(m)) /\ (ByPool(m)' <=> ByPool(m))
                 /\ (Has(m)' <=> Has(m)) /\ (StoredIn(m)' <=> StoredIn(m))
        <3>1. Awaiting(inside)' = Awaiting(inside) BY <2>2, AwaitingSame
        <3>2. \A m : Has(m)' <=> Has(m)
            BY <2>1, <2>2 DEF Has, TestsDiffer, OtherChat, At, Arg, RangeOf, Printed, KindOf, Chat
        <3>3. \A m : ByMain(m)' <=> ByMain(m)
            BY <2>1, <2>2, <3>1 DEF ByMain, At, RangeOf, Printed
        <3>4. \A m : /\ (Known(m)' <=> Known(m)) /\ (ByHandler(m)' <=> ByHandler(m))
                     /\ (ByPool(m)' <=> ByPool(m)) /\ (StoredIn(m)' <=> StoredIn(m))
            BY <2>1 DEF Known, ByHandler, ByPool, StoredIn, RangeOf, Printed
        <3> QED BY <3>2, <3>3, <3>4
    <2>6. \A m : Elsewhere(m)' <=> Elsewhere(m) BY <2>1, <2>5 DEF Elsewhere
    <2>7. HandlerHas'
        <3>1. HandlerHas <=>
                  (loop.at # "idle" =>
                      /\ loop.at \in {"push", "store"} => Known(loop.msg) \/ Has(loop.msg)
                      /\ loop.at \notin {"push", "store"} =>
                            StoredIn(loop.msg) /\ (Elsewhere(loop.msg) \/ Has(loop.msg)))
            BY DEF HandlerHas, StoredIn
        <3> QED BY <2>1, <2>5, <2>6, <3>1 DEF HandlerHas, StoredIn
    <2>8. Accounted'
        <3>1. \A m \in Incoming : StoredIn(m) => ByHandler(m) \/ Elsewhere(m)
            BY DEF Accounted, StoredIn
        <3> QED BY <2>5, <2>6, <3>1 DEF Accounted, StoredIn
    <2> QED BY <2>3, <2>4, <2>7, <2>8 DEF Sound
<1>4. IInv => SeenOrUnread
    <2> SUFFICES ASSUME Typed, Accounted, todo = <<>>, loop.at = "idle", task = <<>>,
                        NEW m \in Incoming, m \in RangeOf(file[From[m]])
                 PROVE  m \in seen \/ From[m] \in unread \/ m \in excused
        BY DEF SeenOrUnread, Sound
    <2>1. ~ByHandler(m) /\ ~ByPool(m) BY DEF ByHandler, ByPool
    <2>2. ~ByMain(m) BY MainCarries
    <2> QED BY <2>1, <2>2 DEF Accounted, Elsewhere, Known
<1>5. IInv /\ [ViewNext]_viewVars => IInv' BY <1>2, <1>3
<1> QED BY <1>1, <1>4, <1>5, PTL DEF ViewSpec
===============================================================================
