------------------------------- MODULE Client --------------------------------
(***************************************************************************)
(* The terminal client: the screens of Controller.cc on the main thread,   *)
(* the handlers of the services that answer them on the thread of Neter's  *)
(* loop, and the threads of the file transfers.  What a chat shows is      *)
(* module ChatView.                                                        *)
(*                                                                         *)
(* A screen is a program: todo is what the main thread has still to do     *)
(* before it is back at the switch of mainLoop.  A choice of the user, or  *)
(* what depends on an answer, replaces its head by the program chosen.     *)
(***************************************************************************)
EXTENDS Integers, Sequences, FiniteSets, Selection

CONSTANTS
    Applicant,          \* who may ask for friendship, or for a place in a group
    Asking,             \* the applicants of each list, by the kind of peer
    Transfer,           \* the uploads that may be under way at once
    PeerKind,           \* whether an upload goes to a friend or to a group
    MaxPending,         \* bound on the unanswered requests of a waiter
    MaxUnasked,         \* bound on the lists at a time that have come unasked
    MaxRequests         \* bound on the applicants' requests in both lists

Kind == {"friend", "group"}

ASSUME ClientAssumption ==
    /\ Asking \in [Kind -> SUBSET Applicant]
    /\ PeerKind \in [Transfer -> Kind]
    /\ MaxPending \in Nat \ {0} /\ MaxUnasked \in Nat /\ MaxRequests \in Nat

VARIABLES
    state,      \* state_
    todo,       \* the rest of the main thread's screen
    ready,      \* Waiter::ready
    online,     \* the server has the user in its table
    pending,    \* how many requests of a waiter have still to be answered
    filling,    \* the list that a handler has cleared and not yet filled
    unasked,    \* history: lists that came unasked since the waiter was last in step
    holder,     \* who holds friendListMutex_ and groupListMutex_
    transfer,   \* how far each upload is
    requests,   \* friendRequests_ and groupAddRequests_
    picked,     \* the list that the user is shown, and the number picked from it
    removed     \* history: a request went while the user was deciding

answerVars == <<online, pending, filling, unasked>>
vars == <<state, todo, ready, answerVars, holder, transfer, requests, picked, removed>>
-----------------------------------------------------------------------------
\* The states of mainLoop's switch, by the kind of peer.
Chat(k)  == IF k = "friend" THEN "CHAT_FRIEND" ELSE "CHAT_GROUP"
Files(k) == IF k = "friend" THEN "FILE_FRIEND" ELSE "FILE_GROUP"
Panel(k) == IF k = "friend" THEN "FRIEND_PANEL" ELSE "GROUP_PANEL"
Requests(k) == IF k = "friend" THEN "HANDLE_FRIEND_REQUEST" ELSE "HANDLE_GROUP_REQUEST"

State == {"LOG_OR_REG", "REGISTERING", "LOGINING", "MAIN_MENU", "CHAT_PANEL", "CHAT_FRIEND",
          "CHAT_GROUP", "ADD_FRIEND", "HANDLE_FRIEND_REQUEST", "CREATE_GROUP", "ADD_GROUP",
          "HANDLE_GROUP_REQUEST", "SHOW_MEMBERS", "DESTORY_GROUP", "FIND_PASSWORD",
          "FILE_FRIEND", "FILE_GROUP", "FRIEND_PANEL", "GROUP_PANEL", "DESTROY_ACCOUNT",
          "LOG_HISTORY"}

ListWaiter == {"friends", "groups", "members", "files"}
PushedList == {"friends", "groups"}     \* the lists that the server also sends unasked
Waiter == ListWaiter \cup {"reg", "login", "find", "addFriend", "addGroup", "block", "unblock"}

NoWaiter == "nothing"
NoPick   == [kind |-> "friend", list |-> <<>>, index |-> 0]
-----------------------------------------------------------------------------
(* Steps of the main thread, and programs made of them. *)

Op(name, arg) == [op |-> name, arg |-> arg, number |-> 0]
Pick(k, i)    == [op |-> "pick", arg |-> k, number |-> i]
Goto(s)       == <<Op("goto", s)>>
Prompt(c)     == <<Op("prompt", c)>>    \* the user chooses
Branch(c)     == <<Op("branch", c)>>    \* an answer or a variable decides

\* Seeded bug: the waiter is not reset.
RequestKeepReady(w) == <<Op("send", w), Op("wait", w)>>

\* neter_->sendJson, Waiter::wait and Waiter::getResult, which resets the waiter.
Request(w) == <<Op("send", w), Op("wait", w), Op("reset", w)>>

\* FileService::getFiles waits like the others and does not call getResult.
GetFiles == <<Op("send", "files"), Op("wait", "files")>>

\* showChatPanel up to the choice: both lists, then both mutexes, which are
\* released when the function returns.
ShowChatPanel ==
    Request("friends") \o Request("groups")
      \o <<Op("lock", "friend"), Op("lock", "group")>> \o Prompt("CHAT_PANEL")
      \o <<Op("unlock", "group"), Op("unlock", "friend")>>

\* showHandleFriendRequest and showHandleGroupRequest: one round of their loop.
HandleRequests(k) == <<Op("show", k)>> \o Prompt(Requests(k))

\* mainLoop's switch: the screen of a state.  LOG_HISTORY has none.
Screen(s) ==
    CASE s = "CHAT_PANEL" -> ShowChatPanel
      [] s = "SHOW_MEMBERS" -> Request("members") \o Prompt(s)
      [] s \in {"FILE_FRIEND", "FILE_GROUP"} -> GetFiles \o Prompt(s)
      [] s = "HANDLE_FRIEND_REQUEST" -> HandleRequests("friend")
      [] s = "HANDLE_GROUP_REQUEST" -> HandleRequests("group")
      [] s = "LOG_HISTORY" -> <<>>
      [] OTHER -> Prompt(s)
-----------------------------------------------------------------------------
(* What the user may choose on a screen, as the programs that the choices  *)
(* begin; an empty program leaves the state, and the screen is shown again.*)

ShowLogOrReg == {Goto("LOGINING"), Goto("REGISTERING"), Goto("FIND_PASSWORD"), <<>>}

\* regiSter sends the request for a code without waiting.
ShowRegister == {Goto("LOG_OR_REG"), <<>>, Prompt("regCode")}
RegisterCode == {Goto("LOG_OR_REG"), Prompt("regCode"), Request("reg") \o Branch("regErrno")}
RegisterErrno == {Goto("LOGINING"), Prompt("regCode"), Goto("REGISTERING")}

ShowFindPassword == {Goto("LOG_OR_REG"), <<>>, Prompt("findCode")}
FindPasswordCode == {Goto("LOG_OR_REG"), Prompt("findCode"), Request("find") \o Branch("findErrno")}
FindErrno == {Goto("LOGINING"), Prompt("findCode"), Goto("LOG_OR_REG")}

ShowLogin == {Goto("LOG_OR_REG"), Prompt("password")}
LoginPassword == {Goto("LOG_OR_REG"), Request("login") \o Branch("loginErrno")}
LoginErrno == {Goto("CHAT_PANEL"), <<>>, Prompt("password")}

ShowMainMenu == {Goto("CHAT_PANEL"), Goto("ADD_FRIEND"), Goto("CREATE_GROUP"),
                 Goto("ADD_GROUP"), Goto("DESTROY_ACCOUNT"), <<>>}

ShowAddFriend == {Goto("MAIN_MENU"), Request("addFriend") \o Goto("MAIN_MENU")}
ShowAddGroup  == {Goto("MAIN_MENU"), Request("addGroup") \o Goto("MAIN_MENU")}
ShowCreateGroup == {Goto("MAIN_MENU")}
ShowDestroyAccount == {Goto("LOGINING"), Goto("MAIN_MENU"), <<>>}

\* A friend or a group is among the choices; a group's members are asked for, and
\* their answer awaited, with both mutexes held.
ChatPanelChoice ==
    {Goto("MAIN_MENU"), Goto("HANDLE_FRIEND_REQUEST"), Goto("HANDLE_GROUP_REQUEST"), <<>>,
     Goto("CHAT_FRIEND"), Request("members") \o Goto("CHAT_GROUP")}

\* Back, no number, a number that is not in the list now, or one that is; then an
\* answer to the request that has this number by then.
PickRequest(k) ==
    {Goto("CHAT_PANEL"), <<>>, HandleRequests(k)}
      \cup {<<Pick(k, i)>> \o Prompt("answer") : i \in DOMAIN picked.list \cap DOMAIN requests[k]}

RequestAnswer(k) ==
    {Goto(Requests(k)), <<Op("respond", k)>> \o HandleRequests(k), HandleRequests(k)}

ShowGroupMembers == {Goto("GROUP_PANEL"), <<>>, Goto("SHOW_MEMBERS")}
ShowDestroyGroup == {Goto("CHAT_PANEL"), Goto("CHAT_GROUP"), <<>>}

FriendPanel == {Goto("CHAT_FRIEND"), Goto("CHAT_PANEL"), Request("block") \o Goto("CHAT_FRIEND"),
                Request("unblock") \o Goto("CHAT_FRIEND"), <<>>}
GroupPanel == {Goto("CHAT_GROUP"), Goto("SHOW_MEMBERS"), Goto("DESTORY_GROUP"), <<>>}

\* Back, an upload, a download or an input that is neither.
FilePanel(k) == {Goto(Chat(k)), <<>>, <<Op("upload", k)>>}

\* A line typed in a chat: /e, /c, /v, /d or /s in the history, /v or /d, /f, /m, /s,
\* or a message, after which the chat is at its end.
ChatLine(k) ==
    {Goto("CHAT_PANEL"), Goto("LOG_HISTORY") \o Prompt(Chat(k)), Prompt(Chat(k)),
     Goto(Chat(k)) \o Prompt(Chat(k)), Goto(Files(k)), Goto(Panel(k)), <<>>,
     <<Op("check", k)>> \o Prompt(Chat(k)), <<Op("check", k)>> \o Goto(Chat(k)) \o Prompt(Chat(k))}

Choices(c) ==
    CASE c = "LOG_OR_REG" -> ShowLogOrReg
      [] c = "REGISTERING" -> ShowRegister
      [] c = "regCode" -> RegisterCode
      [] c = "regErrno" -> RegisterErrno
      [] c = "FIND_PASSWORD" -> ShowFindPassword
      [] c = "findCode" -> FindPasswordCode
      [] c = "findErrno" -> FindErrno
      [] c = "LOGINING" -> ShowLogin
      [] c = "password" -> LoginPassword
      [] c = "loginErrno" -> LoginErrno
      [] c = "MAIN_MENU" -> ShowMainMenu
      [] c = "ADD_FRIEND" -> ShowAddFriend
      [] c = "ADD_GROUP" -> ShowAddGroup
      [] c = "CREATE_GROUP" -> ShowCreateGroup
      [] c = "DESTROY_ACCOUNT" -> ShowDestroyAccount
      [] c = "CHAT_PANEL" -> ChatPanelChoice
      [] c = "HANDLE_FRIEND_REQUEST" -> PickRequest("friend")
      [] c = "HANDLE_GROUP_REQUEST" -> PickRequest("group")
      [] c = "answer" -> RequestAnswer(picked.kind)
      [] c = "SHOW_MEMBERS" -> ShowGroupMembers
      [] c = "DESTORY_GROUP" -> ShowDestroyGroup
      [] c = "FRIEND_PANEL" -> FriendPanel
      [] c = "GROUP_PANEL" -> GroupPanel
      [] c = "FILE_FRIEND" -> FilePanel("friend")
      [] c = "FILE_GROUP" -> FilePanel("group")
      [] c = "CHAT_FRIEND" -> ChatLine("friend")
      [] c = "CHAT_GROUP" -> ChatLine("group")

-----------------------------------------------------------------------------
(* The steps of the main thread.  Each does what its operation's name says *)
(* and goes on with the rest of the screen.                                *)

At(op) == todo # <<>> /\ Head(todo).op = op
Arg    == Head(todo).arg

Init ==
    /\ state = "LOG_OR_REG"
    /\ todo = <<>>
    /\ ready = [w \in Waiter |-> FALSE]
    /\ online = FALSE
    /\ pending = [w \in Waiter |-> 0]
    /\ filling = NoWaiter
    /\ unasked = {}
    /\ holder = [k \in Kind |-> "nobody"]
    /\ transfer = [t \in Transfer |-> "none"]
    /\ requests = [k \in Kind |-> <<>>]
    /\ picked = NoPick
    /\ removed = FALSE

\* The switch of mainLoop; a state without a screen goes round again.  The locals of
\* the last screen are gone.
MainLoop ==
    /\ todo = <<>>
    /\ todo' = Screen(state)
    /\ picked' = NoPick /\ removed' = FALSE
    /\ UNCHANGED <<state, ready, answerVars, holder, transfer, requests>>

\* The user chooses, or the result of a request decides.
Choose(op) ==
    /\ At(op)
    /\ \E prog \in Choices(Arg) : todo' = prog \o Tail(todo)
    /\ UNCHANGED <<state, ready, answerVars, holder, transfer, requests, picked, removed>>

GotoState ==
    /\ At("goto")
    /\ state' = Arg
    /\ todo' = Tail(todo)
    /\ UNCHANGED <<ready, answerVars, holder, transfer, requests, picked, removed>>

\* A request, the wait for its answer and getResult.
Ask ==
    /\ \/ /\ At("send")
          /\ pending[Arg] < MaxPending
          /\ pending' = [pending EXCEPT ![Arg] = @ + 1]
          /\ UNCHANGED <<ready, unasked>>
       \/ At("wait") /\ ready[Arg] /\ UNCHANGED <<pending, ready, unasked>>
       \/ /\ At("reset")
          /\ ready' = [ready EXCEPT ![Arg] = FALSE]
          /\ unasked' = IF pending[Arg] = 0 /\ filling # Arg THEN unasked \ {Arg} ELSE unasked
          /\ UNCHANGED pending
    /\ todo' = Tail(todo)
    /\ UNCHANGED <<state, online, filling, holder, transfer, requests, picked, removed>>

\* friendListMutex_ or groupListMutex_: held by the panel while the user thinks, and
\* for a look at the list before a message is sent or a file uploaded.
LockList ==
    /\ At("lock")
    /\ holder[Arg] = "nobody"
    /\ holder' = [holder EXCEPT ![Arg] = "main"]
    /\ todo' = Tail(todo)
    /\ UNCHANGED <<state, ready, answerVars, transfer, requests, picked, removed>>

UnlockList ==
    /\ At("unlock")
    /\ holder' = [holder EXCEPT ![Arg] = "nobody"]
    /\ todo' = Tail(todo)
    /\ UNCHANGED <<state, ready, answerVars, transfer, requests, picked, removed>>

\* The peer is in the list, or not: then nothing is sent.
CheckList ==
    /\ At("check")
    /\ holder[Arg] = "nobody"
    /\ todo' = Tail(todo)
    /\ UNCHANGED <<state, ready, answerVars, holder, transfer, requests, picked, removed>>

\* uploadFile: the same check, and a thread for the transfer.
UploadFile ==
    /\ At("upload")
    /\ holder[Arg] = "nobody"
    /\ \/ UNCHANGED transfer
       \/ \E t \in Transfer :
            /\ PeerKind[t] = Arg /\ transfer[t] = "none"
            /\ transfer' = [transfer EXCEPT ![t] = "running"]
    /\ todo' = Tail(todo)
    /\ UNCHANGED <<state, ready, answerVars, holder, requests, picked, removed>>

\* flushRequests or flushGroupRequests shows the list; the user types a number of it.
ShowOrPickRequest ==
    /\ \/ At("show") /\ picked' = [kind |-> Arg, list |-> requests[Arg], index |-> 0] /\ removed' = FALSE
       \/ At("pick") /\ picked' = [picked EXCEPT !.index = Head(todo).number] /\ UNCHANGED removed
    /\ todo' = Tail(todo)
    /\ UNCHANGED <<state, ready, answerVars, holder, transfer, requests>>

\* All requests of the applicant go from the list.
Without(list, a) == Selected(list, {i \in DOMAIN list : list[i] # a})

\* responseFriendRequest and responseGroupRequest, with the request that has the
\* number now; past the end of the list it is anything.
Respond ==
    /\ At("respond")
    /\ \E a \in Applicant :
         /\ picked.index \in DOMAIN requests[Arg] => a = requests[Arg][picked.index]
         /\ requests' = [requests EXCEPT ![Arg] = Without(@, a)]
    /\ todo' = Tail(todo)
    /\ UNCHANGED <<state, ready, answerVars, holder, transfer, picked, removed>>
-----------------------------------------------------------------------------
(* The loop thread: answers and requests of others, one after the other.   *)

(* The server finds a user's connection in its table, in which a login puts *)
(* it and from which a reset of the password or the removal of the account  *)
(* takes it.                                                                *)

\* Loginer::handle, before the answer.
GoOnline ==
    /\ ~online /\ pending["login"] > 0
    /\ online' = TRUE
    /\ UNCHANGED <<state, todo, ready, pending, filling, unasked, holder, transfer,
                   requests, picked, removed>>

\* PasswordFindAcker::handle of another client, or AccountKiller::handle.  Lists that
\* are on their way are taken to have come before.
GoOffline ==
    /\ online
    /\ online' = FALSE
    /\ UNCHANGED <<state, todo, ready, pending, filling, unasked, holder, transfer,
                   requests, picked, removed>>

\* sendFriendList and sendGroupList return without an answer.
IgnoreRequest(w) ==
    /\ ~online
    /\ w \in PushedList /\ pending[w] > 0
    /\ pending' = [pending EXCEPT ![w] = @ - 1]
    /\ UNCHANGED <<state, todo, ready, online, filling, unasked, holder, transfer,
                   requests, picked, removed>>

\* Seeded bug: the list's handler takes the mutex that the panel keeps.
ClearListLocked(w) ==
    /\ filling = NoWaiter
    /\ w \in ListWaiter /\ pending[w] > 0
    /\ w \in PushedList => online
    /\ w = "members" => holder["group"] = "nobody"
    /\ filling' = w
    /\ pending' = [pending EXCEPT ![w] = @ - 1]
    /\ UNCHANGED <<state, todo, ready, online, unasked, holder, transfer, requests, picked,
                   removed>>

\* handleFriendsList and the like clear their list first, without a mutex.
ClearList(w) ==
    /\ filling = NoWaiter
    /\ w \in ListWaiter /\ pending[w] > 0
    /\ w \in PushedList => online
    /\ filling' = w
    /\ pending' = [pending EXCEPT ![w] = @ - 1]
    /\ UNCHANGED <<state, todo, ready, online, unasked, holder, transfer, requests, picked,
                   removed>>

\* The same handlers, of a list that the server sends because it has changed.
ClearPushedList(w) ==
    /\ filling = NoWaiter
    /\ w \in PushedList /\ online
    /\ Cardinality(unasked \cup {w}) <= MaxUnasked
    /\ filling' = w
    /\ unasked' = unasked \cup {w}
    /\ UNCHANGED <<state, todo, ready, online, pending, holder, transfer, requests, picked,
                   removed>>

\* The list is complete, and the waiter is notified.
FillList ==
    /\ filling # NoWaiter
    /\ ready' = [ready EXCEPT ![filling] = TRUE]
    /\ filling' = NoWaiter
    /\ UNCHANGED <<state, todo, online, pending, unasked, holder, transfer, requests, picked,
                   removed>>

\* Any other answer notifies its waiter.
NotifyWaiter(w) ==
    /\ filling = NoWaiter
    /\ w \in Waiter \ ListWaiter /\ pending[w] > 0
    /\ pending' = [pending EXCEPT ![w] = @ - 1]
    /\ ready' = [ready EXCEPT ![w] = TRUE]
    /\ UNCHANGED <<state, todo, online, filling, unasked, holder, transfer, requests, picked,
                   removed>>

\* Seeded bug: the newest request comes first.
HandleRequestFirst(k, a) ==
    /\ filling = NoWaiter
    /\ Len(requests["friend"]) + Len(requests["group"]) < MaxRequests
    /\ requests' = [requests EXCEPT ![k] = <<a>> \o @]
    /\ UNCHANGED <<state, todo, ready, answerVars, holder, transfer, picked, removed>>

\* handleFriendRequest and handleGroupRequest.
HandleRequest(k, a) ==
    /\ filling = NoWaiter
    /\ Len(requests["friend"]) + Len(requests["group"]) < MaxRequests
    /\ requests' = [requests EXCEPT ![k] = Append(@, a)]
    /\ UNCHANGED <<state, todo, ready, answerVars, holder, transfer, picked, removed>>

\* handleGroupRequestRemove: another administrator has answered.
HandleGroupRequestRemove(a) ==
    /\ filling = NoWaiter
    /\ requests' = [requests EXCEPT !["group"] = Without(@, a)]
    /\ requests' # requests
    /\ removed' = (picked.kind = "group")
    /\ UNCHANGED <<state, todo, ready, answerVars, holder, transfer, picked>>
-----------------------------------------------------------------------------
(* The threads of the transfers. *)

\* The transfer's connection is down: the file is announced with sendMessage or
\* sendGroupMessage, which looks at the list under its mutex.
AnnounceLook(t) ==
    /\ transfer[t] = "running"
    /\ holder[PeerKind[t]] = "nobody"
    /\ holder' = [holder EXCEPT ![PeerKind[t]] = "transfer"]
    /\ transfer' = [transfer EXCEPT ![t] = "looking"]
    /\ UNCHANGED <<state, todo, ready, answerVars, requests, picked, removed>>

AnnounceEnd(t) ==
    /\ transfer[t] = "looking"
    /\ holder' = [holder EXCEPT ![PeerKind[t]] = "nobody"]
    /\ transfer' = [transfer EXCEPT ![t] = "none"]
    /\ UNCHANGED <<state, todo, ready, answerVars, requests, picked, removed>>
-----------------------------------------------------------------------------
MainStep ==
    \/ MainLoop \/ Choose("branch") \/ GotoState \/ Ask \/ LockList \/ UnlockList
    \/ CheckList \/ UploadFile \/ ShowOrPickRequest \/ Respond

AnswerStep == \E w \in Waiter : ClearList(w) \/ NotifyWaiter(w) \/ IgnoreRequest(w)

Next ==
    \/ Choose("prompt")
    \/ MainStep
    \/ AnswerStep \/ FillList \/ (\E w \in Waiter : ClearPushedList(w))
    \/ GoOnline \/ GoOffline
    \/ \E k \in Kind : \E a \in Asking[k] : HandleRequest(k, a)
    \/ \E a \in Applicant : HandleGroupRequestRemove(a)
    \/ \E t \in Transfer : AnnounceLook(t) \/ AnnounceEnd(t)

Spec == Init /\ [][Next]_vars

\* The main thread runs unless the user is asked, the server answers or ignores a
\* request, and the loop thread handles what comes in the order it was sent, so that no
\* stream of other lists keeps it from an answer; a transfer releases the mutex it
\* holds.  Users need not choose, nor transfers end, nor requests come.
FairSpec ==
    /\ Spec
    /\ WF_vars(MainStep)
    /\ WF_vars(FillList) /\ SF_vars(AnswerStep)
    /\ \A t \in Transfer : WF_vars(AnnounceEnd(t))
-----------------------------------------------------------------------------
\* The prompts that have choices, and the steps of the main thread.
Choice ==
    {"LOG_OR_REG", "REGISTERING", "regCode", "regErrno", "FIND_PASSWORD", "findCode",
     "findErrno", "LOGINING", "password", "loginErrno", "MAIN_MENU", "ADD_FRIEND",
     "ADD_GROUP", "CREATE_GROUP", "DESTROY_ACCOUNT", "CHAT_PANEL", "HANDLE_FRIEND_REQUEST",
     "HANDLE_GROUP_REQUEST", "answer", "SHOW_MEMBERS", "DESTORY_GROUP", "FRIEND_PANEL",
     "GROUP_PANEL", "FILE_FRIEND", "FILE_GROUP", "CHAT_FRIEND", "CHAT_GROUP"}

Instr ==
    [op : {"goto"}, arg : State, number : {0}]
      \cup [op : {"prompt"}, arg : Choice, number : {0}]
      \cup [op : {"branch"}, arg : {"regErrno", "findErrno", "loginErrno"}, number : {0}]
      \cup [op : {"send", "wait", "reset"}, arg : Waiter, number : {0}]
      \cup [op : {"lock", "unlock", "check", "upload", "show", "respond"}, arg : Kind, number : {0}]
      \cup [op : {"pick"}, arg : Kind, number : Nat]

TypeOK ==
    /\ state \in State
    /\ todo \in Seq(Instr)
    /\ ready \in [Waiter -> BOOLEAN]
    /\ online \in BOOLEAN
    /\ pending \in [Waiter -> 0..MaxPending]
    /\ filling \in ListWaiter \cup {NoWaiter}
    /\ unasked \subseteq PushedList
    /\ holder \in [Kind -> {"nobody", "main", "transfer"}]
    /\ transfer \in [Transfer -> {"none", "running", "looking"}]
    /\ requests \in [Kind -> Seq(Applicant)]
    /\ Len(requests["friend"]) + Len(requests["group"]) <= MaxRequests
    /\ picked \in [kind : Kind, list : Seq(Applicant), index : Nat]
    /\ removed \in BOOLEAN

\* An answer that the main thread takes is the answer to the request it has just
\* sent: no request of the waiter is open then, and no earlier answer has made it
\* ready (base.h:60-86 has one flag for all requests of a waiter).  A list that comes
\* unasked breaks this until a request finds its own answer taken in; and getFiles
\* does not reset its waiter (FileService.cc:157-166).
InStep(w) ==
    LET open   == pending[w] > 0
        coming == filling = w
        asking == (At("wait") \/ At("reset")) /\ Arg = w IN
    /\ ready[w] => ~open /\ ~coming
    /\ coming => ~open
    /\ open \/ coming \/ ready[w] => asking
    /\ asking => open \/ coming \/ ready[w] \/ (w \in PushedList /\ ~online)

AnswersAreOwn == \A w \in Waiter \ (unasked \cup {"files"}) : InStep(w)

\* While the main thread reads a list, no handler is rebuilding it, though the handlers
\* take no mutex: the request comes before the panel's lock (Controller.cc:110-128,
\* FriendService.cc:100-114).  The exception is a list that has come unasked: itself,
\* or the answer that it has let the next request not wait for.
List(k) == IF k = "friend" THEN "friends" ELSE "groups"
Reads(k) == holder[k] = "main" \/ ((At("check") \/ At("upload")) /\ Arg = k)
PanelReadsWhole ==
    \A k \in Kind : Reads(k) => filling # List(k) \/ List(k) \in unasked

ClientInv == TypeOK /\ AnswersAreOwn /\ PanelReadsWhole

\* The request that is answered is the one that the user saw under the number, unless
\* another administrator's answer has removed one since (Controller.cc:735-766, 800-820:
\* the number is kept over two prompts, and the list is not).
PickedIsAnswered ==
    At("respond") =>
        \/ removed
        \/ /\ picked.index \in DOMAIN requests[Arg]
           /\ requests[Arg][picked.index] = picked.list[picked.index]

\* The user is asked again and again, although the panel keeps both mutexes while it
\* waits for the answer of another thread (Controller.cc:127-128, 208-219); but for the
\* history, which /s leaves for a state that mainLoop has no screen for
\* (Controller.cc:472-474, 519-523, 79-80), and for a list that the server does not
\* send, as the user is not in its table (Friend.cc:21-23, Group.cc:153-155).
Stuck == state = "LOG_HISTORY" /\ todo = <<>>
NeverSent ==
    /\ At("wait") /\ Arg \in PushedList /\ ~online
    /\ pending[Arg] = 0 /\ filling # Arg /\ ~ready[Arg]
PromptReached == []<>(At("prompt") \/ Stuck \/ NeverSent)
=============================================================================
