----------------------------- MODULE Registration ------------------------------
(***************************************************************************)
(* Accounts by mail: Register and PasswordFinder, which send a code, and   *)
(* RegisterAcker and PasswordFindAcker, which take it back                 *)
(* (src/server/handler/Register.cc), as tasks of Service's ThreadPool that *)
(* borrow connections of the MySQLConnPool in competition with the tasks   *)
(* of all the other handlers.  The threads of the chat pool, the base loop *)
(* and the file server's loops borrow one at a time and wait for nothing   *)
(* with it; they are left out.                                             *)
(*                                                                         *)
(* A step is one command to Redis, one statement to MySQL, one wait for a  *)
(* connection or one call of curl for the text of a mail.  What            *)
(* PasswordFindAcker does to the table of online users is in ChatSession.  *)
(* The text of a mail is its length; a text that does not start at its     *)
(* head does not contain the code.                                         *)
(***************************************************************************)
EXTENDS Integers, Sequences, FiniteSets

CONSTANTS
    CodeTask, RegisterTask, FindTask, OtherTask,    \* the messages, by handler
    Email, EmailOf,
    Code, NoCode,
    TextLength,     \* of the mail to each address
    Workers,        \* the number of threads of threadPool_
    Depth,          \* how many connections a handler holds at most
    PoolSize,       \* how many connections the MySQLConnPool has
    NoTask

AckTask == RegisterTask \cup FindTask
Task    == CodeTask \cup AckTask \cup OtherTask

ASSUME TaskAssumption ==
    /\ EmailOf \in [Task -> Email] /\ NoTask \notin Task
    /\ RegisterTask \cap FindTask = {}
    /\ CodeTask \cap AckTask = {} /\ (CodeTask \cup AckTask) \cap OtherTask = {}
    /\ NoCode \notin Code
    /\ TextLength \in [Email -> Nat \ {0}]
ASSUME PoolAssumption ==
    /\ Workers \in Nat /\ Depth \in Nat \ {0, 1}
    /\ PoolSize \in Nat /\ PoolSize > Workers * (Depth - 1)

VARIABLES
    at,         \* where each task stands
    held,       \* how many connections each task holds
    code, ttl,  \* Redis's verify_email: the code of each address, and whether it expires
    input,      \* the code in the message of a RegisterAcker or PasswordFindAcker
    verdict,    \* its errno_verify
    pos,        \* the static variable of payload_source
    whole,      \* how often curl got the text of each mail from its head
    users,      \* MySQL's users: the rows of each address, named by who wrote them
    links,      \* how many of the four links with the system's user each row has
    password,   \* the task whose password a row has
    unheeded,   \* history: the resets whose UPDATE MySQL has refused
    crashed,    \* the process has died of undefined behaviour
    issuer,     \* history: the task whose code an address has
    used,       \* history: the task whose code a task was let in by
    met,        \* history: the mails, or acknowledgements, that ran with it at one time
    spilt       \* history: a mail broke off after curl had got its text

codeVars == <<code, ttl, issuer>>
mailVars == <<pos, whole, spilt>>
userVars == <<users, links, password, unheeded>>
vars == <<at, held, codeVars, input, verdict, mailVars, userVars, crashed, used, met>>
-----------------------------------------------------------------------------
Init ==
    /\ at = [t \in Task |-> "new"]
    /\ held = [t \in Task |-> 0]
    /\ code = [e \in Email |-> NoCode] /\ ttl = [e \in Email |-> FALSE]
    /\ input = [t \in AckTask |-> NoCode]
    /\ verdict = [t \in AckTask |-> "none"]
    /\ pos = 0
    /\ whole = [t \in CodeTask |-> 0]
    /\ users = [e \in Email |-> <<>>]
    /\ links = [t \in RegisterTask |-> 0]
    /\ password = [t \in RegisterTask |-> NoTask]
    /\ unheeded = {}
    /\ crashed = FALSE
    /\ issuer = [e \in Email |-> NoTask]
    /\ used = [t \in AckTask |-> NoTask]
    /\ met = [t \in Task |-> {}]
    /\ spilt = FALSE

Go(t, stage) == at' = [at EXCEPT ![t] = stage]
Running      == {t \in Task : at[t] \notin {"new", "done"}}
-----------------------------------------------------------------------------
(* ThreadPool. *)

FirstStep(t) ==
    IF t \in CodeTask THEN "store" ELSE IF t \in AckTask THEN "verify" ELSE "nest"

\* History: t starts among the tasks that run.
Kin(t) == IF t \in CodeTask THEN CodeTask ELSE IF t \in AckTask THEN AckTask ELSE {}
Meet(t) ==
    met' = [u \in Task |->
              IF u = t THEN Running \cap Kin(t)
              ELSE IF u \in Running \cap Kin(t) THEN met[u] \cup {t} ELSE met[u]]

\* add_task, and the worker that takes the task; messages come in any order, and an
\* acknowledgement brings any code.
Take(t) ==
    /\ ~crashed
    /\ at[t] = "new" /\ Cardinality(Running) < Workers
    /\ Meet(t)
    /\ IF t \in AckTask
       THEN \E c \in Code : input' = [input EXCEPT ![t] = c]
       ELSE UNCHANGED input
    /\ Go(t, FirstStep(t))
    /\ UNCHANGED <<held, codeVars, verdict, mailVars, userVars, crashed, used>>

\* Seeded bug: of two connections in nested handlers one is kept.
EndKeeps(t) ==
    /\ held' = [held EXCEPT ![t] = IF @ > 1 THEN @ - 1 ELSE 0]
    /\ Go(t, "done")

\* The task returns: the connections that it holds go back.
End(t) ==
    /\ held' = [held EXCEPT ![t] = 0]
    /\ Go(t, "done")
-----------------------------------------------------------------------------
(* MySQLConnPool. *)

\* The connections that are lent: each task's first, second and so on.
Lent == {p \in Task \X (1 .. Depth) : p[2] <= held[p[1]]}
Free == PoolSize - Cardinality(Lent)

\* getConnection: waits until one is free.
Borrow(t) ==
    /\ Free > 0
    /\ held' = [held EXCEPT ![t] = @ + 1]

\* Any other handler: AccountKiller holds one, the GroupExiter that it calls another, and
\* the GroupLister that this one calls a third.
Nest(t) ==
    /\ ~crashed
    /\ at[t] = "nest"
    /\ IF held[t] < Depth
       THEN Borrow(t) /\ UNCHANGED at
       ELSE End(t)
    /\ UNCHANGED <<codeVars, input, verdict, mailVars, userVars, crashed, used, met>>
-----------------------------------------------------------------------------
(* Register and PasswordFinder. *)

\* storeCode, hset: a key that is there keeps its time.
StoreCode(t) ==
    /\ ~crashed
    /\ at[t] = "store"
    /\ \E c \in Code : code' = [code EXCEPT ![EmailOf[t]] = c]
    /\ issuer' = [issuer EXCEPT ![EmailOf[t]] = t]
    /\ Go(t, "expire")
    /\ UNCHANGED <<held, ttl, input, verdict, mailVars, userVars, crashed, used, met>>

\* storeCode, expire: nothing to do for a key that is gone.
Expire(t) ==
    /\ ~crashed
    /\ at[t] = "expire"
    /\ ttl' = [ttl EXCEPT ![EmailOf[t]] = code[EmailOf[t]] # NoCode]
    /\ Go(t, "mail")
    /\ UNCHANGED <<held, code, issuer, input, verdict, mailVars, userVars,
                   crashed, used, met>>

\* payload_source, which curl calls until it returns 0: pos belongs to all threads.
PayloadSource(t) ==
    /\ ~crashed
    /\ at[t] = "mail"
    /\ LET length == TextLength[EmailOf[t]] IN
       IF pos >= length
       THEN pos' = 0 /\ End(t) /\ UNCHANGED whole
       ELSE /\ pos' = length
            /\ whole' = IF pos = 0 THEN [whole EXCEPT ![t] = @ + 1] ELSE whole
            /\ UNCHANGED <<held, at>>
    /\ UNCHANGED <<codeVars, input, verdict, spilt, userVars, crashed, used, met>>

\* curl_easy_perform fails, before the first call or after any.
SendFails(t) ==
    /\ ~crashed
    /\ at[t] = "mail"
    /\ spilt' = (spilt \/ pos # 0)
    /\ End(t)
    /\ UNCHANGED <<codeVars, input, verdict, pos, whole, userVars, crashed, used, met>>

\* Redis: the 120 seconds are over.
Expired(e) ==
    /\ ~crashed
    /\ ttl[e]
    /\ code' = [code EXCEPT ![e] = NoCode] /\ ttl' = [ttl EXCEPT ![e] = FALSE]
    /\ issuer' = [issuer EXCEPT ![e] = NoTask]
    /\ UNCHANGED <<at, held, input, verdict, mailVars, userVars, crashed, used, met>>
-----------------------------------------------------------------------------
(* RegisterAcker and PasswordFindAcker. *)

Judge(t, v) == verdict' = [verdict EXCEPT ![t] = v]

\* verifyCode, hget.  Without a code an empty optional<string> is dereferenced: the
\* process dies, or there are bytes that are not the input.
Verify(t) ==
    /\ ~crashed
    /\ at[t] = "verify"
    /\ LET e == EmailOf[t] IN
       \/ /\ code[e] = NoCode
          /\ crashed' = TRUE
          /\ UNCHANGED <<at, verdict, used>>
       \/ /\ code[e] = input[t]
          /\ Go(t, "hdel") /\ used' = [used EXCEPT ![t] = issuer[e]]
          /\ UNCHANGED <<verdict, crashed>>
       \/ /\ code[e] # input[t]
          /\ Judge(t, "wrong") /\ Go(t, "borrow")
          /\ UNCHANGED <<used, crashed>>
    /\ UNCHANGED <<held, codeVars, input, mailVars, userVars, met>>

\* Seeded bug: the code is left to expire.
HdelNot(t) ==
    /\ ~crashed
    /\ at[t] = "hdel"
    /\ Judge(t, "ok") /\ Go(t, "borrow")
    /\ UNCHANGED <<held, codeVars, input, mailVars, userVars, crashed, used, met>>

\* verifyCode, hdel: the key, with its time, goes with its only field.
Hdel(t) ==
    /\ ~crashed
    /\ at[t] = "hdel"
    /\ LET e == EmailOf[t] IN
       /\ code' = [code EXCEPT ![e] = NoCode] /\ ttl' = [ttl EXCEPT ![e] = FALSE]
       /\ issuer' = [issuer EXCEPT ![e] = NoTask]
    /\ Judge(t, "ok") /\ Go(t, "borrow")
    /\ UNCHANGED <<held, input, mailVars, userVars, crashed, used, met>>

\* The connection of the handler, and the second one of inputAccount or of the update.
GetConnection(t) ==
    /\ ~crashed
    /\ at[t] \in {"borrow", "borrow2"}
    /\ Borrow(t)
    /\ Go(t, IF at[t] = "borrow" THEN "lookup" ELSE "write")
    /\ UNCHANGED <<codeVars, input, verdict, mailVars, userVars, crashed, used, met>>

\* getIdByEmail: RegisterAcker wants no row, PasswordFindAcker wants one; else 2.
Lookup(t) ==
    /\ ~crashed
    /\ at[t] = "lookup"
    /\ IF (users[EmailOf[t]] # <<>>) = (t \in RegisterTask)
       THEN Judge(t, "refused") /\ Go(t, "answer")
       ELSE Go(t, IF verdict[t] = "ok" THEN "borrow2" ELSE "answer") /\ UNCHANGED verdict
    /\ UNCHANGED <<held, codeVars, input, mailVars, userVars, crashed, used, met>>

\* inputAccount: no key of the table keeps a second row of one address out.  MySQL may
\* refuse a value that is too long.
InputAccount(t) ==
    /\ ~crashed
    /\ t \in RegisterTask /\ at[t] = "write"
    /\ held' = [held EXCEPT ![t] = @ - 1]
    /\ \/ /\ users' = [users EXCEPT ![EmailOf[t]] = Append(@, t)]
          /\ password' = [password EXCEPT ![t] = t]
          /\ Go(t, "befriend")
          /\ UNCHANGED verdict
       \/ Judge(t, "failed") /\ Go(t, "answer") /\ UNCHANGED <<users, password>>
    /\ UNCHANGED <<codeVars, input, mailVars, links, unheeded, crashed, used, met>>

\* How many of the four links a task at a stage has made.
Linking       == {"befriend", "2nd", "3rd", "4th"}
Linked(stage) == CASE stage = "befriend" -> 0 [] stage = "2nd" -> 1
                   [] stage = "3rd" -> 2 [] stage = "4th" -> 3 [] OTHER -> 4

\* The links, one by one, of the first row of the address; a link that is there stays.
Befriend(t) ==
    /\ ~crashed
    /\ at[t] \in Linking
    /\ LET n == Linked(at[t]) + 1
           u == users[EmailOf[t]][1] IN
       /\ links' = [links EXCEPT ![u] = IF @ < n THEN n ELSE @]
       /\ Go(t, <<"2nd", "3rd", "4th", "answer">>[n])
    /\ UNCHANGED <<held, codeVars, input, verdict, mailVars, users, password, unheeded,
                   crashed, used, met>>

\* PasswordFindAcker's update, of every row of the address.  MySQL may refuse it, a
\* password that is too long; the handler does not look, and answers 0.
Update(t) ==
    /\ ~crashed
    /\ t \in FindTask /\ at[t] = "write"
    /\ \/ /\ password' = [u \in RegisterTask |->
                            IF \E i \in DOMAIN users[EmailOf[t]] : users[EmailOf[t]][i] = u
                            THEN t ELSE password[u]]
          /\ UNCHANGED unheeded
       \/ unheeded' = unheeded \cup {t} /\ UNCHANGED password
    /\ held' = [held EXCEPT ![t] = @ - 1]
    /\ Go(t, "answer")
    /\ UNCHANGED <<codeVars, input, verdict, mailVars, users, links,
                   crashed, used, met>>

\* sendJson; the connections go back, and the handler's variables are gone.
Answer(t) ==
    /\ ~crashed
    /\ at[t] = "answer"
    /\ End(t)
    /\ input' = [input EXCEPT ![t] = NoCode] /\ Judge(t, "none")
    /\ UNCHANGED <<codeVars, mailVars, userVars, crashed, used, met>>
-----------------------------------------------------------------------------
MailStep(t) == StoreCode(t) \/ Expire(t) \/ PayloadSource(t) \/ SendFails(t)

AckStep(t) ==
    \/ Verify(t) \/ Hdel(t) \/ GetConnection(t) \/ Lookup(t)
    \/ InputAccount(t) \/ Befriend(t) \/ Update(t) \/ Answer(t)

TaskStep(t) ==
    \/ t \in CodeTask /\ MailStep(t)
    \/ t \in AckTask /\ AckStep(t)
    \/ t \in OtherTask /\ Nest(t)

Next ==
    \/ \E t \in Task : Take(t) \/ TaskStep(t)
    \/ \E e \in Email : Expired(e)

Spec == Init /\ [][Next]_vars
-----------------------------------------------------------------------------
\* The shape of the state.
TypeOK ==
    /\ at \in [Task -> {"new", "done", "nest", "store", "expire", "mail", "verify",
                        "hdel", "borrow", "lookup", "borrow2", "write", "befriend", "2nd",
                        "3rd", "4th", "answer"}]
    /\ held \in [Task -> 0 .. Depth]
    /\ code \in [Email -> Code \cup {NoCode}] /\ ttl \in [Email -> BOOLEAN]
    /\ input \in [AckTask -> Code \cup {NoCode}]
    /\ verdict \in [AckTask -> {"none", "ok", "wrong", "refused", "failed"}]
    /\ pos \in Nat /\ whole \in [CodeTask -> Nat]
    /\ users \in [Email -> Seq(RegisterTask)]
    /\ links \in [RegisterTask -> 0 .. 4]
    /\ password \in [RegisterTask -> AckTask \cup {NoTask}] /\ unheeded \subseteq FindTask
    /\ crashed \in BOOLEAN /\ spilt \in BOOLEAN
    /\ issuer \in [Email -> CodeTask \cup {NoTask}]
    /\ used \in [AckTask -> CodeTask \cup {NoTask}]
    /\ met \in [Task -> SUBSET Task]

\* storeCode sets a code and its time by two commands (Register.cc:72), between which the
\* key may expire, be deleted or be set again: no code stays for ever, unless the process
\* dies between the two.
CodesExpire ==
    \A e \in Email : code[e] # NoCode /\ ~ttl[e] =>
        \E t \in CodeTask : EmailOf[t] = e /\ at[t] = "expire"

\* The position in the text is shared by all the threads (Register.cc:96): two mails that
\* are sent at one time may come out empty and doubled, but a mail that met no other
\* and was not broken off contains its code once, whatever was sent before, as long as
\* none has broken off after curl had got its text.
MailAlone ==
    \A t \in CodeTask :
        at[t] = "mail" /\ met[t] \cap CodeTask = {} /\ ~spilt => (whole[t] = 1) = (pos # 0)

\* A code lets in one acknowledgement, of a registration or of a password; two only when
\* they ran at one time and both had read it before either deleted it (Register.cc:80).
OneUse ==
    \A t, u \in AckTask : t # u /\ used[t] = used[u] /\ used[t] # NoTask => u \in met[t]

\* The test for the address and the insertion are apart, in two connections, and no key
\* of the table backs them (Register.cc:31, Register.cc:40): an address has two accounts
\* only when two acknowledgements ran at one time, each with a code of its own or both
\* with one.
OneAccount ==
    \A e \in Email : \A i, j \in DOMAIN users[e] :
        i # j => users[e][j] \in met[users[e][i]]

\* Registration writes to six places in a row: whoever can log in has all four links
\* with the system's user, unless an acknowledgement is still at it or the process has
\* died of another's (Register.cc:82).
Befriended ==
    \A e \in Email : users[e] # <<>> =>
        \/ links[users[e][1]] = 4
        \/ \E t \in RegisterTask : EmailOf[t] = e /\ at[t] \in Linking

\* When a reset is answered with success, every account of the address has its password,
\* or that of a reset or a registration that ran at the same time; but if MySQL has
\* refused the UPDATE, the answer is the same (Register.cc:240) and no account has it.
PasswordSet ==
    \A t \in FindTask : at[t] = "answer" /\ verdict[t] = "ok" =>
        IF t \in unheeded
        THEN \A u \in RegisterTask : password[u] # t
        ELSE \A i \in DOMAIN users[EmailOf[t]] :
                password[users[EmailOf[t]][i]] \in {t} \cup met[t]

(* What makes them inductive. *)

\* Each handler has its stages, and holds its connections in some of them.
AckStages  == {"verify", "hdel", "borrow", "lookup", "borrow2", "write", "answer"}
Stages ==
    \A t \in Task :
        /\ at[t] \in {"new", "done"} \cup
              IF t \in CodeTask THEN {"store", "expire", "mail"}
              ELSE IF t \in OtherTask THEN {"nest"}
              ELSE IF t \in FindTask THEN AckStages ELSE AckStages \cup Linking
        /\ at[t] \in {"new", "verify", "hdel", "borrow"} => held[t] = 0
        /\ at[t] \in {"lookup", "borrow2"} => held[t] = 1
        /\ at[t] = "write" => held[t] = 2

\* Tasks of a kind that run at one time have met.
Meetings ==
    \A t, u \in Running : t # u /\ u \in Kin(t) => u \in met[t]

\* A code is of a task that has set it.
Issued ==
    \A e \in Email :
        /\ code[e] = NoCode <=> issuer[e] = NoTask
        /\ issuer[e] # NoTask => EmailOf[issuer[e]] = e /\ at[issuer[e]] \notin {"new", "store"}

\* A code that has let somebody in is there only until hdel.
Uses ==
    \A t \in AckTask : used[t] # NoTask =>
        /\ at[t] \notin {"new", "verify"}
        /\ EmailOf[used[t]] = EmailOf[t] /\ at[used[t]] \notin {"new", "store"}
        /\ issuer[EmailOf[t]] = used[t] => at[t] = "hdel"

\* The rows are of tasks that have got so far, and the first has the links of them all.
Rows ==
    /\ \A e \in Email : \A i \in DOMAIN users[e] :
          /\ EmailOf[users[e][i]] = e
          /\ at[users[e][i]] \in Linking \cup {"answer", "done"}
          /\ Linked(at[users[e][i]]) <= links[users[e][1]]
    /\ \A t \in RegisterTask : at[t] \in Linking => users[EmailOf[t]] # <<>>

\* Whoever has found no row of the address has met those who wrote one since.
Candidates ==
    \A t \in RegisterTask : at[t] \in {"borrow2", "write"} =>
        \A i \in DOMAIN users[EmailOf[t]] :
            users[EmailOf[t]][i] \in met[t] /\ t \in met[users[EmailOf[t]][i]]

\* Somebody is in the middle of a text; a mail that is alone, in the middle of its own.
Mails ==
    /\ ~spilt /\ pos # 0 => \E t \in CodeTask : at[t] = "mail"
    /\ \A t \in CodeTask :
          /\ at[t] \in {"new", "store", "expire"} => whole[t] = 0
          /\ at[t] = "mail" /\ met[t] \cap CodeTask = {} /\ ~spilt =>
                IF pos = 0 THEN whole[t] = 0 ELSE whole[t] = 1 /\ pos = TextLength[EmailOf[t]]

\* A password is of a task that has written it; one whose UPDATE was refused has not.
Written ==
    /\ \A u \in RegisterTask : password[u] # NoTask =>
          password[u] \notin unheeded /\ at[password[u]] \in Linking \cup {"answer", "done"}
    /\ \A t \in unheeded : at[t] \in {"answer", "done"}

Inductive == Stages /\ Meetings /\ Issued /\ Uses /\ Rows /\ Candidates /\ Written /\ Mails

\* What TLC checks in every state.
RegistrationInv ==
    /\ TypeOK /\ Inductive
    /\ CodesExpire /\ MailAlone /\ OneUse /\ OneAccount /\ Befriended /\ PasswordSet

\* A task that asks for a connection.
Waits(t) == at[t] \in {"borrow", "borrow2"} \/ (at[t] = "nest" /\ held[t] < Depth)

\* Handlers nest their connections (MySQLConn.cc:33): one holds a connection while it, or
\* another that it calls, waits for the next.  With more connections than the workers can
\* hold while all of them wait, they never all wait for each other, and none is lost.
NeverAllWaiting ==
    /\ Free >= 0
    /\ ~crashed /\ Running # {} =>
          \/ Free > 0
          \/ \E t \in Running : ~Waits(t)
=============================================================================
