---------------------------- MODULE HandlerProofs -----------------------------
(***************************************************************************)
(* The server's handlers, for any users, groups, requests and workers.     *)
(*                                                                         *)
(* Registration: for any messages, addresses, codes and lengths of mails,  *)
(* any number of workers and any depth of nested handlers, what a code, an *)
(* address, a mail and a password are worth, however the handlers          *)
(* interleave.                                                             *)
(*                                                                         *)
(* Relations: whatever is asked, refused, answered late or broken by a     *)
(* foreign key, Redis agrees with MySQL on friends and members,            *)
(* friendships are mutual, groups belong to those that created them, and   *)
(* an account whose removal runs alone is gone when it ends.               *)
(* What makes this inductive is that a handler is judged by what it will   *)
(* have done: Redis and MySQL agree on a pair as they would be when the    *)
(* commands left of its task had run and nobody else came between them     *)
(* (Good).  A command that runs keeps that end (EndStays), and a handler   *)
(* that becomes commands has the same end (Faithful).                      *)
(***************************************************************************)
EXTENDS Registration, Relations, FiniteSetTheorems, TLAPS

\* The part of RegistrationInv that is shown step by step; the rest follows from it.
Core == TypeOK /\ Inductive /\ CodesExpire /\ OneUse /\ OneAccount /\ PasswordSet

LEMMA TaskKinds ==
    /\ Task = CodeTask \cup AckTask \cup OtherTask /\ AckTask = RegisterTask \cup FindTask
    /\ \A t \in CodeTask : t \notin AckTask /\ t \notin OtherTask
    /\ \A t \in AckTask : t \notin CodeTask /\ t \notin OtherTask
    /\ \A t \in RegisterTask : t \notin FindTask
BY TaskAssumption DEF Task, AckTask
\* Whom the records of codes and accounts name.
LEMMA Names ==
    ASSUME TypeOK
    PROVE  /\ \A e \in Email : issuer[e] # NoTask => issuer[e] \in CodeTask
           /\ \A u \in AckTask : used[u] # NoTask => used[u] \in CodeTask
           /\ \A e \in Email : \A i \in DOMAIN users[e] : users[e][i] \in RegisterTask
           /\ \A t \in Task : EmailOf[t] \in Email
           /\ \A u \in RegisterTask : password[u] # NoTask => password[u] \in AckTask
           /\ \A t \in unheeded : t \in FindTask
BY TaskAssumption DEF TypeOK
-----------------------------------------------------------------------------
(* What a step leaves alone. *)

\* Tasks that have met stay acquainted while none starts.
LEMMA MeetingsStay ==
    ASSUME Meetings, met' = met,
           \A u \in Task : at[u] \in {"new", "done"} => at'[u] \in {"new", "done"}
    PROVE  Meetings'
BY DEF Meetings, Running, Kin

\* The codes, for a step that does not touch them.
LEMMA CodesStay ==
    ASSUME Issued, Uses, CodesExpire, OneUse, UNCHANGED <<codeVars, used, met>>,
           \A u \in Task : at'[u] \in {"new", "store"} => at[u] \in {"new", "store"},
           \A u \in AckTask : at'[u] \in {"new", "verify"} => at[u] \in {"new", "verify"},
           \A u \in Task : at[u] \in {"expire", "hdel"} => at'[u] = at[u], TypeOK
    PROVE  Issued' /\ Uses' /\ CodesExpire' /\ OneUse'
<1> USE Names, TaskKinds DEF codeVars
<1>1. Issued' BY DEF Issued
<1>2. Uses' BY DEF Uses
<1>3. CodesExpire' BY DEF CodesExpire
<1>4. OneUse' BY DEF OneUse
<1> QED BY <1>1, <1>2, <1>3, <1>4

\* The mails, for a step of a handler that sends none.
LEMMA MailsStay ==
    ASSUME Mails, UNCHANGED <<mailVars, met>>, \A u \in CodeTask : at'[u] = at[u]
    PROVE  Mails'
BY DEF Mails, mailVars

\* The accounts, for a step of a handler that does not write any.
LEMMA AccountsStay ==
    ASSUME TypeOK, Rows, Candidates, Written, OneAccount, PasswordSet,
           UNCHANGED <<userVars, met>>,
           \A u \in AckTask : at[u] \in Linking => at'[u] = at[u],
           \A u \in AckTask : at[u] \in {"answer", "done"} => at'[u] \in {"answer", "done"},
           \A u \in RegisterTask : at'[u] \in Linking => at[u] \in Linking,
           \A u \in RegisterTask : at'[u] \in {"borrow2", "write"} => at[u] \in {"borrow2", "write"},
           \A u \in FindTask : at'[u] = "answer" /\ verdict'[u] = "ok"
                                  => at[u] = "answer" /\ verdict[u] = "ok"
    PROVE  Rows' /\ Candidates' /\ Written' /\ OneAccount' /\ PasswordSet'
<1> USE DEF userVars
<1>1. /\ Linked("answer") = 4 /\ Linked("done") = 4
      /\ \A u \in RegisterTask : u \in AckTask
      /\ \A u \in FindTask : u \in AckTask
    BY TaskKinds DEF Linked
<1>2. Rows'
    <2>1. \A e \in Email : \A i \in DOMAIN users[e] :
              Linked(at'[users[e][i]]) = Linked(at[users[e][i]])
        BY <1>1, Names DEF Rows
    <2> QED BY <1>1, <2>1, Names DEF Rows
<1>3. Candidates' BY DEF Candidates
<1>4. OneAccount' BY DEF OneAccount
<1>5. PasswordSet' BY DEF PasswordSet
<1>6. Written' BY <1>1, Names DEF Written
<1> QED BY <1>2, <1>3, <1>4, <1>5, <1>6
-----------------------------------------------------------------------------
LEMMA Initially == Init => Core
<1> SUFFICES ASSUME Init PROVE Core OBVIOUS
<1> USE TaskKinds, TaskAssumption, PoolAssumption DEF Init
<1>1. TypeOK
    <2>1. held \in [Task -> 0 .. Depth]
        <3>1. 0 \in 0 .. Depth OBVIOUS
        <3> QED BY <3>1
    <2>2. users \in [Email -> Seq(RegisterTask)] OBVIOUS
    <2>3. links \in [RegisterTask -> 0 .. 4] OBVIOUS
    <2> QED BY <2>1, <2>2, <2>3 DEF TypeOK
<1>2. Stages BY DEF Stages
<1>3. Meetings BY DEF Meetings, Running
<1>4. Issued /\ Uses BY DEF Issued, Uses
<1>5. Rows /\ Candidates BY DEF Rows, Candidates, Linking
<1>6. Mails BY DEF Mails
<1>7. CodesExpire /\ OneUse BY DEF CodesExpire, OneUse
<1>8. OneAccount /\ PasswordSet BY DEF OneAccount, PasswordSet
<1>9. Written BY DEF Written
<1> QED BY <1>1, <1>2, <1>3, <1>4, <1>5, <1>6, <1>7, <1>8, <1>9 DEF Core, Inductive

\* The task that starts meets those of its kind that run, and they meet it.
LEMMA TakeKeeps ==
    ASSUME Core, NEW t \in Task, Take(t) PROVE Core'
<1> USE TaskKinds DEF Core, Inductive
<1>1. /\ at[t] = "new" /\ at' = [at EXCEPT ![t] = FirstStep(t)]
      /\ FirstStep(t) = IF t \in CodeTask THEN "store" ELSE IF t \in AckTask THEN "verify"
                                                         ELSE "nest"
    BY DEF Take, Go, FirstStep
<1>2. at'[t] = FirstStep(t) /\ \A u \in Task : u # t => at'[u] = at[u]
    BY <1>1 DEF TypeOK
<1>3. /\ met' \in [Task -> SUBSET Task]
      /\ \A u \in Task : u # t => met[u] \subseteq met'[u]
    BY DEF Take, Meet, Running, TypeOK
<1>4. TypeOK'
    <2>1. at' \in [Task -> {"new", "done", "nest", "store", "expire", "mail", "verify",
                            "hdel", "borrow", "lookup", "borrow2", "write", "befriend", "2nd",
                            "3rd", "4th", "answer"}]
        <3>1. FirstStep(t) \in {"store", "verify", "nest"} BY <1>1
        <3>2. at \in [Task -> {"new", "done", "nest", "store", "expire", "mail", "verify",
                               "hdel", "borrow", "lookup", "borrow2", "write", "befriend",
                               "2nd", "3rd", "4th", "answer"}]
            BY DEF TypeOK
        <3> QED BY ONLY <1>1, <3>1, <3>2
    <2>2. input' \in [AckTask -> Code \cup {NoCode}]
        <3>1. input \in [AckTask -> Code \cup {NoCode}] BY DEF TypeOK
        <3>2. (\E c \in Code : input' = [input EXCEPT ![t] = c]) \/ input' = input
            BY DEF Take
        <3> QED BY ONLY <3>1, <3>2
    <2> QED BY <1>3, <2>1, <2>2 DEF Take, codeVars, mailVars, userVars, TypeOK
<1>5. Stages' BY <1>1, <1>2 DEF Take, Stages, AckStages
<1>6. Meetings'
    <2> SUFFICES ASSUME NEW v \in Running', NEW u \in Running', v # u, u \in Kin(v)
                 PROVE u \in met'[v]
        BY DEF Meetings, Kin
    <2>1. v \in Task /\ u \in Task /\ v \in Kin(u) BY DEF Running, Kin
    <2>2. CASE v = t
        BY <1>2, <2>1, <2>2 DEF Take, Meet, Running, Kin
    <2>3. CASE u = t
        BY <1>2, <2>1, <2>3 DEF Take, Meet, Running, Kin
    <2>4. CASE v # t /\ u # t
        <3>1. u \in Running /\ v \in Running BY <1>2, <2>1, <2>4 DEF Running
        <3> QED BY <1>3, <2>1, <2>4, <3>1 DEF Meetings
    <2> QED BY <2>2, <2>3, <2>4
<1>7. Issued' BY <1>1, <1>2, Names DEF Take, codeVars, Issued
<1>8. Uses' BY <1>1, <1>2, Names DEF Take, codeVars, Uses
<1>9. CodesExpire' BY <1>1, <1>2 DEF Take, codeVars, CodesExpire
<1>10. OneUse' BY <1>1, <1>3 DEF Take, OneUse, Uses
<1>11. \A e \in Email : \A i \in DOMAIN users[e] :
          users[e][i] \in RegisterTask /\ users[e][i] # t
    <2>1. \A e \in Email : \A i \in DOMAIN users[e] : at[users[e][i]] # "new"
        BY DEF Rows, Linking
    <2> QED BY <1>1, <2>1, Names
<1>12. Rows' BY <1>1, <1>2, <1>11 DEF Take, userVars, Rows, Linking
<1>13. Candidates' BY <1>1, <1>2, <1>3, <1>11, TaskAssumption DEF Take, userVars, Candidates
<1>14. OneAccount' BY <1>3, <1>11 DEF Take, userVars, OneAccount
<1>15. PasswordSet' BY <1>1, <1>2, <1>3, <1>11 DEF Take, userVars, PasswordSet
<1>16. Mails' BY <1>1, <1>2, <1>3 DEF Take, mailVars, Mails
<1>17. Written' BY <1>1, <1>2, Names DEF Take, userVars, Written, Linking
<1> QED BY <1>4, <1>5, <1>6, <1>7, <1>8, <1>9, <1>10, <1>12, <1>13, <1>14, <1>15, <1>16, <1>17
-----------------------------------------------------------------------------
(* Register and PasswordFinder. *)

\* Two that are under way have met.
LEMMA Met ==
    ASSUME Meetings, NEW t \in Running, NEW u \in Running, t # u,
           (t \in CodeTask /\ u \in CodeTask) \/ (t \in AckTask /\ u \in AckTask)
    PROVE  u \in met[t] /\ t \in met[u]
BY TaskKinds DEF Meetings, Kin

LEMMA StoreCodeKeeps ==
    ASSUME Core, NEW t \in CodeTask, StoreCode(t) PROVE Core'
<1> USE TaskKinds, TaskAssumption, Names DEF Core, Inductive
<1>1. at[t] = "store" /\ at' = [at EXCEPT ![t] = "expire"] /\ t \in Task /\ t # NoTask
    BY DEF StoreCode, Go
<1>2. at'[t] = "expire" /\ \A u \in Task : u # t => at'[u] = at[u]
    BY <1>1 DEF TypeOK
<1>3. PICK c \in Code : code' = [code EXCEPT ![EmailOf[t]] = c]
    BY DEF StoreCode
<1>4. /\ code'[EmailOf[t]] # NoCode /\ issuer'[EmailOf[t]] = t
      /\ \A e \in Email : e # EmailOf[t] => code'[e] = code[e] /\ issuer'[e] = issuer[e]
    BY <1>3 DEF StoreCode, TypeOK
<1>5. TypeOK'
    BY <1>1, <1>3 DEF StoreCode, mailVars, userVars, TypeOK
<1>6. Stages' BY <1>1, <1>2 DEF StoreCode, Stages
<1>7. Meetings' BY <1>1, <1>2, MeetingsStay DEF StoreCode
<1>8. Issued' BY <1>1, <1>2, <1>4 DEF Issued
<1>9. Uses' BY <1>1, <1>2, <1>4 DEF StoreCode, Uses
<1>10. CodesExpire' BY <1>1, <1>2, <1>4 DEF StoreCode, CodesExpire
<1>11. OneUse' BY DEF StoreCode, OneUse
<1>12. Rows' /\ Candidates' /\ Written' /\ OneAccount' /\ PasswordSet'
    BY <1>2, AccountsStay DEF StoreCode
<1>13. Mails' BY <1>1, <1>2 DEF StoreCode, mailVars, Mails
<1> QED BY <1>5, <1>6, <1>7, <1>8, <1>9, <1>10, <1>11, <1>12, <1>13

\* A mail begins in the middle of a text only when another is at it.
LEMMA ExpireKeeps ==
    ASSUME Core, NEW t \in CodeTask, Expire(t) PROVE Core'
<1> USE TaskKinds, TaskAssumption, Names DEF Core, Inductive
<1>1. at[t] = "expire" /\ at' = [at EXCEPT ![t] = "mail"] /\ t \in Task
    BY DEF Expire, Go
<1>2. at'[t] = "mail" /\ \A u \in Task : u # t => at'[u] = at[u]
    BY <1>1 DEF TypeOK
<1>3. TypeOK'
    BY <1>1 DEF Expire, mailVars, userVars, TypeOK
<1>4. Stages' BY <1>1, <1>2 DEF Expire, Stages
<1>5. Meetings' BY <1>1, <1>2, MeetingsStay DEF Expire
<1>6. Issued' BY <1>1, <1>2 DEF Expire, Issued
<1>7. Uses' BY <1>1, <1>2 DEF Expire, Uses
<1>8. CodesExpire'
    <2> SUFFICES ASSUME NEW e \in Email, code[e] # NoCode, ~ttl'[e]
                 PROVE \E u \in CodeTask : EmailOf[u] = e /\ at'[u] = "expire"
        BY DEF CodesExpire, Expire
    <2>1. e # EmailOf[t] /\ ttl'[e] = ttl[e]
        <3>1. ttl' = [ttl EXCEPT ![EmailOf[t]] = code[EmailOf[t]] # NoCode] /\ e \in DOMAIN ttl
            BY DEF Expire, TypeOK
        <3>2. e = EmailOf[t] => ttl'[e] BY <3>1, Zenon
        <3>3. e # EmailOf[t] => ttl'[e] = ttl[e] BY <3>1, Zenon
        <3> QED BY <3>2, <3>3
    <2>2. PICK u \in CodeTask : EmailOf[u] = e /\ at[u] = "expire"
        BY <2>1 DEF CodesExpire
    <2> QED BY <1>2, <2>1, <2>2
<1>9. OneUse' BY DEF Expire, OneUse
<1>10. Rows' /\ Candidates' /\ Written' /\ OneAccount' /\ PasswordSet'
    BY <1>2, AccountsStay DEF Expire
<1>11. met[t] \cap CodeTask = {} /\ ~spilt => pos = 0
    <2>1. \A u \in CodeTask : at[u] = "mail" => u \in met[t]
        BY <1>1, Met DEF Running
    <2> QED BY <2>1 DEF Mails
<1>12. Mails' BY <1>1, <1>2, <1>11 DEF Expire, mailVars, Mails
<1> QED BY <1>3, <1>4, <1>5, <1>6, <1>7, <1>8, <1>9, <1>10, <1>12

\* Who is in the middle of a text and has met nobody has sent it from its head.
LEMMA PayloadSourceKeeps ==
    ASSUME Core, NEW t \in CodeTask, PayloadSource(t) PROVE Core'
<1> USE TaskKinds, TaskAssumption, Names DEF Core, Inductive
<1>1. at[t] = "mail" /\ t \in Task /\ TextLength[EmailOf[t]] \in Nat \ {0} /\ pos \in Nat
    BY DEF PayloadSource, TypeOK
<1>2. \/ /\ pos >= TextLength[EmailOf[t]] /\ pos' = 0 /\ whole' = whole
         /\ at' = [at EXCEPT ![t] = "done"] /\ held' = [held EXCEPT ![t] = 0]
      \/ /\ ~(pos >= TextLength[EmailOf[t]]) /\ pos' = TextLength[EmailOf[t]]
         /\ whole' = IF pos = 0 THEN [whole EXCEPT ![t] = @ + 1] ELSE whole
         /\ at' = at /\ held' = held
    BY DEF PayloadSource, End, Go
<1>3. at'[t] \in {"mail", "done"} /\ \A u \in Task : u # t => at'[u] = at[u]
    BY <1>1, <1>2 DEF TypeOK
<1>4. TypeOK'
    <2>1. held' \in [Task -> 0 .. Depth]
        <3>1. 0 \in 0 .. Depth BY PoolAssumption
        <3>2. held' = held \/ held' = [held EXCEPT ![t] = 0] BY <1>2
        <3>3. held \in [Task -> 0 .. Depth] BY DEF TypeOK
        <3>4. CASE held' = held BY <3>3, <3>4
        <3>5. CASE held' = [held EXCEPT ![t] = 0] BY <3>1, <3>3, <3>5
        <3> QED BY <3>2, <3>4, <3>5
    <2>2. at' \in [Task -> {"new", "done", "nest", "store", "expire", "mail", "verify",
                            "hdel", "borrow", "lookup", "borrow2", "write", "befriend",
                            "2nd", "3rd", "4th", "answer"}]
        <3>1. at' = at \/ at' = [at EXCEPT ![t] = "done"] BY ONLY <1>2
        <3>2. at \in [Task -> {"new", "done", "nest", "store", "expire", "mail", "verify",
                               "hdel", "borrow", "lookup", "borrow2", "write", "befriend",
                               "2nd", "3rd", "4th", "answer"}]
            BY DEF TypeOK
        <3> QED BY ONLY <3>1, <3>2
    <2>3. whole' \in [CodeTask -> Nat]
        <3>1. whole' = whole \/ whole' = [whole EXCEPT ![t] = @ + 1] BY ONLY <1>2
        <3>2. whole \in [CodeTask -> Nat] BY DEF TypeOK
        <3> QED BY ONLY <3>1, <3>2
    <2>4. pos' \in Nat BY <1>1, <1>2
    <2> QED BY <2>1, <2>2, <2>3, <2>4 DEF PayloadSource, codeVars, userVars, TypeOK
<1>5. Stages'
    <2>1. \A u \in Task : u # t => held'[u] = held[u] BY <1>2 DEF TypeOK
    <2> QED BY <1>1, <1>3, <2>1 DEF Stages
<1>6. Meetings' BY <1>1, <1>3, MeetingsStay DEF PayloadSource
<1>7. Issued' /\ Uses' /\ CodesExpire' /\ OneUse'
    BY <1>1, <1>3, CodesStay DEF PayloadSource
<1>8. Rows' /\ Candidates' /\ Written' /\ OneAccount' /\ PasswordSet'
    BY <1>3, AccountsStay DEF PayloadSource
<1>9. \A u \in CodeTask : u # t /\ at[u] = "mail" => t \in met[u]
    BY <1>1, Met DEF Running
<1>10. Mails'
    <2>1. ~spilt' /\ pos' # 0 => at'[t] = "mail" BY <1>1, <1>2
    <2>2. \A u \in CodeTask : at'[u] \in {"new", "store", "expire"} => whole'[u] = 0
        BY <1>1, <1>2, <1>3 DEF Mails, TypeOK
    <2>3. ASSUME at'[t] = "mail", met[t] \cap CodeTask = {}, ~spilt
          PROVE  pos' # 0 /\ whole'[t] = 1 /\ pos' = TextLength[EmailOf[t]]
        <3>1. pos = 0 => whole[t] = 0 BY <1>1, <2>3 DEF Mails
        <3>2. pos = 0 \/ pos = TextLength[EmailOf[t]] BY <1>1, <2>3 DEF Mails
        <3>3. at[t] = "mail" /\ at' # [at EXCEPT ![t] = "done"] BY <1>1, <2>3 DEF TypeOK
        <3> QED BY <1>1, <1>2, <3>1, <3>2, <3>3 DEF TypeOK
    <2>4. spilt' = spilt /\ met' = met BY DEF PayloadSource
    <2> QED BY <1>3, <1>9, <2>1, <2>2, <2>3, <2>4 DEF Mails
<1> QED BY <1>4, <1>5, <1>6, <1>7, <1>8, <1>10

LEMMA SendFailsKeeps ==
    ASSUME Core, NEW t \in CodeTask, SendFails(t) PROVE Core'
<1> USE TaskKinds, TaskAssumption, Names DEF Core, Inductive
<1>1. at[t] = "mail" /\ at' = [at EXCEPT ![t] = "done"] /\ t \in Task
    BY DEF SendFails, End, Go
<1>2. at'[t] = "done" /\ \A u \in Task : u # t => at'[u] = at[u]
    BY <1>1 DEF TypeOK
<1>3. TypeOK'
    <2>1. held' \in [Task -> 0 .. Depth]
        BY PoolAssumption DEF SendFails, End, TypeOK
    <2>2. spilt' \in BOOLEAN BY DEF SendFails, TypeOK
    <2> QED BY <1>1, <2>1, <2>2 DEF SendFails, codeVars, userVars, TypeOK
<1>4. Stages' BY <1>1, <1>2 DEF SendFails, End, Stages, TypeOK
<1>5. Meetings' BY <1>1, <1>2, MeetingsStay DEF SendFails
<1>6. Issued' /\ Uses' /\ CodesExpire' /\ OneUse'
    BY <1>1, <1>2, CodesStay DEF SendFails
<1>7. Rows' /\ Candidates' /\ Written' /\ OneAccount' /\ PasswordSet'
    BY <1>2, AccountsStay DEF SendFails
<1>8. Mails'
    <2>1. pos' = pos /\ whole' = whole /\ met' = met /\ spilt' = (spilt \/ pos # 0) BY DEF SendFails
    <2>2. Mails OBVIOUS
    <2>3. \A u \in CodeTask : at'[u] = at[u] \/ at'[u] = "done" BY ONLY <1>2, TaskKinds
    <2>4. ~spilt' => ~spilt /\ pos' = 0 BY ONLY <2>1
    <2> QED BY ONLY <2>1, <2>2, <2>3, <2>4 DEF Mails
<1> QED BY <1>3, <1>4, <1>5, <1>6, <1>7, <1>8

\* Redis: the time of a code is over.
LEMMA ExpiredKeeps ==
    ASSUME Core, NEW e \in Email, Expired(e) PROVE Core'
<1> USE TaskKinds, TaskAssumption, Names DEF Core, Inductive
<1>1. at' = at /\ held' = held /\ met' = met BY DEF Expired
<1>2. TypeOK' BY DEF Expired, mailVars, userVars, TypeOK
<1>3. Stages' BY <1>1 DEF Stages
<1>4. Meetings' BY <1>1, MeetingsStay
<1>5. Issued' BY <1>1 DEF Expired, Issued, TypeOK
<1>6. Uses' BY <1>1 DEF Expired, Uses, TypeOK
<1>7. CodesExpire' BY <1>1 DEF Expired, CodesExpire, TypeOK
<1>8. OneUse' BY DEF Expired, OneUse
<1>9. Rows' /\ Candidates' /\ Written' /\ OneAccount' /\ PasswordSet'
    BY <1>1, AccountsStay DEF Expired
<1>10. Mails' BY <1>1, MailsStay DEF Expired
<1> QED BY <1>2, <1>3, <1>4, <1>5, <1>6, <1>7, <1>8, <1>9, <1>10
-----------------------------------------------------------------------------
(* RegisterAcker and PasswordFindAcker. *)

\* One that reads a code meets whoever has been let in by it and has not deleted it yet.
LEMMA VerifyKeeps ==
    ASSUME Core, NEW t \in AckTask, Verify(t) PROVE Core'
<1> USE TaskKinds, TaskAssumption, Names DEF Core, Inductive
<1>1. at[t] = "verify" /\ t \in Task BY DEF Verify
<1>2. CASE at' = at /\ UNCHANGED <<verdict, used>>
    <2>1. TypeOK'
        BY <1>2 DEF Verify, codeVars, mailVars, userVars, TypeOK
    <2>2. Stages' BY <1>2 DEF Verify, Stages
    <2>3. Meetings' BY <1>2, MeetingsStay DEF Verify
    <2>4. Issued' /\ Uses' /\ CodesExpire' /\ OneUse' BY <1>2, CodesStay DEF Verify
    <2>5. Mails' BY <1>2, MailsStay DEF Verify
    <2>6. Rows' /\ Candidates' /\ Written' /\ OneAccount' /\ PasswordSet'
        BY <1>2, AccountsStay DEF Verify
    <2> QED BY <2>1, <2>2, <2>3, <2>4, <2>5, <2>6
<1>3. ASSUME NEW s \in {"hdel", "borrow"}, at' = [at EXCEPT ![t] = s],
             used' \in [AckTask -> CodeTask \cup {NoTask}],
             \A u \in AckTask : u # t => used'[u] = used[u],
             used'[t] = NoTask \/ (s = "hdel" /\ used'[t] = issuer[EmailOf[t]]),
             verdict' \in [AckTask -> {"none", "ok", "wrong", "refused", "failed"}],
             \A u \in AckTask : verdict'[u] = "ok" => verdict[u] = "ok"
      PROVE  Core'
    <2>1. at' = [at EXCEPT ![t] = s] BY <1>3
    <2>2. at'[t] = s /\ \A u \in Task : u # t => at'[u] = at[u]
        BY <1>1, <2>1 DEF TypeOK
    <2>3. TypeOK'
        <3>1. at' \in [Task -> {"new", "done", "nest", "store", "expire", "mail", "verify",
                                "hdel", "borrow", "lookup", "borrow2", "write", "befriend",
                                "2nd", "3rd", "4th", "answer"}]
            BY <2>1 DEF TypeOK
        <3> QED BY <1>3, <3>1 DEF Verify, codeVars, mailVars, userVars, TypeOK
    <2>4. Stages' BY <1>1, <2>2 DEF Verify, Stages, AckStages
    <2>5. Meetings' BY <1>1, <2>2, MeetingsStay DEF Verify
    <2>6. Issued' BY <2>2 DEF Verify, codeVars, Issued
    <2>7. /\ \A u \in AckTask : u # t => used'[u] = used[u]
          /\ used'[t] = NoTask \/ (s = "hdel" /\ used'[t] = issuer[EmailOf[t]])
        BY <1>3
    <2>8. Uses' BY <2>2, <2>7 DEF Verify, codeVars, Uses, Issued
    <2>9. CodesExpire' BY <1>1, <2>2 DEF Verify, codeVars, CodesExpire
    <2>10. OneUse'
        <3>1. ASSUME NEW u \in AckTask, u # t, used'[t] = used'[u], used'[t] # NoTask
              PROVE  u \in met[t] /\ t \in met[u]
            <4>1. used[u] = issuer[EmailOf[t]] /\ used[u] # NoTask BY <2>7, <3>1
            <4>2. EmailOf[u] = EmailOf[t] BY <4>1 DEF Uses, Issued
            <4>3. at[u] = "hdel" BY <4>1, <4>2 DEF Uses
            <4> QED BY <1>1, <3>1, <4>3, Met DEF Running
        <3>2. met' = met BY DEF Verify
        <3> QED BY <2>7, <3>1, <3>2 DEF OneUse
    <2>11. Mails' BY <2>2, MailsStay DEF Verify
    <2>12. Rows' /\ Candidates' /\ Written' /\ OneAccount' /\ PasswordSet'
        <3>1. \A u \in FindTask : at'[u] = "answer" /\ verdict'[u] = "ok"
                                    => at[u] = "answer" /\ verdict[u] = "ok"
            BY <1>3, <2>2
        <3> QED BY <1>1, <2>2, <3>1, AccountsStay DEF Verify, Linking
    <2> QED BY <2>3, <2>4, <2>5, <2>6, <2>8, <2>9, <2>10, <2>11, <2>12
<1>4. used[t] = NoTask /\ issuer[EmailOf[t]] \in CodeTask \cup {NoTask}
    BY <1>1 DEF Uses, TypeOK
<1>5. CASE Go(t, "hdel") /\ used' = [used EXCEPT ![t] = issuer[EmailOf[t]]] /\ verdict' = verdict
    BY <1>3, <1>4, <1>5 DEF Go, TypeOK
<1>6. CASE Go(t, "borrow") /\ used' = used /\ verdict' = [verdict EXCEPT ![t] = "wrong"]
    BY <1>3, <1>4, <1>6 DEF Go, TypeOK
<1> QED BY <1>2, <1>5, <1>6 DEF Verify, Judge

LEMMA HdelKeeps ==
    ASSUME Core, NEW t \in AckTask, Hdel(t) PROVE Core'
<1> USE TaskKinds, TaskAssumption, Names DEF Core, Inductive
<1>1. at[t] = "hdel" /\ at' = [at EXCEPT ![t] = "borrow"] /\ t \in Task
    BY DEF Hdel, Go
<1>2. at'[t] = "borrow" /\ \A u \in Task : u # t => at'[u] = at[u]
    BY <1>1 DEF TypeOK
<1>3. /\ code'[EmailOf[t]] = NoCode /\ issuer'[EmailOf[t]] = NoTask
      /\ \A e \in Email : e # EmailOf[t] => code'[e] = code[e] /\ issuer'[e] = issuer[e]
    BY DEF Hdel, TypeOK
<1>4. TypeOK'
    BY <1>1 DEF Hdel, Judge, mailVars, userVars, TypeOK
<1>5. Stages' BY <1>1, <1>2 DEF Hdel, Stages, AckStages
<1>6. Meetings' BY <1>1, <1>2, MeetingsStay DEF Hdel
<1>7. Issued' BY <1>2, <1>3 DEF Issued
<1>8. Uses' BY <1>1, <1>2, <1>3 DEF Hdel, Uses
<1>9. CodesExpire' BY <1>1, <1>2, <1>3 DEF Hdel, CodesExpire, TypeOK
<1>10. OneUse' BY DEF Hdel, OneUse
<1>11. Mails' BY <1>2, MailsStay DEF Hdel
<1>12. Rows' /\ Candidates' /\ Written' /\ OneAccount' /\ PasswordSet'
    <2>1. \A u \in FindTask : at'[u] = "answer" /\ verdict'[u] = "ok"
                                => at[u] = "answer" /\ verdict[u] = "ok"
        BY <1>2 DEF Hdel, Judge, TypeOK
    <2> QED BY <1>1, <1>2, <2>1, AccountsStay DEF Hdel, Linking
<1> QED BY <1>4, <1>5, <1>6, <1>7, <1>8, <1>9, <1>10, <1>11, <1>12

\* No handler asks for more connections than Depth.
LEMMA GetConnectionKeeps ==
    ASSUME Core, NEW t \in AckTask, GetConnection(t) PROVE Core'
<1> USE TaskKinds, TaskAssumption, Names DEF Core, Inductive
<1>1. t \in Task /\ \/ at[t] = "borrow" /\ at' = [at EXCEPT ![t] = "lookup"] /\ held[t] = 0
                    \/ at[t] = "borrow2" /\ at' = [at EXCEPT ![t] = "write"] /\ held[t] = 1
    BY DEF GetConnection, Go, Stages
<1>2. /\ \A u \in Task : u # t => at'[u] = at[u]
      /\ \/ at[t] = "borrow" /\ at'[t] = "lookup" /\ held[t] = 0
         \/ at[t] = "borrow2" /\ at'[t] = "write" /\ held[t] = 1
    BY <1>1 DEF TypeOK
<1>3. held' = [held EXCEPT ![t] = held[t] + 1] BY DEF GetConnection, Borrow
<1>4. /\ held' \in [Task -> 0 .. Depth] /\ held'[t] = held[t] + 1
      /\ \A u \in Task : u # t => held'[u] = held[u]
    <2>1. held[t] + 1 \in 0 .. Depth BY <1>2, PoolAssumption
    <2>2. held \in [Task -> 0 .. Depth] BY DEF TypeOK
    <2> QED BY <1>1, <1>3, <2>1, <2>2
<1>5. TypeOK'
    <2>1. at' \in [Task -> {"new", "done", "nest", "store", "expire", "mail", "verify",
                            "hdel", "borrow", "lookup", "borrow2", "write", "befriend",
                            "2nd", "3rd", "4th", "answer"}]
        <3>1. CASE at' = [at EXCEPT ![t] = "lookup"] BY <3>1 DEF TypeOK
        <3>2. CASE at' = [at EXCEPT ![t] = "write"] BY <3>2 DEF TypeOK
        <3> QED BY <1>1, <3>1, <3>2
    <2> QED BY <1>4, <2>1 DEF GetConnection, codeVars, mailVars, userVars, TypeOK
<1>6. Stages' BY <1>2, <1>4 DEF Stages, AckStages
<1>7. Meetings' BY <1>2, MeetingsStay DEF GetConnection
<1>8. Issued' /\ Uses' /\ CodesExpire' /\ OneUse' BY <1>2, CodesStay DEF GetConnection
<1>9. Mails' BY <1>2, MailsStay DEF GetConnection
<1>10. Rows' /\ Candidates' /\ Written' /\ OneAccount' /\ PasswordSet'
    BY <1>2, AccountsStay DEF GetConnection, Linking
<1> QED BY <1>5, <1>6, <1>7, <1>8, <1>9, <1>10

\* Whoever goes on to insert has found no row.
LEMMA LookupKeeps ==
    ASSUME Core, NEW t \in AckTask, Lookup(t) PROVE Core'
<1> USE TaskKinds, TaskAssumption, Names DEF Core, Inductive
<1>1. \/ Go(t, "answer") /\ verdict' = [verdict EXCEPT ![t] = "refused"]
      \/ Go(t, "answer") /\ verdict' = verdict /\ verdict[t] # "ok"
      \/ Go(t, "borrow2") /\ verdict' = verdict /\ (t \in RegisterTask => users[EmailOf[t]] = <<>>)
    <2>1. CASE (users[EmailOf[t]] # <<>>) = (t \in RegisterTask)
        <3>1. Judge(t, "refused") /\ Go(t, "answer") BY <2>1, Zenon DEF Lookup
        <3> QED BY <3>1 DEF Judge
    <2>2. CASE (users[EmailOf[t]] # <<>>) # (t \in RegisterTask)
        <3>1. t \in RegisterTask => users[EmailOf[t]] = <<>> BY <2>2, Zenon
        <3>2. Go(t, IF verdict[t] = "ok" THEN "borrow2" ELSE "answer") /\ verdict' = verdict
            BY <2>2, Zenon DEF Lookup
        <3> QED BY <3>1, <3>2
    <2> QED BY <2>1, <2>2
<1>2. at[t] = "lookup" /\ t \in Task /\ \E s \in {"answer", "borrow2"} : at' = [at EXCEPT ![t] = s]
    BY <1>1 DEF Lookup, Go
<1>3. /\ at'[t] \in {"answer", "borrow2"} /\ \A u \in Task : u # t => at'[u] = at[u]
      /\ at'[t] = "borrow2" /\ t \in RegisterTask => users[EmailOf[t]] = <<>>
      /\ at'[t] = "answer" => verdict'[t] # "ok"
      /\ \A u \in AckTask : u # t => verdict'[u] = verdict[u]
    BY <1>1, <1>2 DEF Go, TypeOK
<1>4. TypeOK'
    <2>1. verdict' \in [AckTask -> {"none", "ok", "wrong", "refused", "failed"}]
        BY <1>1 DEF TypeOK
    <2>2. at' \in [Task -> {"new", "done", "nest", "store", "expire", "mail", "verify",
                            "hdel", "borrow", "lookup", "borrow2", "write", "befriend",
                            "2nd", "3rd", "4th", "answer"}]
        BY <1>2 DEF TypeOK
    <2> QED BY <2>1, <2>2 DEF Lookup, codeVars, mailVars, userVars, TypeOK
<1>5. Stages' BY <1>2, <1>3 DEF Lookup, Stages, AckStages
<1>6. Meetings' BY <1>2, <1>3, MeetingsStay DEF Lookup
<1>7. Issued' /\ Uses' /\ CodesExpire' /\ OneUse'
    BY <1>2, <1>3, CodesStay DEF Lookup
<1>8. Mails' BY <1>3, MailsStay DEF Lookup
<1>9. Rows' BY <1>2, <1>3 DEF Lookup, userVars, Rows, Linking
<1>10. Candidates' BY <1>3 DEF Lookup, userVars, Candidates
<1>11. OneAccount' BY DEF Lookup, userVars, OneAccount
<1>12. PasswordSet'
    <2>1. \A u \in FindTask : at'[u] = "answer" /\ verdict'[u] = "ok"
                                => at[u] = "answer" /\ verdict[u] = "ok"
        BY <1>3
    <2> QED BY <2>1 DEF Lookup, userVars, PasswordSet
<1>13. Written' BY <1>2, <1>3, Names DEF Lookup, userVars, Written, Linking
<1> QED BY <1>4, <1>5, <1>6, <1>7, <1>8, <1>9, <1>10, <1>11, <1>12, <1>13

\* The row that is added is of a task that has met the writers of the others.
LEMMA InputAccountKeeps ==
    ASSUME Core, NEW t \in RegisterTask, InputAccount(t) PROVE Core'
<1> USE TaskKinds, TaskAssumption, Names DEF Core, Inductive
<1>1. at[t] = "write" /\ t \in Task /\ held[t] = 2 /\ held' = [held EXCEPT ![t] = held[t] - 1]
    BY DEF InputAccount, Stages
<1>2. \/ /\ users' = [users EXCEPT ![EmailOf[t]] = Append(users[EmailOf[t]], t)]
         /\ password' = [password EXCEPT ![t] = t] /\ verdict' = verdict
         /\ at' = [at EXCEPT ![t] = "befriend"]
      \/ /\ users' = users /\ password' = password
         /\ verdict' = [verdict EXCEPT ![t] = "failed"]
         /\ at' = [at EXCEPT ![t] = "answer"]
    BY DEF InputAccount, Judge, Go
<1>3. /\ at'[t] \in {"befriend", "answer"} /\ \A u \in Task : u # t => at'[u] = at[u]
      /\ \A u \in AckTask : u # t => verdict'[u] = verdict[u]
      /\ at'[t] = "answer" => users' = users /\ password' = password
      /\ at'[t] = "befriend" =>
            /\ users' = [users EXCEPT ![EmailOf[t]] = Append(users[EmailOf[t]], t)]
            /\ password' = [password EXCEPT ![t] = t] /\ verdict' = verdict
    <2>1. CASE verdict' = [verdict EXCEPT ![t] = "failed"]
               /\ at' = [at EXCEPT ![t] = "answer"] /\ users' = users /\ password' = password
        BY <1>1, <2>1 DEF TypeOK
    <2>2. CASE at' = [at EXCEPT ![t] = "befriend"] /\ verdict' = verdict
        BY <1>1, <1>2, <2>2 DEF TypeOK
    <2> QED BY <1>2, <2>1, <2>2
<1>4. /\ held' \in [Task -> 0 .. Depth] /\ held'[t] = 1
      /\ \A u \in Task : u # t => held'[u] = held[u]
    <2>1. held[t] - 1 = 1 /\ 1 \in 0 .. Depth BY <1>1, PoolAssumption
    <2>2. held \in [Task -> 0 .. Depth] BY DEF TypeOK
    <2> QED BY <1>1, <2>1, <2>2
<1>5. TypeOK'
    <2>1. at' \in [Task -> {"new", "done", "nest", "store", "expire", "mail", "verify",
                            "hdel", "borrow", "lookup", "borrow2", "write", "befriend",
                            "2nd", "3rd", "4th", "answer"}]
        <3>1. at \in [Task -> {"new", "done", "nest", "store", "expire", "mail", "verify",
                               "hdel", "borrow", "lookup", "borrow2", "write", "befriend",
                               "2nd", "3rd", "4th", "answer"}]
            BY DEF TypeOK
        <3>2. at' = [at EXCEPT ![t] = "befriend"] \/ at' = [at EXCEPT ![t] = "answer"]
            BY ONLY <1>2
        <3> QED BY ONLY <1>1, <3>1, <3>2
    <2>2. users' \in [Email -> Seq(RegisterTask)]
        <3>1. users[EmailOf[t]] \in Seq(RegisterTask) BY DEF TypeOK
        <3>2. Append(users[EmailOf[t]], t) \in Seq(RegisterTask) BY <3>1
        <3>3. users \in [Email -> Seq(RegisterTask)] BY DEF TypeOK
        <3>4. CASE at'[t] = "answer" BY <1>3, <3>3, <3>4
        <3>5. CASE at'[t] = "befriend"
            <4>1. users' = [users EXCEPT ![EmailOf[t]] = Append(users[EmailOf[t]], t)]
                BY <1>3, <3>5
            <4> QED BY <3>2, <3>3, <4>1
        <3> QED BY <1>3, <3>4, <3>5
    <2>3. /\ password' \in [RegisterTask -> AckTask \cup {NoTask}]
          /\ verdict' \in [AckTask -> {"none", "ok", "wrong", "refused", "failed"}]
        <3>1. /\ password \in [RegisterTask -> AckTask \cup {NoTask}]
              /\ verdict \in [AckTask -> {"none", "ok", "wrong", "refused", "failed"}]
            BY DEF TypeOK
        <3>2. CASE verdict' = verdict /\ password' = [password EXCEPT ![t] = t]
            BY <3>1, <3>2
        <3>3. CASE verdict' = [verdict EXCEPT ![t] = "failed"] /\ password' = password
            BY <3>1, <3>3
        <3> QED BY <1>2, <3>2, <3>3
    <2>4. TypeOK /\ UNCHANGED <<codeVars, input, mailVars, links, unheeded, crashed, used, met>>
        BY DEF InputAccount
    <2>5. /\ code' \in [Email -> Code \cup {NoCode}] /\ ttl' \in [Email -> BOOLEAN]
          /\ input' \in [AckTask -> Code \cup {NoCode}]
          /\ pos' \in Nat /\ whole' \in [CodeTask -> Nat]
          /\ links' \in [RegisterTask -> 0 .. 4]
          /\ crashed' \in BOOLEAN /\ spilt' \in BOOLEAN
          /\ issuer' \in [Email -> CodeTask \cup {NoTask}]
          /\ used' \in [AckTask -> CodeTask \cup {NoTask}]
          /\ met' \in [Task -> SUBSET Task] /\ unheeded' \subseteq FindTask
        BY ONLY <2>4 DEF codeVars, mailVars, TypeOK
    <2>6. held' \in [Task -> 0 .. Depth] BY ONLY <1>4
    <2> QED BY ONLY <2>1, <2>2, <2>3, <2>5, <2>6 DEF TypeOK
<1>6. Stages'
    <2>1. Stages OBVIOUS
    <2>2. t \notin CodeTask /\ t \notin OtherTask /\ t \notin FindTask BY <1>1, TaskKinds
    <2> QED BY ONLY <1>1, <1>3, <1>4, <2>1, <2>2 DEF Stages, AckStages, Linking
<1>7. Meetings' BY <1>1, <1>3, MeetingsStay DEF InputAccount
<1>8. Issued' /\ Uses' /\ CodesExpire' /\ OneUse'
    BY <1>1, <1>3, CodesStay DEF InputAccount
<1>9. Mails' BY <1>3, MailsStay DEF InputAccount
<1>10. CASE at'[t] = "answer"
    BY <1>1, <1>3, <1>5, <1>6, <1>7, <1>8, <1>9, <1>10, AccountsStay
        DEF InputAccount, userVars, Linking
<1>11. CASE at'[t] = "befriend"
    <2> DEFINE e == EmailOf[t]
               n == Len(users[e]) + 1
    <2>1. /\ links' = links /\ met' = met /\ links \in [RegisterTask -> 0 .. 4]
          /\ users[e] \in Seq(RegisterTask) /\ Len(users[e]) \in Nat
        BY DEF InputAccount, TypeOK
    <2>2. /\ DOMAIN users[e] = 1 .. Len(users[e]) /\ DOMAIN users'[e] = 1 .. n
          /\ users'[e][n] = t /\ \A i \in 1 .. Len(users[e]) : users'[e][i] = users[e][i]
          /\ \A d \in Email : d # e => users'[d] = users[d]
        <3>1. users'[e] = Append(users[e], t) /\ \A d \in Email : d # e => users'[d] = users[d]
            BY <1>3, <1>11 DEF TypeOK
        <3> QED BY <2>1, <3>1
    <2>3. \A d \in Email : \A i \in DOMAIN users[d] :
              users[d][i] # t /\ EmailOf[users[d][i]] = d
        BY <1>1 DEF Rows, Linking
    <2>4. Rows'
        <3>1. ASSUME NEW d \in Email, NEW i \in DOMAIN users'[d]
              PROVE  /\ EmailOf[users'[d][i]] = d
                     /\ at'[users'[d][i]] \in Linking \cup {"answer", "done"}
                     /\ Linked(at'[users'[d][i]]) <= links[users'[d][1]]
            <4>1. CASE d # e BY <1>3, <2>2, <2>3, <4>1 DEF Rows
            <4>2. CASE d = e /\ i # n
                <5>1. i \in DOMAIN users[e] /\ 1 \in DOMAIN users[e] BY <2>1, <2>2, <3>1, <4>2
                <5>2. users'[e][i] = users[e][i] /\ users'[e][1] = users[e][1]
                    BY <2>2, <5>1
                <5> QED BY <1>3, <2>3, <4>2, <5>1, <5>2 DEF Rows
            <4>3. CASE d = e /\ i = n
                <5>1. users'[d][i] = t BY <2>2, <4>3
                <5>2. Linked(at'[t]) = 0 /\ "befriend" \in Linking
                    BY <1>11 DEF Linked, Linking
                <5>3. 1 \in DOMAIN users'[e] BY <2>1, <2>2
                <5>4. links[users'[e][1]] \in 0 .. 4 BY <1>5, <2>1, <5>3 DEF TypeOK
                <5> QED BY <1>11, <4>3, <5>1, <5>2, <5>4
            <4> QED BY <4>1, <4>2, <4>3
        <3>2. \A u \in RegisterTask : at'[u] \in Linking => users'[EmailOf[u]] # <<>>
            <4>1. users'[e] # <<>> BY <2>1, <2>2
            <4> QED BY <1>3, <2>2, <4>1 DEF Rows
        <3> QED BY <2>1, <3>1, <3>2 DEF Rows
    <2>5. Candidates'
        <3> SUFFICES ASSUME NEW u \in RegisterTask, at'[u] \in {"borrow2", "write"},
                            NEW i \in DOMAIN users'[EmailOf[u]]
                     PROVE  /\ users'[EmailOf[u]][i] \in met[u]
                            /\ u \in met[users'[EmailOf[u]][i]]
            BY <2>1 DEF Candidates
        <3>1. u # t /\ at[u] \in {"borrow2", "write"} BY <1>3, <1>11
        <3>2. t \in met[u] /\ u \in met[t] BY <1>1, <3>1, Met DEF Running
        <3>3. CASE EmailOf[u] = e /\ i = n BY <2>2, <3>2, <3>3
        <3>4. CASE ~(EmailOf[u] = e /\ i = n)
            <4>1. i \in DOMAIN users[EmailOf[u]] /\ users'[EmailOf[u]][i] = users[EmailOf[u]][i]
                <5>1. CASE EmailOf[u] # e BY <2>2, <5>1
                <5>2. CASE EmailOf[u] = e
                    <6>1. i \in 1 .. n /\ i # n BY <2>2, <3>4, <5>2
                    <6>2. i \in 1 .. Len(users[e]) BY <2>1, <6>1
                    <6> QED BY <2>2, <5>2, <6>2
                <5> QED BY <5>1, <5>2
            <4> QED BY <3>1, <4>1 DEF Candidates
        <3> QED BY <3>3, <3>4
    <2>6. OneAccount'
        <3> SUFFICES ASSUME NEW d \in Email, NEW i \in DOMAIN users'[d],
                            NEW j \in DOMAIN users'[d], i # j
                     PROVE  users'[d][j] \in met[users'[d][i]]
            BY <2>1 DEF OneAccount
        <3>1. CASE d # e BY <2>2, <3>1 DEF OneAccount
        <3>2. CASE d = e
            <4>1. \A k \in DOMAIN users[e] : users[e][k] \in met[t] /\ t \in met[users[e][k]]
                BY <1>1 DEF Candidates
            <4>2. \A k \in DOMAIN users'[e] :
                      k # n => k \in DOMAIN users[e] /\ users'[e][k] = users[e][k]
                BY ONLY <2>1, <2>2
            <4>3. i \in DOMAIN users'[e] /\ j \in DOMAIN users'[e] BY <3>2
            <4>4. CASE i = n
                <5>1. users'[d][i] = t /\ met' = met BY <2>1, <2>2, <3>2, <4>4
                <5>2. j \in DOMAIN users[e] /\ users'[d][j] = users[e][j]
                    BY <3>2, <4>2, <4>3, <4>4
                <5> QED BY <4>1, <5>1, <5>2
            <4>5. CASE j = n
                <5>1. users'[d][j] = t /\ met' = met BY <2>1, <2>2, <3>2, <4>5
                <5>2. i \in DOMAIN users[e] /\ users'[d][i] = users[e][i]
                    BY <3>2, <4>2, <4>3, <4>5
                <5> QED BY <4>1, <5>1, <5>2
            <4>6. CASE i # n /\ j # n
                <5>1. /\ i \in DOMAIN users[e] /\ users'[d][i] = users[e][i]
                      /\ j \in DOMAIN users[e] /\ users'[d][j] = users[e][j]
                    BY <3>2, <4>2, <4>3, <4>6
                <5> QED BY <2>1, <5>1 DEF OneAccount
            <4> QED BY <4>4, <4>5, <4>6
        <3> QED BY <3>1, <3>2
    <2>8. Written'
        <3>1. unheeded' = unheeded /\ t \notin unheeded /\ "befriend" \in Linking
            BY DEF InputAccount, Linking
        <3>2. \A u \in RegisterTask : password'[u] = IF u = t THEN t ELSE password[u]
            BY <1>3, <1>11 DEF TypeOK
        <3>3. \A u \in FindTask : u \in Task /\ u # t OBVIOUS
        <3>4. \A u \in unheeded : at'[u] \in {"answer", "done"} BY <1>3, <3>3 DEF Written
        <3>5. \A u \in AckTask : at[u] \in Linking \cup {"answer", "done"}
                                     => at'[u] \in Linking \cup {"answer", "done"}
            BY <1>1, <1>3, <1>11, <3>1
        <3> QED BY <1>11, <3>1, <3>2, <3>4, <3>5 DEF Written
    <2>7. PasswordSet'
        <3>1. ASSUME NEW u \in FindTask, at[u] = "answer", verdict[u] = "ok", u \notin unheeded,
                     NEW i \in DOMAIN users'[EmailOf[u]]
              PROVE  password'[users'[EmailOf[u]][i]] \in {u} \cup met[u]
            <4>1. t \in met[u] BY <1>1, <3>1, Met DEF Running
            <4>2. CASE EmailOf[u] = e /\ i = n
                BY <1>3, <1>11, <2>2, <4>1, <4>2 DEF TypeOK
            <4>3. CASE ~(EmailOf[u] = e /\ i = n)
                <5>1. i \in DOMAIN users[EmailOf[u]] /\ users'[EmailOf[u]][i] = users[EmailOf[u]][i]
                    <6>1. CASE EmailOf[u] # e BY <2>2, <6>1
                    <6>2. CASE EmailOf[u] = e
                        <7>1. i \in 1 .. n /\ i # n BY <2>2, <4>3, <6>2
                        <7>2. i \in 1 .. Len(users[e]) BY <2>1, <7>1
                        <7> QED BY <2>2, <6>2, <7>2
                    <6> QED BY <6>1, <6>2
                <5>2. password'[users[EmailOf[u]][i]] = password[users[EmailOf[u]][i]]
                    BY <1>3, <1>11, <2>3, <5>1 DEF TypeOK
                <5> QED BY <3>1, <5>1, <5>2 DEF PasswordSet
            <4> QED BY <4>2, <4>3
        <3>2. \A u \in FindTask, w \in RegisterTask : u \in unheeded => password'[w] # u
            <4>1. unheeded' = unheeded /\ \A u \in FindTask : u # NoTask
                BY DEF InputAccount
            <4> QED BY ONLY <2>8, <4>1 DEF Written
        <3>3. unheeded' = unheeded /\ met' = met BY DEF InputAccount
        <3>4. \A u \in FindTask : at'[u] = at[u] /\ verdict'[u] = verdict[u]
            BY <1>3, <1>11
        <3> QED BY ONLY <3>1, <3>2, <3>3, <3>4 DEF PasswordSet
    <2> QED BY <1>5, <1>6, <1>7, <1>8, <1>9, <2>4, <2>5, <2>6, <2>7, <2>8
<1> QED BY <1>3, <1>10, <1>11

\* What comes after each link.
LEMMA Links ==
    ASSUME NEW stage \in Linking
    PROVE  /\ Linked(stage) + 1 \in 1 .. 4
           /\ <<"2nd", "3rd", "4th", "answer">>[Linked(stage) + 1]
                \in {"2nd", "3rd", "4th", "answer"}
           /\ Linked(<<"2nd", "3rd", "4th", "answer">>[Linked(stage) + 1]) = Linked(stage) + 1
<1>1. CASE stage = "befriend" BY <1>1 DEF Linked
<1>2. CASE stage = "2nd" BY <1>2 DEF Linked
<1>3. CASE stage = "3rd" BY <1>3 DEF Linked
<1>4. CASE stage = "4th" BY <1>4 DEF Linked
<1> QED BY <1>1, <1>2, <1>3, <1>4 DEF Linking

\* Links are made for the first row of the address, and none is taken back.
LEMMA BefriendKeeps ==
    ASSUME Core, NEW t \in AckTask, Befriend(t) PROVE Core'
<1> USE TaskKinds, TaskAssumption, Names DEF Core, Inductive
<1> DEFINE n == Linked(at[t]) + 1
           next == <<"2nd", "3rd", "4th", "answer">>[n]
           u == users[EmailOf[t]][1]
<1>1. at[t] \in Linking /\ t \in RegisterTask /\ t \in Task
    BY DEF Befriend, Stages, AckStages, Linking
<1>2. n \in 1 .. 4 /\ next \in {"2nd", "3rd", "4th", "answer"} /\ Linked(next) = n
    BY <1>1, Links
<1>3. u \in RegisterTask /\ EmailOf[u] = EmailOf[t]
    <2>1. users[EmailOf[t]] # <<>> /\ users[EmailOf[t]] \in Seq(RegisterTask)
        BY <1>1 DEF Rows, TypeOK
    <2>2. 1 \in DOMAIN users[EmailOf[t]] BY <2>1
    <2> QED BY <2>2 DEF Rows
<1>4. at' = [at EXCEPT ![t] = next] /\ links' = [links EXCEPT ![u] = IF links[u] < n THEN n ELSE links[u]]
    BY DEF Befriend, Go
<1> HIDE DEF n, next, u
<1>5. at'[t] = next /\ \A v \in Task : v # t => at'[v] = at[v]
    BY <1>1, <1>4 DEF TypeOK
<1>6. links[u] \in 0 .. 4 BY <1>3 DEF TypeOK
<1>7. /\ links' \in [RegisterTask -> 0 .. 4] /\ n <= links'[u] /\ links[u] <= links'[u]
      /\ \A v \in RegisterTask : v # u => links'[v] = links[v]
    <2>1. links \in [RegisterTask -> 0 .. 4] BY DEF TypeOK
    <2>2. CASE links[u] < n BY <1>2, <1>3, <1>4, <1>6, <2>1, <2>2
    <2>3. CASE ~(links[u] < n) BY <1>2, <1>3, <1>4, <1>6, <2>1, <2>3
    <2> QED BY <2>2, <2>3
<1>8. TypeOK'
    <2>1. at' \in [Task -> {"new", "done", "nest", "store", "expire", "mail", "verify",
                            "hdel", "borrow", "lookup", "borrow2", "write", "befriend",
                            "2nd", "3rd", "4th", "answer"}]
        <3> DEFINE Places == {"new", "done", "nest", "store", "expire", "mail", "verify",
                              "hdel", "borrow", "lookup", "borrow2", "write", "befriend",
                              "2nd", "3rd", "4th", "answer"}
        <3>1. at \in [Task -> Places] BY DEF TypeOK
        <3>2. next \in Places BY <1>2
        <3> HIDE DEF Places
        <3>3. at' \in [Task -> Places] BY <1>4, <3>1, <3>2
        <3> QED BY <3>3 DEF Places
    <2> QED BY <1>7, <2>1 DEF Befriend, codeVars, mailVars, TypeOK
<1>9. Stages' BY <1>1, <1>2, <1>5 DEF Befriend, Stages, AckStages, Linking
<1>10. Meetings' BY <1>1, <1>2, <1>5, MeetingsStay DEF Befriend, Linking
<1>11. Issued' /\ Uses' /\ CodesExpire' /\ OneUse'
    BY <1>1, <1>2, <1>5, CodesStay DEF Befriend, Linking
<1>12. Mails' BY <1>1, <1>5, MailsStay DEF Befriend
<1>13. Rows'
    <2>1. users' = users BY DEF Befriend
    <2>2. ASSUME NEW e \in Email, NEW i \in DOMAIN users[e]
          PROVE  /\ EmailOf[users[e][i]] = e
                 /\ at'[users[e][i]] \in Linking \cup {"answer", "done"}
                 /\ Linked(at'[users[e][i]]) <= links'[users[e][1]]
        <3> DEFINE w == users[e][i]
                   first == users[e][1]
        <3>1. /\ w \in RegisterTask /\ EmailOf[w] = e /\ w \in Task
              /\ at[w] \in Linking \cup {"answer", "done"} /\ Linked(at[w]) <= links[first]
            BY DEF Rows
        <3>2. first \in RegisterTask /\ EmailOf[first] = e
            <4>1. users[e] \in Seq(RegisterTask) BY DEF TypeOK
            <4>2. 1 \in DOMAIN users[e] BY <4>1
            <4> QED BY <4>2 DEF Rows
        <3>3. links[first] \in 0 .. 4 /\ links'[first] \in 0 .. 4
            <4>1. links \in [RegisterTask -> 0 .. 4] BY DEF TypeOK
            <4> QED BY <1>7, <3>2, <4>1
        <3>4. links[first] <= links'[first]
            BY <1>7, <3>2, <3>3
        <3>5. CASE w = t
            <4>1. first = u BY <3>1, <3>5 DEF u
            <4>2. Linked(at'[w]) = n BY <1>2, <1>5, <3>5
            <4> QED BY <1>2, <1>5, <1>7, <3>1, <3>5, <4>1, <4>2 DEF Linking
        <3>6. CASE w # t
            <4>1. at'[w] = at[w] BY <1>5, <3>1, <3>6
            <4>2. Linked(at[w]) \in Int BY DEF Linked
            <4> QED BY <3>1, <3>3, <3>4, <4>1, <4>2
        <3> QED BY <3>5, <3>6
    <2>3. \A v \in RegisterTask : at'[v] \in Linking => users[EmailOf[v]] # <<>>
        BY <1>1, <1>5 DEF Rows
    <2> QED BY <2>1, <2>2, <2>3 DEF Rows
<1>14. Candidates' BY <1>1, <1>2, <1>5 DEF Befriend, Candidates
<1>15. OneAccount' BY DEF Befriend, OneAccount
<1>16. PasswordSet' BY <1>1, <1>5 DEF Befriend, PasswordSet
<1>17. Written' BY <1>1, <1>2, <1>5 DEF Befriend, Written, Linking
<1> QED BY <1>8, <1>9, <1>10, <1>11, <1>12, <1>13, <1>14, <1>15, <1>16, <1>17

\* The password of a reset, or of one that runs at the same time; or MySQL has refused it.
LEMMA UpdateKeeps ==
    ASSUME Core, NEW t \in FindTask, Update(t) PROVE Core'
<1> USE TaskKinds, TaskAssumption, Names DEF Core, Inductive
<1>1. at[t] = "write" /\ t \in Task /\ held[t] = 2 /\ held' = [held EXCEPT ![t] = held[t] - 1]
      /\ at' = [at EXCEPT ![t] = "answer"]
    BY DEF Update, Go, Stages
<1>2. at'[t] = "answer" /\ \A u \in Task : u # t => at'[u] = at[u]
    BY <1>1 DEF TypeOK
<1>3. /\ held' \in [Task -> 0 .. Depth] /\ held'[t] = 1
      /\ \A u \in Task : u # t => held'[u] = held[u]
    <2>1. held[t] - 1 = 1 /\ 1 \in 0 .. Depth BY <1>1, PoolAssumption
    <2>2. held \in [Task -> 0 .. Depth] BY DEF TypeOK
    <2> QED BY <1>1, <2>1, <2>2
<1>4. password' \in [RegisterTask -> AckTask \cup {NoTask}] /\ unheeded' \in SUBSET FindTask
    <2>1. password \in [RegisterTask -> AckTask \cup {NoTask}] /\ unheeded \in SUBSET FindTask
        BY DEF TypeOK
    <2>2. CASE unheeded' = unheeded \cup {t} /\ password' = password BY <2>1, <2>2
    <2>3. CASE unheeded' = unheeded /\ password' # password
        <3>1. password' = [u \in RegisterTask |->
                            IF \E i \in DOMAIN users[EmailOf[t]] : users[EmailOf[t]][i] = u
                            THEN t ELSE password[u]]
            BY <2>3 DEF Update
        <3>2. \A u \in RegisterTask : password'[u] \in AckTask \cup {NoTask} BY <2>1, <3>1
        <3> QED BY <2>1, <2>3, <3>1, <3>2
    <2>4. CASE unheeded' = unheeded /\ password' = password BY <2>1, <2>4
    <2> QED BY <2>2, <2>3, <2>4 DEF Update
<1>5. TypeOK'
    <2>1. at' \in [Task -> {"new", "done", "nest", "store", "expire", "mail", "verify",
                            "hdel", "borrow", "lookup", "borrow2", "write", "befriend",
                            "2nd", "3rd", "4th", "answer"}]
        BY <1>1 DEF TypeOK
    <2> QED BY <1>3, <1>4, <2>1 DEF Update, codeVars, mailVars, TypeOK
<1>6. Stages' BY <1>1, <1>2, <1>3 DEF Stages, AckStages, Linking
<1>7. Meetings' BY <1>1, <1>2, MeetingsStay DEF Update
<1>8. Issued' /\ Uses' /\ CodesExpire' /\ OneUse' BY <1>1, <1>2, CodesStay DEF Update
<1>9. Mails' BY <1>2, MailsStay DEF Update
<1>10. Rows'
    <2>1. UNCHANGED <<users, links>> BY DEF Update
    <2>2. \A u \in RegisterTask : u \in Task /\ u # t OBVIOUS
    <2>3. \A u \in RegisterTask : at'[u] = at[u] BY <1>2, <2>2
    <2> QED BY <2>1, <2>3 DEF Rows
<1>11. Candidates' BY <1>2 DEF Update, Candidates
<1>12. OneAccount' BY DEF Update, OneAccount
<1>14. Written'
    <2>1. t \notin unheeded /\ \A u \in RegisterTask : password[u] # t
        BY <1>1 DEF Written, Linking
    <2>2. \A u \in RegisterTask : password'[u] \in {password[u], t} BY DEF Update
    <2>3. \/ unheeded' = unheeded
          \/ unheeded' = unheeded \cup {t} /\ password' = password
        BY DEF Update
    <2>4. \A u \in AckTask : at[u] \in Linking \cup {"answer", "done"} => at'[u] = at[u]
        BY <1>1, <1>2 DEF Linking
    <2>5. \A u \in unheeded' : at'[u] \in {"answer", "done"}
        BY <1>2, <2>3, <2>4 DEF Written
    <2>6. ASSUME NEW u \in RegisterTask, password'[u] # NoTask
          PROVE  password'[u] \notin unheeded' /\ at'[password'[u]] \in Linking \cup {"answer", "done"}
        <3>1. CASE password'[u] = password[u] BY <2>1, <2>3, <2>4, <2>6, <3>1 DEF Written
        <3>2. CASE password'[u] # password[u]
            <4>1. password'[u] = t /\ unheeded' = unheeded BY <2>2, <2>3, <3>2
            <4> QED BY <1>2, <2>1, <4>1
        <3> QED BY <3>1, <3>2
    <2> QED BY <2>5, <2>6 DEF Written
<1>13. PasswordSet'
    <2>1. users' = users /\ verdict' = verdict /\ met' = met BY DEF Update
    <2> SUFFICES ASSUME NEW u \in FindTask, at'[u] = "answer", verdict[u] = "ok",
                        u \notin unheeded', NEW i \in DOMAIN users[EmailOf[u]]
                 PROVE  password'[users[EmailOf[u]][i]] \in {u} \cup met[u]
        BY <1>14, <2>1, TaskAssumption DEF PasswordSet, Written
    <2>2. users[EmailOf[u]][i] \in RegisterTask OBVIOUS
    <2>3. \/ password'[users[EmailOf[u]][i]] = t
          \/ /\ password'[users[EmailOf[u]][i]] = password[users[EmailOf[u]][i]]
             /\ EmailOf[u] # EmailOf[t]
          \/ password' = password /\ unheeded' = unheeded \cup {t}
        BY <2>2 DEF Update
    <2>4. CASE u = t BY <2>1, <2>3, <2>4
    <2>5. CASE u # t
        <3>1. t \in met[u] BY <1>1, <1>2, <2>5, Met DEF Running
        <3>2. password[users[EmailOf[u]][i]] \in {u} \cup met[u]
            <4>1. u \notin unheeded BY <2>1 DEF Update
            <4> QED BY <1>2, <2>5, <4>1 DEF PasswordSet
        <3>3. CASE password' = password BY <3>2, <3>3
        <3>4. CASE password' # password BY <2>3, <3>1, <3>2, <3>4
        <3> QED BY <3>3, <3>4
    <2> QED BY <2>4, <2>5
<1> QED BY <1>5, <1>6, <1>7, <1>8, <1>9, <1>10, <1>11, <1>12, <1>13, <1>14

LEMMA AnswerKeeps ==
    ASSUME Core, NEW t \in AckTask, Answer(t) PROVE Core'
<1> USE TaskKinds, TaskAssumption, Names DEF Core, Inductive
<1>1. at[t] = "answer" /\ t \in Task /\ at' = [at EXCEPT ![t] = "done"]
      /\ held' = [held EXCEPT ![t] = 0] /\ verdict' = [verdict EXCEPT ![t] = "none"]
    BY DEF Answer, End, Go, Judge
<1>2. at'[t] = "done" /\ \A u \in Task : u # t => at'[u] = at[u]
    BY <1>1 DEF TypeOK
<1>3. /\ held' \in [Task -> 0 .. Depth] /\ \A u \in Task : u # t => held'[u] = held[u]
    <2>1. 0 \in 0 .. Depth BY PoolAssumption
    <2>2. held \in [Task -> 0 .. Depth] BY DEF TypeOK
    <2> QED BY <1>1, <2>1, <2>2
<1>4. TypeOK'
    BY <1>1, <1>3 DEF Answer, codeVars, mailVars, userVars, TypeOK
<1>5. Stages' BY <1>1, <1>2, <1>3 DEF Stages
<1>6. Meetings' BY <1>1, <1>2, MeetingsStay DEF Answer
<1>7. Issued' /\ Uses' /\ CodesExpire' /\ OneUse' BY <1>1, <1>2, CodesStay DEF Answer
<1>8. Mails' BY <1>2, MailsStay DEF Answer
<1>9. Rows' /\ Candidates' /\ Written' /\ OneAccount' /\ PasswordSet'
    <2>1. \A u \in FindTask : at'[u] = "answer" /\ verdict'[u] = "ok"
                                => at[u] = "answer" /\ verdict[u] = "ok"
        BY <1>1, <1>2 DEF TypeOK
    <2> QED BY <1>1, <1>2, <2>1, AccountsStay DEF Answer, Linking
<1> QED BY <1>4, <1>5, <1>6, <1>7, <1>8, <1>9

\* A handler of another kind borrows up to Depth connections and gives them back.
LEMMA NestKeeps ==
    ASSUME Core, NEW t \in OtherTask, Nest(t) PROVE Core'
<1> USE TaskKinds, TaskAssumption, Names DEF Core, Inductive
<1>1. at[t] = "nest" /\ t \in Task BY DEF Nest
<1>2. \/ held[t] < Depth /\ held' = [held EXCEPT ![t] = held[t] + 1] /\ at' = at
      \/ held' = [held EXCEPT ![t] = 0] /\ at' = [at EXCEPT ![t] = "done"]
    BY DEF Nest, Borrow, End, Go
<1>3. at'[t] \in {"nest", "done"} /\ \A u \in Task : u # t => at'[u] = at[u]
    BY <1>1, <1>2 DEF TypeOK
<1>4. held' \in [Task -> 0 .. Depth] /\ \A u \in Task : u # t => held'[u] = held[u]
    <2>1. held \in [Task -> 0 .. Depth] BY DEF TypeOK
    <2>2. CASE held[t] < Depth /\ held' = [held EXCEPT ![t] = held[t] + 1]
        <3>1. held[t] + 1 \in 0 .. Depth BY <1>1, <2>1, <2>2, PoolAssumption
        <3> QED BY <2>1, <2>2, <3>1
    <2>3. CASE held' = [held EXCEPT ![t] = 0]
        <3>1. 0 \in 0 .. Depth BY PoolAssumption
        <3> QED BY <2>1, <2>3, <3>1
    <2> QED BY <1>2, <2>2, <2>3
<1>5. TypeOK'
    <2>1. at' \in [Task -> {"new", "done", "nest", "store", "expire", "mail", "verify",
                            "hdel", "borrow", "lookup", "borrow2", "write", "befriend",
                            "2nd", "3rd", "4th", "answer"}]
        <3>1. at' = at \/ at' = [at EXCEPT ![t] = "done"] BY <1>2
        <3>2. at \in [Task -> {"new", "done", "nest", "store", "expire", "mail", "verify",
                               "hdel", "borrow", "lookup", "borrow2", "write", "befriend",
                               "2nd", "3rd", "4th", "answer"}]
            BY DEF TypeOK
        <3> QED BY ONLY <3>1, <3>2
    <2>2. held' \in [Task -> 0 .. Depth] BY ONLY <1>4
    <2>3. TypeOK /\ UNCHANGED <<codeVars, input, verdict, mailVars, userVars, crashed, used, met>>
        BY DEF Nest
    <2> QED BY ONLY <2>1, <2>2, <2>3 DEF codeVars, mailVars, userVars, TypeOK
<1>6. Stages' BY <1>1, <1>3, <1>4 DEF Stages
<1>7. Meetings' BY <1>1, <1>3, MeetingsStay DEF Nest
<1>8. Issued' /\ Uses' /\ CodesExpire' /\ OneUse' BY <1>1, <1>3, CodesStay DEF Nest
<1>9. Mails' BY <1>1, <1>3, MailsStay DEF Nest
<1>10. Rows' /\ Candidates' /\ Written' /\ OneAccount' /\ PasswordSet'
    BY <1>1, <1>3, AccountsStay DEF Nest
<1> QED BY <1>5, <1>6, <1>7, <1>8, <1>9, <1>10
-----------------------------------------------------------------------------
LEMMA NextKeeps == ASSUME Core, Next PROVE Core'
<1>1. ASSUME NEW t \in Task, Take(t) PROVE Core'
    BY <1>1, TakeKeeps
<1>2. ASSUME NEW t \in CodeTask, MailStep(t) PROVE Core'
    BY <1>2, StoreCodeKeeps, ExpireKeeps, PayloadSourceKeeps, SendFailsKeeps DEF MailStep
<1>3. ASSUME NEW t \in AckTask, AckStep(t) PROVE Core'
    <2>1. CASE Verify(t) BY <2>1, VerifyKeeps
    <2>2. CASE Hdel(t) BY <2>2, HdelKeeps
    <2>3. CASE GetConnection(t) BY <2>3, GetConnectionKeeps
    <2>4. CASE Lookup(t) BY <2>4, LookupKeeps
    <2>5. CASE InputAccount(t) BY <2>5, InputAccountKeeps DEF InputAccount
    <2>6. CASE Befriend(t) BY <2>6, BefriendKeeps
    <2>7. CASE Update(t) BY <2>7, UpdateKeeps DEF Update
    <2>8. CASE Answer(t) BY <2>8, AnswerKeeps
    <2> QED BY <1>3, <2>1, <2>2, <2>3, <2>4, <2>5, <2>6, <2>7, <2>8 DEF AckStep
<1>4. ASSUME NEW t \in OtherTask, Nest(t) PROVE Core'
    BY <1>4, NestKeeps
<1>5. ASSUME NEW e \in Email, Expired(e) PROVE Core'
    BY <1>5, ExpiredKeeps
<1> QED BY <1>1, <1>2, <1>3, <1>4, <1>5 DEF Next, TaskStep

LEMMA StutterKeeps == ASSUME Core, UNCHANGED vars PROVE Core'
BY DEF vars, codeVars, mailVars, userVars, Core, Inductive, TypeOK, Stages, Meetings, Running,
       Issued, Uses, Rows, Candidates, Written, Mails, CodesExpire, OneUse, OneAccount,
       PasswordSet

\* A mail that is alone, and an account that is complete.
LEMMA CoreSuffices == Core => RegistrationInv
<1> SUFFICES ASSUME Core PROVE RegistrationInv OBVIOUS
<1> USE DEF Core, Inductive
<1>1. MailAlone
    <2>1. \A t \in CodeTask : TextLength[EmailOf[t]] # 0
        BY TaskKinds, TaskAssumption
    <2> SUFFICES ASSUME NEW t \in CodeTask, at[t] = "mail", met[t] \cap CodeTask = {}, ~spilt
                 PROVE  (whole[t] = 1) = (pos # 0)
        BY DEF MailAlone
    <2>2. CASE pos = 0 BY <2>2 DEF Mails
    <2>3. CASE pos # 0 BY <2>3 DEF Mails
    <2> QED BY <2>2, <2>3
<1>2. Befriended
    <2> SUFFICES ASSUME NEW e \in Email, users[e] # <<>>, links[users[e][1]] # 4
                 PROVE  \E t \in RegisterTask : EmailOf[t] = e /\ at[t] \in Linking
        BY DEF Befriended
    <2>1. users[e] \in Seq(RegisterTask) BY DEF TypeOK
    <2>2. 1 \in DOMAIN users[e] /\ users[e][1] \in RegisterTask BY <2>1
    <2>3. links[users[e][1]] \in 0 .. 4 BY <2>2 DEF TypeOK
    <2>4. Linked(at[users[e][1]]) <= links[users[e][1]] BY <2>2 DEF Rows
    <2>5. Linked("answer") = 4 /\ Linked("done") = 4 BY DEF Linked
    <2>6. at[users[e][1]] \notin {"answer", "done"} BY <2>3, <2>4, <2>5
    <2> QED BY <2>2, <2>6 DEF Rows
<1> QED BY <1>1, <1>2 DEF RegistrationInv

\* Codes, mails, accounts and passwords (Register.cc): every part of RegistrationInv, for
\* any messages, addresses and codes, any number of workers and any depth.
THEOREM RegistrationSafe == Spec => []RegistrationInv
<1>1. Init => Core BY Initially
<1>2. Core /\ [Next]_vars => Core' BY NextKeeps, StutterKeeps
<1>3. Core => RegistrationInv BY CoreSuffices
<1> QED BY <1>1, <1>2, <1>3, PTL DEF Spec
-----------------------------------------------------------------------------
(* NeverAllWaiting.  The connections that are lent are counted as a set: a  *)
(* worker that waits holds at most Depth - 1 of them, so that, with more    *)
(* connections than all the workers hold while they wait, one is free.      *)

\* No more tasks run than there are workers, a task that does not run holds
\* nothing, and no connection is lent that the pool does not have.
Loans ==
    /\ IsFiniteSet(Running) /\ Cardinality(Running) <= Workers
    /\ \A t \in Task : t \notin Running => held[t] = 0
    /\ IsFiniteSet(Lent) /\ Cardinality(Lent) <= PoolSize

\* A task that runs on, and gives nothing back or borrows nothing.
LEMMA LoansShrink ==
    ASSUME TypeOK, Loans, NEW t \in Task, NEW n \in 0 .. Depth, n <= held[t],
           held' = [held EXCEPT ![t] = n],
           \/ Running' = Running /\ t \in Running
           \/ Running' = Running \ {t} /\ n = 0
    PROVE  Loans'
<1>1. held'[t] = n /\ \A u \in Task : u # t => held'[u] = held[u]
    BY DEF TypeOK
<1>2. Lent' \subseteq Lent
    BY <1>1 DEF Lent, TypeOK
<1>3. IsFiniteSet(Lent') /\ Cardinality(Lent') <= Cardinality(Lent)
    BY <1>2, FS_Subset DEF Loans
<1>4. Cardinality(Lent') <= PoolSize
    <2>1. Cardinality(Lent) \in Nat /\ Cardinality(Lent') \in Nat
        BY <1>3, FS_CardinalityType DEF Loans
    <2> QED BY <1>3, <2>1, PoolAssumption DEF Loans
<1>5. IsFiniteSet(Running') /\ Cardinality(Running') <= Workers
    <2>1. Running' \subseteq Running
        OBVIOUS
    <2>2. IsFiniteSet(Running') /\ Cardinality(Running') <= Cardinality(Running)
        BY <2>1, FS_Subset DEF Loans
    <2>3. Cardinality(Running) \in Nat /\ Cardinality(Running') \in Nat
        BY <2>2, FS_CardinalityType DEF Loans
    <2> QED BY <2>2, <2>3, PoolAssumption DEF Loans
<1>6. \A u \in Task : u \notin Running' => held'[u] = 0
    BY <1>1 DEF Loans
<1> QED BY <1>3, <1>4, <1>5, <1>6 DEF Loans

\* A task borrows a connection.
LEMMA LoansGrow ==
    ASSUME TypeOK, Loans, TypeOK', NEW t \in Running, Borrow(t), Running' = Running
    PROVE  Loans'
<1>1. t \in Task /\ held[t] \in Nat /\ held[t] + 1 \in 1 .. Depth
    BY DEF Running, Borrow, TypeOK
<1>2. held'[t] = held[t] + 1 /\ \A u \in Task : u # t => held'[u] = held[u]
    BY <1>1 DEF Borrow, TypeOK
<1>3. Lent' = Lent \cup {<<t, held[t] + 1>>}
    BY <1>1, <1>2 DEF Lent, TypeOK
<1>4. IsFiniteSet(Lent') /\ Cardinality(Lent') <= Cardinality(Lent) + 1
    <2>1. IsFiniteSet(Lent) /\ Cardinality(Lent) \in Nat
        BY FS_CardinalityType DEF Loans
    <2>2. PICK S, x : S = Lent /\ x = <<t, held[t] + 1>>
        OBVIOUS
    <2>3. /\ IsFiniteSet(S \cup {x})
          /\ Cardinality(S \cup {x}) = IF x \in S THEN Cardinality(S) ELSE Cardinality(S) + 1
        BY <2>1, <2>2, FS_AddElement
    <2>4. Lent' = S \cup {x}
        BY <1>3, <2>2
    <2> QED BY <2>1, <2>2, <2>3, <2>4
<1>5. Cardinality(Lent') <= PoolSize
    <2>1. Cardinality(Lent) \in Nat /\ Cardinality(Lent') \in Nat
        BY <1>4, FS_CardinalityType DEF Loans
    <2> QED BY <1>4, <2>1, PoolAssumption DEF Loans, Borrow, Free
<1> QED BY <1>2, <1>4, <1>5 DEF Loans

\* A worker takes a task only when one is idle.
LEMMA LoansTaken ==
    ASSUME TypeOK, Loans, NEW t \in Task, Take(t)
    PROVE  Loans'
<1>1. /\ at[t] = "new" /\ Cardinality(Running) < Workers /\ held' = held
      /\ at' = [at EXCEPT ![t] = FirstStep(t)] /\ FirstStep(t) \notin {"new", "done"}
    BY DEF Take, Go, FirstStep
<1>2. Running' = Running \cup {t} /\ t \notin Running
    BY <1>1 DEF Running, TypeOK
<1>3. Lent' = Lent
    BY <1>1 DEF Lent
<1>4. IsFiniteSet(Running') /\ Cardinality(Running') = Cardinality(Running) + 1
    <2>1. PICK S : S = Running
        OBVIOUS
    <2>2. IsFiniteSet(S \cup {t}) /\ Cardinality(S \cup {t}) = Cardinality(S) + 1
        BY <1>2, <2>1, FS_AddElement DEF Loans
    <2> QED BY <1>2, <2>1, <2>2
<1>5. Cardinality(Running) \in Nat
    BY FS_CardinalityType DEF Loans
<1> QED BY <1>1, <1>2, <1>3, <1>4, <1>5, PoolAssumption DEF Loans

LEMMA LoansKept == TypeOK /\ TypeOK' /\ Stages /\ Loans /\ [Next]_vars => Loans'
<1> SUFFICES ASSUME TypeOK, TypeOK', Stages, Loans, [Next]_vars PROVE Loans'
    OBVIOUS
<1>1. ASSUME Running' = Running, held' = held PROVE Loans'
    BY <1>1 DEF Loans, Lent
<1>2. ASSUME NEW t \in Task, at[t] \notin {"new", "done"}, NEW s, s \notin {"new", "done"},
             at' = [at EXCEPT ![t] = s]
      PROVE  Running' = Running /\ t \in Running
    BY <1>2 DEF Running, TypeOK
<1>3. ASSUME NEW t \in Task, at[t] \notin {"new", "done"}, End(t) PROVE Loans'
    <2>1. Running' = Running \ {t}
        BY <1>3 DEF Running, End, Go, TypeOK
    <2>2. held' = [held EXCEPT ![t] = 0] /\ held[t] \in 0 .. Depth
        BY <1>3 DEF End, TypeOK
    <2>3. 0 \in 0 .. Depth /\ 0 <= held[t]
        BY <2>2, PoolAssumption
    <2> QED BY <2>1, <2>2, <2>3, LoansShrink
<1>4. ASSUME NEW t \in CodeTask, MailStep(t) PROVE Loans'
    <2>1. t \in Task
        BY TaskKinds
    <2>2. CASE StoreCode(t)
        BY <1>1, <1>2, <2>1, <2>2 DEF StoreCode, Go
    <2>3. CASE Expire(t)
        BY <1>1, <1>2, <2>1, <2>3 DEF Expire, Go
    <2>4. CASE PayloadSource(t)
        <3>1. at[t] = "mail" /\ (End(t) \/ UNCHANGED <<held, at>>)
            BY <2>4 DEF PayloadSource
        <3>2. CASE UNCHANGED <<held, at>>
            BY <1>1, <3>2 DEF Running
        <3> QED BY <1>3, <2>1, <3>1, <3>2
    <2>5. CASE SendFails(t)
        BY <1>3, <2>1, <2>5 DEF SendFails
    <2> QED BY <1>4, <2>2, <2>3, <2>4, <2>5 DEF MailStep
<1>5. ASSUME NEW t \in OtherTask, Nest(t) PROVE Loans'
    <2>1. t \in Task /\ at[t] = "nest" /\ t \in Running
        BY <1>5, TaskKinds DEF Nest, Running
    <2>2. CASE Borrow(t) /\ UNCHANGED at
        BY <2>1, <2>2, LoansGrow DEF Running
    <2>3. CASE End(t)
        BY <1>3, <2>1, <2>3
    <2> QED BY <1>5, <2>2, <2>3 DEF Nest
<1>6. ASSUME NEW t \in AckTask, AckStep(t) PROVE Loans'
    <2>1. t \in Task
        BY TaskKinds
    <2>2. CASE Verify(t)
        <3>1. CASE at' = at
            BY <1>1, <2>2, <3>1 DEF Verify, Running
        <3>2. CASE at' # at
            <4>1. at[t] = "verify" /\ held' = held /\ (Go(t, "hdel") \/ Go(t, "borrow"))
                BY <2>2, <3>2 DEF Verify
            <4> QED BY <1>1, <1>2, <2>1, <4>1 DEF Go
        <3> QED BY <3>1, <3>2
    <2>3. CASE Hdel(t)
        BY <1>1, <1>2, <2>1, <2>3 DEF Hdel, Go
    <2>4. CASE GetConnection(t)
        <3>1. Running' = Running /\ t \in Running
            BY <1>2, <2>1, <2>4 DEF GetConnection, Go
        <3> QED BY <2>4, <3>1, LoansGrow DEF GetConnection
    <2>5. CASE Lookup(t)
        <3>1. at[t] = "lookup" /\ held' = held /\ (Go(t, "answer") \/ Go(t, "borrow2"))
            BY <2>5 DEF Lookup
        <3> QED BY <1>1, <1>2, <2>1, <3>1 DEF Go
    <2>6. CASE InputAccount(t) \/ Update(t)
        <3>1. /\ at[t] = "write" /\ held' = [held EXCEPT ![t] = @ - 1]
              /\ Go(t, "befriend") \/ Go(t, "answer")
            BY <2>6 DEF InputAccount, Update
        <3>2. Running' = Running /\ t \in Running
            BY <1>2, <2>1, <3>1 DEF Go
        <3>3. held[t] = 2
            BY <2>1, <3>1 DEF Stages
        <3>4. 1 \in 0 .. Depth /\ 1 <= held[t] /\ held' = [held EXCEPT ![t] = 1]
            BY <3>1, <3>3, PoolAssumption
        <3> QED BY <2>1, <3>2, <3>3, <3>4, LoansShrink
    <2>7. CASE Befriend(t)
        <3>1. PICK s \in {"2nd", "3rd", "4th", "answer"} : Go(t, s)
            BY <2>7 DEF Befriend, Linking, Linked
        <3>2. at[t] \notin {"new", "done"} /\ held' = held
            BY <2>7 DEF Befriend, Linking
        <3> QED BY <1>1, <1>2, <2>1, <3>1, <3>2 DEF Go
    <2>8. CASE Answer(t)
        BY <1>3, <2>1, <2>8 DEF Answer
    <2> QED BY <1>6, <2>2, <2>3, <2>4, <2>5, <2>6, <2>7, <2>8 DEF AckStep
<1>7. ASSUME NEW t \in Task, Take(t) PROVE Loans'
    BY <1>7, LoansTaken
<1>8. ASSUME NEW e \in Email, Expired(e) PROVE Loans'
    BY <1>1, <1>8 DEF Expired, Running
<1>9. CASE UNCHANGED vars
    BY <1>1, <1>9 DEF vars, Running
<1> QED BY <1>4, <1>5, <1>6, <1>7, <1>8, <1>9 DEF Next, TaskStep

\* When all the tasks that run wait, they hold at most Depth - 1 connections each.
LEMMA EnoughConnections == TypeOK /\ Stages /\ Loans => NeverAllWaiting
<1> SUFFICES ASSUME TypeOK, Stages, Loans PROVE NeverAllWaiting
    OBVIOUS
<1>1. Cardinality(Lent) \in Nat /\ Free \in Int /\ Free >= 0
    <2>1. Cardinality(Lent) \in Nat
        BY FS_CardinalityType DEF Loans
    <2> QED BY <2>1, PoolAssumption DEF Free, Loans
<1>2. ASSUME \A t \in Running : Waits(t) PROVE Free > 0
    <2>1. \A t \in Running : held[t] <= Depth - 1
        <3> SUFFICES ASSUME NEW t \in Running PROVE held[t] <= Depth - 1
            OBVIOUS
        <3>1. t \in Task /\ held[t] \in 0 .. Depth
            BY DEF TypeOK, Running
        <3>2. CASE at[t] = "borrow"
            BY <3>1, <3>2, PoolAssumption DEF Stages
        <3>3. CASE at[t] = "borrow2"
            BY <3>1, <3>3, PoolAssumption DEF Stages
        <3>4. CASE held[t] < Depth
            BY <3>1, <3>4, PoolAssumption
        <3> QED BY <1>2, <3>2, <3>3, <3>4 DEF Waits
    <2> DEFINE K == 1 .. (Depth - 1)
    <2>2. Lent \subseteq Running \X K
        <3> SUFFICES ASSUME NEW p \in Lent PROVE p \in Running \X K
            OBVIOUS
        <3>1. PICK t \in Task, i \in 1 .. Depth : p = <<t, i>> /\ i <= held[t]
            BY DEF Lent
        <3>2. held[t] # 0
            BY <3>1 DEF TypeOK
        <3>3. t \in Running
            BY <3>2 DEF Loans
        <3>4. i \in K
            BY <2>1, <3>1, <3>3, PoolAssumption DEF TypeOK
        <3> QED BY <3>1, <3>3, <3>4
    <2>3. IsFiniteSet(K) /\ Cardinality(K) = Depth - 1
        BY FS_Interval, PoolAssumption
    <2>4. /\ IsFiniteSet(Running \X K)
          /\ Cardinality(Running \X K) = Cardinality(Running) * (Depth - 1)
        BY <2>3, FS_Product DEF Loans
    <2>5. Cardinality(Lent) <= Cardinality(Running) * (Depth - 1)
        BY <2>2, <2>4, FS_Subset
    <2>6. Cardinality(Running) * (Depth - 1) <= Workers * (Depth - 1)
        <3>1. Cardinality(Running) \in Nat
            BY FS_CardinalityType DEF Loans
        <3> QED BY <3>1, PoolAssumption DEF Loans
    <2>7. Cardinality(Running) * (Depth - 1) \in Nat
        BY FS_CardinalityType, PoolAssumption DEF Loans
    <2> QED BY <1>1, <2>5, <2>6, <2>7, PoolAssumption DEF Free
<1> QED BY <1>1, <1>2 DEF NeverAllWaiting

\* However many handlers nest however many connections: with more of them than the
\* workers hold while they all wait, the workers never all wait for each other.
THEOREM NoPoolDeadlock == Spec => []NeverAllWaiting
<1>1. Init => Loans
    <2> SUFFICES ASSUME Init PROVE Loans
        OBVIOUS
    <2>1. Running = {} /\ Lent = {}
        BY PoolAssumption DEF Init, Running, Lent
    <2> QED BY <2>1, FS_EmptySet, PoolAssumption DEF Loans, Init
<1>2. Init => Core
    BY Initially
<1>3. Core /\ [Next]_vars => Core'
    BY NextKeeps, StutterKeeps
<1>4. Core => TypeOK /\ Stages
    BY DEF Core, Inductive
<1> QED BY <1>1, <1>2, <1>3, <1>4, LoansKept, EnoughConnections, PTL DEF Spec
-----------------------------------------------------------------------------
(* Relations: the commands that the handler of a request may have left. *)

Dissolution(g) ==
    {Del("group", g), Delete("group_members", {g} \X User \X Role),
     Delete("group_messages", {g} \X User), Delete("groups", {g} \X User)}

Removal(g, u) == {Srem("group", g, u), Delete("group_members", Member(g, u))}

Statements(u) ==
    {Del("blacklist", u),
     Delete("friend_requests", {u} \X User), Delete("friend_requests", User \X {u}),
     Delete("group_requests", {u} \X User \X Group),
     Delete("group_requests", User \X {u} \X Group),
     Delete("friends", {u} \X User), Delete("friends", User \X {u}), Del("friends", u),
     [do |-> "unfriend", by |-> u],
     Delete("group_members", Group \X {u} \X Role),
     [do |-> "ungroup", by |-> u],
     Delete("users", {u})}

Killing(u) ==
    Statements(u)
      \cup {[do |-> "GroupExiter", group |-> g, by |-> u] : g \in Group}
      \cup (UNION {Dissolution(g) \cup Removal(g, u) : g \in Group})
      \cup {Srem("friends", v, u) : v \in User}

Commands(r) ==
    CASE r.do = "FriendAdder" ->
             {Forward(r.to, <<"friend", r.by>>), Insert("friend_requests", <<r.by, r.to>>)}
      [] r.do = "FriendAddResponser" ->
             {Sadd("friends", r.to, r.by), Sadd("friends", r.by, r.to),
              Insert("friends", <<r.to, r.by>>), Insert("friends", <<r.by, r.to>>),
              Srem("blacklist", r.to, r.by), Srem("blacklist", r.by, r.to),
              Delete("friend_requests", {<<r.to, r.by>>})}
      [] r.do = "FriendDeleter" ->
             {Srem("friends", r.by, r.to), Srem("friends", r.to, r.by),
              Delete("friends", {<<r.by, r.to>>}), Delete("friends", {<<r.to, r.by>>})}
      [] r.do = "FriendBlocker" -> {Sadd("blacklist", r.by, r.to)}
      [] r.do = "FriendUnblocker" -> {Srem("blacklist", r.by, r.to)}
      [] r.do = "GroupCreater" ->
             {Insert("groups", <<r.group, r.by>>), Sadd("group", r.group, r.by),
              Insert("group_members", <<r.group, r.by, "owner">>)}
      [] r.do = "GroupAdder" ->
             UNION {{[do |-> "ask", admin |-> a, by |-> r.by, group |-> r.group],
                     Forward(a, <<"group", r.group, r.by>>),
                     Insert("group_requests", <<r.by, a, r.group>>)} : a \in User}
      [] r.do = "GroupAddResponser" ->
             {Sadd("group", r.group, r.to), Insert("group_members", <<r.group, r.to, "member">>),
              Delete("group_requests", {r.to} \X User \X {r.group}),
              [do |-> "notice", group |-> r.group, user |-> r.to]}
      [] r.do = "GroupExiter" -> Dissolution(r.group) \cup Removal(r.group, r.by)
      [] r.do = "MemberKicker" -> Removal(r.group, r.to)
      [] r.do = "AdminAdder" -> {SetRole(r.group, r.to, "admin")}
      [] r.do = "AdminRemover" -> {SetRole(r.group, r.to, "member")}
      [] r.do = "GroupChatter" -> {Insert("group_messages", <<r.group, r.by>>)}
      [] r.do = "AccountKiller" -> Killing(r.by)

Fresh(k) == task[k].todo = <<task[k].req>>

\* The commands that a worker has left.
Left(k) == ToSet(task[k].todo)

Creation(r) ==
    <<Insert("groups", <<r.group, r.by>>), Sadd("group", r.group, r.by),
      Insert("group_members", <<r.group, r.by, "owner">>)>>

\* A task has all of its request, or commands that its handler has left.
Programs ==
    /\ task \in [Worker -> {Idle} \cup
           [req : Request, todo : Seq(Request \cup UNION {Commands(r) : r \in Request}),
            alone : BOOLEAN]]
    /\ \A k \in Open :
          /\ task[k].todo # <<>>
          /\ Fresh(k) \/ Left(k) \subseteq Commands(task[k].req)
          /\ task[k].req.do = "GroupCreater" =>
                \/ Fresh(k)
                \/ task[k].todo = Creation(task[k].req)
                \/ task[k].todo = Tail(Creation(task[k].req))
                \/ task[k].todo = Tail(Tail(Creation(task[k].req)))

\* Two tasks that work on one friendship or membership have clashed.
Clashed == \A j, k \in Open : j # k => Touched(task[j].req) \cap Touched(task[k].req) \subseteq clash
-----------------------------------------------------------------------------
(* What is written of a friendship, or of a membership. *)

Kind == {"friends", "group"}
Pairs(kind) == IF kind = "friends" THEN User \X User ELSE Group \X User

\* The pairs that MySQL has.
Stored(kind) ==
    IF kind = "friends" THEN mysql.friends ELSE {<<m[1], m[2]>> : m \in mysql.group_members}

\* Both ends exist.
Real(kind, p) ==
    /\ p[2] \in mysql.users
    /\ IF kind = "friends" THEN p[1] \in mysql.users ELSE GroupExists(p[1])

Puts(c, kind, p) == c.do = "sadd" /\ c.set = kind /\ c.pair = p

Drops(c, kind, p) ==
    \/ c.do = "srem" /\ c.set = kind /\ p \in c.pairs
    \/ c.do = (IF kind = "friends" THEN "unfriend" ELSE "ungroup") /\ c.by = p[2]

Stores(c, kind, p) ==
    /\ c.do = "insert"
    /\ IF kind = "friends" THEN c.table = "friends" /\ c.row = p
       ELSE c.table = "group_members" /\ <<c.row[1], c.row[2]>> = p

Clears(c, kind, p) ==
    /\ c.do = "delete"
    /\ IF kind = "friends" THEN c.table = "friends" /\ p \in c.rows
       ELSE c.table = "group_members" /\ \A role \in Role : <<p[1], p[2], role>> \in c.rows

\* What a set of commands does to a pair.
Adds(C, kind, p)     == \E c \in C : Puts(c, kind, p)
Removes(C, kind, p)  == \E c \in C : Drops(c, kind, p)
Inserts(C, kind, p)  == \E c \in C : Stores(c, kind, p)
Deletes(C, kind, p)  == \E c \in C : Clears(c, kind, p)

\* What Redis and MySQL have of a pair after the commands C, if nobody else writes it.
CachedAtEnd(C, kind, p) == Adds(C, kind, p) \/ (p \in redis[kind] /\ ~Removes(C, kind, p))
StoredAtEnd(C, kind, p) == Inserts(C, kind, p) \/ (p \in Stored(kind) /\ ~Deletes(C, kind, p))

Same(C, kind, p) == Real(kind, p) => (CachedAtEnd(C, kind, p) <=> StoredAtEnd(C, kind, p))

Mirror(p) == <<p[2], p[1]>>

Even(C, p) ==
    Real("friends", p) => (StoredAtEnd(C, "friends", p) <=> StoredAtEnd(C, "friends", Mirror(p)))

Good(C, kind, p) == Same(C, kind, p) /\ (kind = "friends" => Even(C, p))

Untouched(p) == \A k \in Open : p \notin Touched(task[k].req)

\* Whoever works on a pair will leave copy and table alike, and so does nobody.
Agreement ==
    \A kind \in Kind : \A p \in Pairs(kind) \ clash :
        /\ Untouched(p) => Good({}, kind, p)
        /\ \A k \in Open : p \in Touched(task[k].req) => Good(Left(k), kind, p)
-----------------------------------------------------------------------------
(* Groups *)

Creates(r, g) == r.do = "GroupCreater" /\ r.group = g

Insertion(r) == Insert("groups", <<r.group, r.by>>)

\* The row of the group is still to be written.
Unborn(g) ==
    \/ \E r \in wanted : Creates(r, g)
    \/ \E k \in Open :
         /\ Creates(task[k].req, g)
         /\ Fresh(k) \/ Insertion(task[k].req) \in Left(k)

WritesMember(c, g) ==
    \/ c.do = "insert" /\ c.table = "group_members" /\ c.row[1] = g
    \/ c.do = "sadd" /\ c.set = "group" /\ c.pair[1] = g
    \/ c.do = "update" /\ c.group = g

NothingBefore ==
    \A g \in Group : Unborn(g) =>
        /\ ~GroupExists(g)
        /\ \A u \in User : <<g, u>> \notin redis.group
        /\ \A k \in Open : \A c \in Left(k) : WritesMember(c, g) => Creates(task[k].req, g)

OneCreator ==
    \A g \in Group : \A k \in Open : Creates(task[k].req, g) =>
        /\ \A r \in wanted : ~Creates(r, g)
        /\ \A j \in Open : Creates(task[j].req, g) => j = k

\* A group has one creator, who alone may own it, and whose role nobody changes.
Creators ==
    /\ \A r, q \in mysql.groups : r[1] = q[1] => r = q
    /\ \A k \in Open : \A r \in mysql.groups :
          Creates(task[k].req, r[1]) => r[2] = task[k].req.by
    /\ \A m \in mysql.group_members : m[3] = "owner" => <<m[1], m[2]>> \in mysql.groups
    /\ \A k \in Open : \A c \in Left(k) :
          c.do = "update" => <<c.group, c.user>> \notin mysql.groups

StoresIn(c, g) == c.do = "insert" /\ c.table = "group_members" /\ c.row[1] = g

NoMembers(g) == \A m \in mysql.group_members : m[1] # g

\* The owner's row is still to be written, and there are no others.
Birth(g) ==
    /\ NoMembers(g)
    /\ \E k \in Open : Creates(task[k].req, g) /\ \E c \in Left(k) : StoresIn(c, g)
    /\ \A k \in Open : \A c \in Left(k) : StoresIn(c, g) => Creates(task[k].req, g)

Ends(c, g, u) ==
    \/ c = Delete("group_members", {g} \X User \X Role)
    \/ c.do = "GroupExiter" /\ c.group = g /\ c.by = u

\* The owner's row only goes with all others.
Guarded(s, g, u) ==
    \A i \in 1 .. Len(s) :
        Clears(s[i], "group", <<g, u>>) => \E h \in 1 .. i : Ends(s[h], g, u)

Owned(g, u) ==
    /\ <<g, u, "owner">> \in mysql.group_members
    /\ \A k \in Open : Guarded(task[k].todo, g, u)

Gone(g) ==
    /\ NoMembers(g)
    /\ \A k \in Open : \A c \in Left(k) : ~StoresIn(c, g)

OwnerInv ==
    \A r \in mysql.groups : ({r[1]} \X User) \cap clash = {} =>
        Birth(r[1]) \/ Owned(r[1], r[2]) \/ Gone(r[1])

RelInv ==
    /\ RelationsTypeOK /\ Programs /\ Clashed /\ Agreement
    /\ NothingBefore /\ OneCreator /\ Creators /\ OwnerInv
-----------------------------------------------------------------------------
(* Requests and commands. *)

ToUser  == {"FriendAdder", "FriendAddResponser", "FriendDeleter", "FriendBlocker",
            "FriendUnblocker", "GroupAddResponser", "MemberKicker", "AdminAdder", "AdminRemover"}
OfGroup == {"GroupCreater", "GroupAdder", "GroupExiter", "GroupChatter", "GroupAddResponser",
            "MemberKicker", "AdminAdder", "AdminRemover"}
Joins   == {"FriendAddResponser", "GroupAddResponser", "GroupCreater"}

LEMMA RequestTyped ==
    ASSUME NEW r \in Request
    PROVE  /\ r.do \in ToUser \cup OfGroup \cup {"AccountKiller"}
           /\ r.by \in User
           /\ r.do \in ToUser => r.to \in User
           /\ r.do \in OfGroup => r.group \in Group
<1>1. r \in Message BY ScenarioAssumption DEF Request
<1> QED BY <1>1 DEF Message, ToUser, OfGroup

\* A row of each table, a member of each set.
TableRows(table) ==
    CASE table = "friends" -> User \X User
      [] table = "friend_requests" -> User \X User
      [] table = "groups" -> Group \X User
      [] table = "group_requests" -> User \X User \X Group
      [] table = "group_members" -> Group \X User \X Role
      [] table = "group_messages" -> Group \X User
      [] OTHER -> User

Tables == {"users", "friends", "friend_requests", "groups", "group_requests", "group_members",
           "group_messages"}

Members(set) == IF set = "group" THEN Group \X User ELSE User \X User

Typed(c) ==
    /\ c.do = "sadd" => c.set \in {"friends", "group", "blacklist"} /\ c.pair \in Members(c.set)
    /\ c.do = "srem" => c.set \in {"friends", "group", "blacklist"}
    /\ c.do = "insert" => c.table \in Tables \ {"users"} /\ c.row \in TableRows(c.table)
    /\ c.do = "delete" => c.table \in Tables
    /\ c.do = "update" => c.role \in {"member", "admin"}
    /\ c.do = "forward" =>
          /\ c.user \in User
          /\ c.what \in ({"friend"} \X User) \cup ({"group"} \X Group \X User)
    /\ c.do \in {"unfriend", "ungroup", "GroupExiter", "ask"} => c.by \in User
    /\ c.do \in {"GroupExiter", "ask", "notice"} => c.group \in Group
    /\ c.do = "ask" => c.admin \in User
    /\ c.do = "notice" => c.user \in User

LEMMA KillingCases ==
    ASSUME NEW u, NEW c \in Killing(u)
    PROVE  \/ c \in Statements(u)
           \/ \E g \in Group : c = [do |-> "GroupExiter", group |-> g, by |-> u]
           \/ \E g \in Group : c \in Dissolution(g)
           \/ \E g \in Group : c \in Removal(g, u)
           \/ \E v \in User : c = Srem("friends", v, u)
<1> DEFINE Exits  == {[do |-> "GroupExiter", group |-> g, by |-> u] : g \in Group}
           Groups == UNION {Dissolution(g) \cup Removal(g, u) : g \in Group}
           Halves == {Srem("friends", v, u) : v \in User}
<1>1. Killing(u) = Statements(u) \cup Exits \cup Groups \cup Halves BY DEF Killing
<1>2. c \in Groups => \E g \in Group : c \in Dissolution(g) \/ c \in Removal(g, u) OBVIOUS
<1>3. c \in Exits => \E g \in Group : c = [do |-> "GroupExiter", group |-> g, by |-> u] OBVIOUS
<1>4. c \in Halves => \E v \in User : c = Srem("friends", v, u) OBVIOUS
<1> HIDE DEF Exits, Groups, Halves
<1> QED BY <1>1, <1>2, <1>3, <1>4

LEMMA CommandTyped ==
    ASSUME NEW r \in Request, NEW c \in Commands(r)
    PROVE  Typed(c)
<1> USE RequestTyped DEF ToUser, OfGroup, Typed, Tables, TableRows, Members, Role,
        Sadd, Srem, Del, Insert, Delete, SetRole, Member, Forward
<1>1. CASE r.do = "FriendAdder" BY <1>1 DEF Commands
<1>2. CASE r.do = "FriendAddResponser" BY <1>2 DEF Commands
<1>3. CASE r.do = "FriendDeleter" BY <1>3 DEF Commands
<1>4. CASE r.do \in {"FriendBlocker", "FriendUnblocker"} BY <1>4 DEF Commands
<1>5. CASE r.do = "GroupCreater" BY <1>5 DEF Commands
<1>6. CASE r.do = "GroupAdder" BY <1>6 DEF Commands
<1>7. CASE r.do = "GroupAddResponser" BY <1>7 DEF Commands
<1>8. CASE r.do = "GroupExiter" BY <1>8 DEF Commands, Dissolution, Removal
<1>9. CASE r.do = "MemberKicker" BY <1>9 DEF Commands, Removal
<1>10. CASE r.do \in {"AdminAdder", "AdminRemover", "GroupChatter"} BY <1>10 DEF Commands
<1>11. CASE r.do = "AccountKiller"
    <2>1. c \in Killing(r.by) BY <1>11 DEF Commands
    <2>2. CASE c \in Statements(r.by) BY <2>2 DEF Statements
    <2>3. CASE \E g \in Group : c = [do |-> "GroupExiter", group |-> g, by |-> r.by] BY <2>3
    <2>4. CASE \E g \in Group : c \in Dissolution(g) BY <2>4 DEF Dissolution
    <2>5. CASE \E g \in Group : c \in Removal(g, r.by) BY <2>5 DEF Removal
    <2>6. CASE \E v \in User : c = Srem("friends", v, r.by) BY <2>6
    <2> QED BY <2>1, <2>2, <2>3, <2>4, <2>5, <2>6, KillingCases
<1> QED BY <1>1, <1>2, <1>3, <1>4, <1>5, <1>6, <1>7, <1>8, <1>9, <1>10, <1>11

\* A command writes nothing but what its request's task has announced.
LEMMA CommandWrites ==
    ASSUME NEW r \in Request, NEW c \in Commands(r), NEW kind \in Kind,
           NEW p \in Pairs(kind), p \notin Touched(r)
    PROVE  /\ ~Puts(c, kind, p) /\ ~Drops(c, kind, p)
           /\ ~Stores(c, kind, p) /\ ~Clears(c, kind, p)
<1> USE RequestTyped DEF ToUser, OfGroup, Role, Kind, Pairs, Puts, Drops, Stores, Clears,
        Sadd, Srem, Del, Insert, Delete, SetRole, Member, Forward
<1>1. CASE r.do = "FriendAdder" BY <1>1 DEF Commands
<1>2. CASE r.do = "FriendAddResponser" BY <1>2 DEF Commands, Touched
<1>3. CASE r.do = "FriendDeleter" BY <1>3 DEF Commands, Touched
<1>4. CASE r.do \in {"FriendBlocker", "FriendUnblocker"} BY <1>4 DEF Commands
<1>5. CASE r.do = "GroupCreater" BY <1>5 DEF Commands, Touched
<1>6. CASE r.do = "GroupAdder" BY <1>6 DEF Commands
<1>7. CASE r.do = "GroupAddResponser" BY <1>7 DEF Commands, Touched
<1>8. CASE r.do = "GroupExiter" BY <1>8 DEF Commands, Touched, Dissolution, Removal
<1>9. CASE r.do = "MemberKicker" BY <1>9 DEF Commands, Touched, Removal
<1>10. CASE r.do \in {"AdminAdder", "AdminRemover", "GroupChatter"} BY <1>10 DEF Commands
<1>11. CASE r.do = "AccountKiller"
    <2>1. c \in Killing(r.by) BY <1>11 DEF Commands
    <2>2. r.by \in User /\ Touched(r) = ({r.by} \X User) \cup (User \X {r.by}) \cup (Group \X User)
        BY <1>11 DEF Touched
    <2>3. CASE c \in Statements(r.by) BY <2>2, <2>3 DEF Statements
    <2>4. CASE \E g \in Group : c = [do |-> "GroupExiter", group |-> g, by |-> r.by] BY <2>4
    <2>5. CASE \E g \in Group : c \in Dissolution(g) BY <2>2, <2>5 DEF Dissolution
    <2>6. CASE \E g \in Group : c \in Removal(g, r.by) BY <2>2, <2>6 DEF Removal
    <2>7. CASE \E v \in User : c = Srem("friends", v, r.by) BY <2>2, <2>7
    <2> QED BY <2>1, <2>3, <2>4, <2>5, <2>6, <2>7, KillingCases
<1> QED BY <1>1, <1>2, <1>3, <1>4, <1>5, <1>6, <1>7, <1>8, <1>9, <1>10, <1>11
\* Who adds a pair takes none away in the same request.
LEMMA Polarity ==
    ASSUME NEW r \in Request, NEW c \in Commands(r), NEW kind \in Kind, NEW p \in Pairs(kind)
    PROVE  /\ r.do \in Joins => ~Drops(c, kind, p) /\ ~Clears(c, kind, p)
           /\ r.do \notin Joins => ~Puts(c, kind, p) /\ ~Stores(c, kind, p)
<1> USE RequestTyped DEF ToUser, OfGroup, Joins, Role, Kind, Pairs, Puts, Drops, Stores, Clears,
        Sadd, Srem, Del, Insert, Delete, SetRole, Member, Forward
<1>1. CASE r.do \in {"FriendAdder", "GroupAdder"} BY <1>1 DEF Commands
<1>2. CASE r.do = "FriendAddResponser" BY <1>2 DEF Commands
<1>3. CASE r.do = "FriendDeleter" BY <1>3 DEF Commands
<1>4. CASE r.do \in {"FriendBlocker", "FriendUnblocker"} BY <1>4 DEF Commands
<1>5. CASE r.do = "GroupCreater" BY <1>5 DEF Commands
<1>7. CASE r.do = "GroupAddResponser" BY <1>7 DEF Commands
<1>8. CASE r.do = "GroupExiter" BY <1>8 DEF Commands, Dissolution, Removal
<1>9. CASE r.do = "MemberKicker" BY <1>9 DEF Commands, Removal
<1>10. CASE r.do \in {"AdminAdder", "AdminRemover", "GroupChatter"} BY <1>10 DEF Commands
<1>11. CASE r.do = "AccountKiller"
    <2>1. c \in Killing(r.by) BY <1>11 DEF Commands
    <2>3. CASE c \in Statements(r.by) BY <1>11, <2>3 DEF Statements
    <2>4. CASE \E g \in Group : c = [do |-> "GroupExiter", group |-> g, by |-> r.by]
        BY <1>11, <2>4
    <2>5. CASE \E g \in Group : c \in Dissolution(g) BY <1>11, <2>5 DEF Dissolution
    <2>6. CASE \E g \in Group : c \in Removal(g, r.by) BY <1>11, <2>6 DEF Removal
    <2>7. CASE \E v \in User : c = Srem("friends", v, r.by) BY <1>11, <2>7
    <2> QED BY <2>1, <2>3, <2>4, <2>5, <2>6, <2>7, KillingCases
<1> QED BY <1>1, <1>2, <1>3, <1>4, <1>5, <1>7, <1>8, <1>9, <1>10, <1>11

\* A statement takes all rows of a member, or none.
LEMMA AllRows ==
    ASSUME NEW r \in Request, NEW c \in Commands(r), NEW p \in Group \X User,
           c.do = "delete", c.table = "group_members", ~Clears(c, "group", p)
    PROVE  \A role \in Role : <<p[1], p[2], role>> \notin c.rows
<1> USE RequestTyped DEF ToUser, OfGroup, Role, Clears,
        Sadd, Srem, Del, Insert, Delete, SetRole, Member, Forward
<1>1. CASE r.do = "GroupExiter" BY <1>1 DEF Commands, Dissolution, Removal
<1>2. CASE r.do = "MemberKicker" BY <1>2 DEF Commands, Removal
<1>3. CASE r.do = "AccountKiller"
    <2>1. c \in Killing(r.by) BY <1>3 DEF Commands
    <2>3. CASE c \in Statements(r.by) BY <2>3 DEF Statements
    <2>5. CASE \E g \in Group : c \in Dissolution(g) BY <2>5 DEF Dissolution
    <2>6. CASE \E g \in Group : c \in Removal(g, r.by) BY <2>6 DEF Removal
    <2> QED BY <2>1, <2>3, <2>5, <2>6, KillingCases
<1>4. CASE r.do \notin {"GroupExiter", "MemberKicker", "AccountKiller"} BY <1>4 DEF Commands
<1> QED BY <1>1, <1>2, <1>3, <1>4
-----------------------------------------------------------------------------
(* What a command does. *)

Shape ==
    /\ mysql \in [users : SUBSET User, friends : SUBSET (User \X User),
                  friend_requests : SUBSET (User \X User), groups : SUBSET (Group \X User),
                  group_requests : SUBSET (User \X User \X Group),
                  group_members : SUBSET (Group \X User \X Role),
                  group_messages : SUBSET (Group \X User)]
    /\ Sound(mysql)
    /\ redis \in [friends : SUBSET (User \X User), group : SUBSET (Group \X User),
                  blacklist : SUBSET (User \X User)]

LEMMA InsertShape ==
    ASSUME Shape, NEW c, Typed(c), c.do = "insert", mysql' = MysqlAfter(c), redis' = RedisAfter(c)
    PROVE  Shape'
<1>1. redis' = redis BY DEF RedisAfter
<1>2. mysql' = mysql \/ (mysql' = [mysql EXCEPT ![c.table] = @ \cup {c.row}] /\ Sound(mysql'))
    BY DEF MysqlAfter, Statement
<1>3. CASE mysql' = mysql BY <1>1, <1>3 DEF Shape
<1>4. CASE mysql' = [mysql EXCEPT ![c.table] = @ \cup {c.row}] /\ Sound(mysql')
    <2>1. c.table \in Tables \ {"users"} /\ c.row \in TableRows(c.table) BY DEF Typed
    <2> QED BY <1>1, <1>4, <2>1 DEF Shape, Tables, TableRows
<1> QED BY <1>2, <1>3, <1>4

LEMMA DeleteShape ==
    ASSUME Shape, NEW c, Typed(c), c.do = "delete", mysql' = MysqlAfter(c), redis' = RedisAfter(c)
    PROVE  Shape'
<1>1. redis' = redis BY DEF RedisAfter
<1>2. mysql' = mysql \/ (mysql' = [mysql EXCEPT ![c.table] = @ \ c.rows] /\ Sound(mysql'))
    BY DEF MysqlAfter, Statement
<1>3. CASE mysql' = mysql BY <1>1, <1>3 DEF Shape
<1>4. CASE mysql' = [mysql EXCEPT ![c.table] = @ \ c.rows] /\ Sound(mysql')
    <2>1. c.table \in Tables BY DEF Typed
    <2> QED BY <1>1, <1>4, <2>1 DEF Shape, Tables
<1> QED BY <1>2, <1>3, <1>4

LEMMA UpdateShape ==
    ASSUME Shape, NEW c, Typed(c), c.do = "update", mysql' = MysqlAfter(c), redis' = RedisAfter(c)
    PROVE  /\ Shape'
           /\ mysql' = [mysql EXCEPT !.group_members =
                {IF r[1] = c.group /\ r[2] = c.user THEN <<r[1], r[2], c.role>> ELSE r : r \in @}]
<1>1. redis' = redis BY DEF RedisAfter
<1>2. mysql' = [mysql EXCEPT !.group_members =
                {IF r[1] = c.group /\ r[2] = c.user THEN <<r[1], r[2], c.role>> ELSE r : r \in @}]
    BY DEF MysqlAfter
<1> DEFINE New == {IF r[1] = c.group /\ r[2] = c.user THEN <<r[1], r[2], c.role>> ELSE r :
                      r \in mysql.group_members}
<1>3. c.role \in Role BY DEF Typed, Role
<1>4. ASSUME NEW x \in New
      PROVE  \E r \in mysql.group_members : x[1] = r[1] /\ x[2] = r[2] /\ x = <<x[1], x[2], x[3]>>
                                              /\ x[3] \in Role
    BY <1>3 DEF Shape
<1>5. New \subseteq Group \X User \X Role
    BY <1>4 DEF Shape
<1>6. Sound([mysql EXCEPT !.group_members = New])
    BY <1>4 DEF Shape, Sound
<1> QED BY <1>1, <1>2, <1>5, <1>6 DEF Shape

LEMMA RedisShape ==
    ASSUME Shape, NEW c, Typed(c), c.do \in {"sadd", "srem"},
           mysql' = MysqlAfter(c), redis' = RedisAfter(c)
    PROVE  Shape' /\ mysql' = mysql
<1>1. mysql' = mysql BY DEF MysqlAfter
<1>2. c.do = "sadd" => c.set \in {"friends", "group", "blacklist"} /\ c.pair \in Members(c.set)
    BY DEF Typed
<1>3. c.do = "srem" => c.set \in {"friends", "group", "blacklist"} BY DEF Typed
<1>4. CASE c.do = "sadd" BY <1>1, <1>2, <1>4 DEF Shape, RedisAfter, Members
<1>5. CASE c.do = "srem" BY <1>1, <1>3, <1>5 DEF Shape, RedisAfter
<1> QED BY <1>1, <1>4, <1>5
-----------------------------------------------------------------------------
(* The commands of a sequence. *)

LEMMA FirstAndRest ==
    ASSUME NEW X, NEW s \in Seq(X), s # <<>>
    PROVE  /\ Head(s) \in X /\ Tail(s) \in Seq(X)
           /\ ToSet(s) = {Head(s)} \cup ToSet(Tail(s)) /\ ToSet(s) \subseteq X
<1>1. \A i \in 1 .. Len(s) : i = 1 \/ (i - 1 \in 1 .. Len(Tail(s)) /\ s[i] = Tail(s)[i - 1])
    OBVIOUS
<1>2. \A i \in 1 .. Len(Tail(s)) : i + 1 \in 1 .. Len(s) /\ Tail(s)[i] = s[i + 1]
    OBVIOUS
<1>3. Head(s) = s[1] /\ 1 \in 1 .. Len(s) /\ Tail(s) \in Seq(X)
    OBVIOUS
<1>4. DOMAIN s = 1 .. Len(s) /\ DOMAIN Tail(s) = 1 .. Len(Tail(s))
    BY <1>3
<1>5. ToSet(s) \subseteq {Head(s)} \cup ToSet(Tail(s))
    <2>1. ASSUME NEW i \in 1 .. Len(s) PROVE s[i] \in {Head(s)} \cup ToSet(Tail(s))
        <3>1. CASE i = 1 BY <1>3, <3>1
        <3>2. CASE i # 1
            <4>1. i - 1 \in DOMAIN Tail(s) /\ s[i] = Tail(s)[i - 1] BY <1>1, <1>4, <3>2
            <4>2. s[i] \in ToSet(Tail(s)) BY <4>1 DEF ToSet
            <4> QED BY <4>2
        <3> QED BY <3>1, <3>2
    <2>2. ASSUME NEW x \in ToSet(s) PROVE \E i \in 1 .. Len(s) : x = s[i]
        BY <1>4, <2>2 DEF ToSet
    <2> QED BY <2>1, <2>2
<1>6. Head(s) \in ToSet(s) BY <1>3, <1>4 DEF ToSet
<1>7. ToSet(Tail(s)) \subseteq ToSet(s) BY <1>2, <1>4 DEF ToSet
<1>8. ToSet(s) \subseteq X /\ Head(s) \in X BY <1>3, <1>4 DEF ToSet
<1> QED BY <1>3, <1>5, <1>6, <1>7, <1>8

LEMMA BothParts ==
    ASSUME NEW X, NEW s \in Seq(X), NEW t \in Seq(X)
    PROVE  /\ s \o t \in Seq(X) /\ ToSet(s \o t) = ToSet(s) \cup ToSet(t)
           /\ s \o t = <<>> => s = <<>> /\ t = <<>>
           /\ s = <<>> => s \o t = t
           /\ t = <<>> => s \o t = s
           /\ Len(s \o t) = Len(s) + Len(t)
           /\ \A i \in 1 .. Len(s) : (s \o t)[i] = s[i]
           /\ \A i \in Len(s) + 1 .. Len(s) + Len(t) : (s \o t)[i] = t[i - Len(s)]
<1>1. /\ s \o t \in Seq(X) /\ Len(s \o t) = Len(s) + Len(t)
      /\ \A i \in 1 .. Len(s) : (s \o t)[i] = s[i]
      /\ \A i \in Len(s) + 1 .. Len(s) + Len(t) : (s \o t)[i] = t[i - Len(s)]
    OBVIOUS
<1>2. DOMAIN s = 1 .. Len(s) /\ DOMAIN t = 1 .. Len(t) /\ DOMAIN (s \o t) = 1 .. Len(s) + Len(t)
    BY <1>1
<1>3. \A i \in 1 .. Len(t) : i + Len(s) \in Len(s) + 1 .. Len(s) + Len(t) /\ (i + Len(s)) - Len(s) = i
    OBVIOUS
<1>4. \A i \in 1 .. Len(s) + Len(t) : i \in 1 .. Len(s) \/ (i \in Len(s) + 1 .. Len(s) + Len(t)
                                                             /\ i - Len(s) \in 1 .. Len(t))
    OBVIOUS
<1>5. ToSet(s \o t) \subseteq ToSet(s) \cup ToSet(t) BY <1>1, <1>2, <1>4 DEF ToSet
<1>6. ToSet(s) \subseteq ToSet(s \o t)
    <2>1. 1 .. Len(s) \subseteq 1 .. Len(s) + Len(t) OBVIOUS
    <2> QED BY <1>1, <1>2, <2>1 DEF ToSet
<1>7. ToSet(t) \subseteq ToSet(s \o t)
    <2>1. \A i \in 1 .. Len(t) : i + Len(s) \in 1 .. Len(s) + Len(t) /\ (s \o t)[i + Len(s)] = t[i]
        BY <1>1, <1>3
    <2> QED BY <1>2, <2>1 DEF ToSet
<1> QED BY <1>1, <1>5, <1>6, <1>7

LEMMA SetOfTuple ==
    ASSUME NEW a, NEW b, NEW c, NEW d, NEW e, NEW f, NEW g
    PROVE  /\ ToSet(<<>>) = {}
           /\ ToSet(<<a>>) = {a}
           /\ ToSet(<<a, b>>) = {a, b}
           /\ ToSet(<<a, b, c>>) = {a, b, c}
           /\ ToSet(<<a, b, c, d>>) = {a, b, c, d}
           /\ ToSet(<<a, b, c, d, e, f>>) = {a, b, c, d, e, f}
BY DEF ToSet

\* Every element comes once.
LEMMA EachElement ==
    ASSUME NEW S, IsFiniteSet(S)
    PROVE  SetToSeq(S) \in Seq(S) /\ ToSet(SetToSeq(S)) = S
<1> DEFINE n == Cardinality(S)
           q == SetToSeq(S)
<1>1. n \in Nat /\ Bijection(1 .. n, S) # {}
    BY FS_CardinalityType DEF ExistsBijection
<1>2. \E f \in [1 .. n -> S] : IsInjective(f)
    BY <1>1 DEF Bijection, Injection
<1>3. q \in [1 .. n -> S] /\ IsInjective(q)
    BY <1>2 DEF SetToSeq
<1>4. q \in Injection(1 .. n, S) BY <1>3 DEF Injection
<1>5. Cardinality(1 .. n) = n BY <1>1, FS_Interval
<1>6. q \in Surjection(1 .. n, S) BY <1>4, <1>5, FS_Injection
<1>7. \A x \in S : \E i \in 1 .. n : q[i] = x BY <1>6 DEF Surjection
<1>8. DOMAIN q = 1 .. n /\ q \in Seq(S) BY <1>1, <1>3
<1> QED BY <1>3, <1>7, <1>8 DEF ToSet

LEMMA NotItself ==
    ASSUME NEW r \in Request, NEW c \in Commands(r)
    PROVE  c # r /\ c.do \notin Joins
<1> USE RequestTyped DEF ToUser, OfGroup, Joins,
        Sadd, Srem, Del, Insert, Delete, SetRole, Member, Forward
<1>1. CASE r.do \in {"FriendAdder", "GroupAdder"} BY <1>1 DEF Commands
<1>2. CASE r.do = "FriendAddResponser" BY <1>2 DEF Commands
<1>3. CASE r.do = "FriendDeleter" BY <1>3 DEF Commands
<1>4. CASE r.do \in {"FriendBlocker", "FriendUnblocker"} BY <1>4 DEF Commands
<1>5. CASE r.do = "GroupCreater" BY <1>5 DEF Commands
<1>6. CASE r.do = "GroupAddResponser" BY <1>6 DEF Commands
<1>7. CASE r.do = "GroupExiter" BY <1>7 DEF Commands, Dissolution, Removal
<1>8. CASE r.do = "MemberKicker" BY <1>8 DEF Commands, Removal
<1>9. CASE r.do \in {"AdminAdder", "AdminRemover", "GroupChatter"} BY <1>9 DEF Commands
<1>10. CASE r.do = "AccountKiller"
    <2>1. c \in Killing(r.by) BY <1>10 DEF Commands
    <2>2. CASE c \in Statements(r.by) BY <1>10, <2>2 DEF Statements
    <2>3. CASE \E g \in Group : c = [do |-> "GroupExiter", group |-> g, by |-> r.by]
        BY <1>10, <2>3
    <2>4. CASE \E g \in Group : c \in Dissolution(g) BY <1>10, <2>4 DEF Dissolution
    <2>5. CASE \E g \in Group : c \in Removal(g, r.by) BY <1>10, <2>5 DEF Removal
    <2>6. CASE \E v \in User : c = Srem("friends", v, r.by) BY <1>10, <2>6
    <2> QED BY <2>1, <2>2, <2>3, <2>4, <2>5, <2>6, KillingCases
<1> QED BY <1>1, <1>2, <1>3, <1>4, <1>5, <1>6, <1>7, <1>8, <1>9, <1>10

\* What a worker has, and what it has after its first command became the commands s.
Rest(k) == ToSet(Tail(task[k].todo))

Step(k, s) ==
    /\ \A j \in Worker \ {k} : task'[j] = task[j]
    /\ Open' \subseteq Open /\ Open \ {k} \subseteq Open'
    /\ k \in Open' => /\ task'[k].req = task[k].req /\ task'[k].todo # <<>>
                      /\ task'[k].alone = task[k].alone
                      /\ task'[k].todo = s \o Tail(task[k].todo)
                      /\ Left(k)' = ToSet(s) \cup Rest(k)
                      /\ ~Fresh(k)'
    /\ k \notin Open' => ToSet(s) = {} /\ Rest(k) = {}

LEMMA FirstCommand ==
    ASSUME Programs, NEW k \in Open
    PROVE  /\ k \in Worker /\ task[k].req \in Request /\ task[k].alone \in BOOLEAN
           /\ task[k].todo \in Seq(Request \cup UNION {Commands(r) : r \in Request})
           /\ task[k].todo # <<>>
           /\ Left(k) = {FirstOf(k)} \cup Rest(k)
           /\ \/ Fresh(k) /\ FirstOf(k) = task[k].req /\ Tail(task[k].todo) = <<>>
              \/ ~Fresh(k) /\ Left(k) \subseteq Commands(task[k].req)
           /\ Rest(k) \subseteq Commands(task[k].req)
<1> DEFINE X == Request \cup UNION {Commands(r) : r \in Request}
<1>1. /\ k \in Worker /\ task[k].req \in Request /\ task[k].alone \in BOOLEAN
      /\ task[k].todo \in Seq(X) /\ task[k].todo # <<>>
    BY DEF Programs, Open, Idle
<1> HIDE DEF X
<1>2. Left(k) = {FirstOf(k)} \cup Rest(k) BY <1>1, FirstAndRest DEF Left, FirstOf, Rest
<1>3. CASE Fresh(k)
    <2>1. FirstOf(k) = task[k].req /\ Tail(task[k].todo) = <<>> BY <1>3 DEF Fresh, FirstOf
    <2> QED BY <1>1, <1>2, <1>3, <2>1, SetOfTuple DEF Rest, X
<1>4. CASE ~Fresh(k) BY <1>1, <1>2, <1>4 DEF Programs, X
<1> QED BY <1>3, <1>4

LEMMA Becoming ==
    ASSUME Programs, NEW k \in Open, NEW s \in Seq(Commands(task[k].req)), Become(k, s)
    PROVE  /\ Step(k, s)
           /\ task' \in [Worker -> {Idle} \cup
                  [req : Request, todo : Seq(Request \cup UNION {Commands(r) : r \in Request}),
                   alone : BOOLEAN]]
<1> DEFINE X == Request \cup UNION {Commands(r) : r \in Request}
           T == [req : Request, todo : Seq(X), alone : BOOLEAN]
           all == s \o Tail(task[k].todo)
<1>1. /\ k \in Worker /\ task[k].req \in Request /\ task[k].alone \in BOOLEAN
      /\ task[k].todo \in Seq(X) /\ task[k].todo # <<>>
      /\ Rest(k) \subseteq Commands(task[k].req)
    BY FirstCommand
<1>2. task \in [Worker -> {Idle} \cup T] /\ task[k] \in T
    BY <1>1 DEF Programs, Open
<1>3. task' = [task EXCEPT ![k] = IF all = <<>> THEN Idle ELSE [task[k] EXCEPT !.todo = all]]
    BY DEF Become
<1>4. Commands(task[k].req) \subseteq X BY <1>1
<1> HIDE DEF X
<1>5. s \in Seq(X) BY <1>4
<1>6. Tail(task[k].todo) \in Seq(X) BY <1>1, FirstAndRest
<1>7. /\ all \in Seq(X) /\ ToSet(all) = ToSet(s) \cup Rest(k)
      /\ all = <<>> => s = <<>> /\ Tail(task[k].todo) = <<>>
    <2> DEFINE t == Tail(task[k].todo)
    <2>1. t \in Seq(X) BY <1>6
    <2> HIDE DEF t
    <2>2. /\ s \o t \in Seq(X) /\ ToSet(s \o t) = ToSet(s) \cup ToSet(t)
          /\ s \o t = <<>> => s = <<>> /\ t = <<>>
        BY <1>5, <2>1, BothParts
    <2> QED BY <2>2 DEF t, Rest
<1> HIDE DEF all
<1>8. \A j \in Worker \ {k} : task'[j] = task[j] BY <1>2, <1>3
<1>9. task'[k] = IF all = <<>> THEN Idle ELSE [task[k] EXCEPT !.todo = all]
    BY <1>1, <1>2, <1>3
<1>10. CASE all = <<>>
    <2>1. task'[k] = Idle BY <1>9, <1>10
    <2>2. ToSet(s) = {} /\ Rest(k) = {} BY <1>7, <1>10, SetOfTuple DEF Rest
    <2> QED BY <1>2, <1>3, <1>8, <1>10, <2>1, <2>2 DEF Step, Open, X
<1>11. CASE all # <<>>
    <2>1. /\ task'[k].req = task[k].req /\ task'[k].alone = task[k].alone
          /\ task'[k].todo = all /\ task'[k] \in T
        BY <1>2, <1>7, <1>9, <1>11
    <2>2. task'[k] # Idle BY <1>11, <2>1 DEF Idle
    <2>3. Left(k)' = ToSet(s) \cup Rest(k) BY <1>7, <2>1 DEF Left
    <2>4. ToSet(s) \subseteq Commands(task[k].req) BY DEF ToSet
    <2>5. ~Fresh(k)'
        <3>1. task[k].req \notin ToSet(all) BY <1>1, <1>7, <2>4, NotItself
        <3>2. ToSet(<<task[k].req>>) = {task[k].req} BY DEF ToSet
        <3>3. all # <<task[k].req>> BY <3>1, <3>2
        <3> QED BY <2>1, <3>3 DEF Fresh
    <2>6. task' \in [Worker -> {Idle} \cup T] BY <1>2, <1>3, <1>9, <1>11, <2>1
    <2>7. Open' = Open BY <1>1, <1>8, <2>2 DEF Open
    <2>8. Step(k, s) BY <1>8, <2>1, <2>3, <2>5, <2>7, <1>11 DEF Step, all
    <2> QED BY <2>6, <2>8 DEF X
<1> QED BY <1>10, <1>11
-----------------------------------------------------------------------------
(* What a command does to a pair. *)

Basic == {"sadd", "srem", "insert", "delete", "update"}

LEMMA RedisEffect ==
    ASSUME Shape, NEW c, Typed(c), c.do \in Basic, redis' = RedisAfter(c),
           NEW kind \in Kind, NEW p
    PROVE  p \in redis'[kind] <=> Puts(c, kind, p) \/ (p \in redis[kind] /\ ~Drops(c, kind, p))
<1>1. CASE c.do = "sadd"
    <2>1. redis' = [redis EXCEPT ![c.set] = @ \cup {c.pair}] BY <1>1 DEF RedisAfter
    <2>2. c.set \in {"friends", "group", "blacklist"} BY <1>1 DEF Typed
    <2> QED BY <1>1, <2>1, <2>2 DEF Shape, Kind, Puts, Drops
<1>2. CASE c.do = "srem"
    <2>1. redis' = [redis EXCEPT ![c.set] = @ \ c.pairs] BY <1>2 DEF RedisAfter
    <2>2. c.set \in {"friends", "group", "blacklist"} BY <1>2 DEF Typed
    <2> QED BY <1>2, <2>1, <2>2 DEF Shape, Kind, Puts, Drops
<1>3. CASE c.do \notin {"sadd", "srem"}
    <2>1. redis' = redis BY <1>3 DEF RedisAfter
    <2> QED BY <1>3, <2>1 DEF Basic, Kind, Puts, Drops
<1> QED BY <1>1, <1>2, <1>3

LEMMA InsertEffect ==
    ASSUME Shape, NEW c, Typed(c), c.do = "insert", mysql' = MysqlAfter(c),
           NEW kind \in Kind, NEW p \in Pairs(kind)
    PROVE  /\ Stores(c, kind, p) /\ Real(kind, p) => p \in Stored(kind)'
           /\ ~Stores(c, kind, p) => (p \in Stored(kind)' <=> p \in Stored(kind))
           /\ Real(kind, p)' => \/ Real(kind, p)
                                \/ kind = "group" /\ c.table = "groups" /\ c.row[1] = p[1]
<1> DEFINE new == [mysql EXCEPT ![c.table] = @ \cup {c.row}]
<1>1. mysql' = new \/ mysql' = mysql BY DEF MysqlAfter, Statement
<1>2. Sound(new) => mysql' = new BY DEF MysqlAfter, Statement
<1>3. c.table \in Tables \ {"users"} /\ c.row \in TableRows(c.table) BY DEF Typed
<1>4. ASSUME Stores(c, kind, p), Real(kind, p) PROVE p \in Stored(kind)'
    <2>1. CASE kind = "friends"
        <3>1. c.table = "friends" /\ c.row = p BY <1>4, <2>1 DEF Stores
        <3>2. Sound(new) BY <1>4, <2>1, <3>1 DEF Shape, Sound, Real, Pairs
        <3> QED BY <1>2, <2>1, <3>1, <3>2 DEF Shape, Stored
    <2>2. CASE kind = "group"
        <3>1. c.table = "group_members" /\ <<c.row[1], c.row[2]>> = p BY <1>4, <2>2 DEF Stores
        <3>2. c.row \in Group \X User \X Role BY <1>3, <3>1 DEF TableRows
        <3>3. Sound(new) BY <1>4, <2>2, <3>1, <3>2 DEF Shape, Sound, Real, Pairs, GroupExists
        <3>4. c.row \in new.group_members BY <3>1 DEF Shape
        <3> QED BY <1>2, <2>2, <3>1, <3>3, <3>4 DEF Stored
    <2> QED BY <2>1, <2>2 DEF Kind
<1>5. ASSUME ~Stores(c, kind, p) PROVE p \in Stored(kind)' <=> p \in Stored(kind)
    <2>1. CASE kind = "friends" BY <1>1, <1>3, <1>5, <2>1 DEF Shape, Stored, Stores, Tables
    <2>2. CASE kind = "group"
        <3>1. new.group_members = IF c.table = "group_members" THEN mysql.group_members \cup {c.row}
                                  ELSE mysql.group_members
            BY <1>3 DEF Shape, Tables
        <3>2. c.table = "group_members" => <<c.row[1], c.row[2]>> # p BY <1>5, <2>2 DEF Stores
        <3>3. mysql'.group_members = mysql.group_members
              \/ (c.table = "group_members" /\ mysql'.group_members = mysql.group_members \cup {c.row})
            BY <1>1, <3>1
        <3> QED BY <2>2, <3>2, <3>3 DEF Stored
    <2> QED BY <2>1, <2>2 DEF Kind
<1>6. Real(kind, p)' => Real(kind, p) \/ (kind = "group" /\ c.table = "groups" /\ c.row[1] = p[1])
    <2>1. new.users = mysql.users BY <1>3 DEF Shape, Tables
    <2>2. new.groups = IF c.table = "groups" THEN mysql.groups \cup {c.row} ELSE mysql.groups
        BY <1>3 DEF Shape, Tables
    <2> HIDE DEF new
    <2>3. mysql'.users = mysql.users BY <1>1, <2>1
    <2>4. mysql'.groups = mysql.groups
          \/ (c.table = "groups" /\ mysql'.groups = mysql.groups \cup {c.row})
        BY <1>1, <2>2
    <2>5. GroupExists(p[1])' => GroupExists(p[1]) \/ (c.table = "groups" /\ c.row[1] = p[1])
        BY <2>4 DEF GroupExists
    <2> QED BY <2>3, <2>5 DEF Real, Kind
<1> QED BY <1>4, <1>5, <1>6

LEMMA DeleteEffect ==
    ASSUME Shape, NEW r \in Request, NEW c \in Commands(r), c.do = "delete", mysql' = MysqlAfter(c),
           NEW kind \in Kind, NEW p \in Pairs(kind)
    PROVE  /\ p \in Stored(kind)' <=> p \in Stored(kind) /\ ~Clears(c, kind, p)
           /\ Real(kind, p)' => Real(kind, p)
<1> DEFINE new == [mysql EXCEPT ![c.table] = @ \ c.rows]
<1>1. mysql' = new \/ mysql' = mysql BY DEF MysqlAfter, Statement
<1>2. Sound(new) => mysql' = new BY DEF MysqlAfter, Statement
<1>3. c.table \in Tables BY CommandTyped DEF Typed
<1>4. p \in Stored(kind)' <=> p \in Stored(kind) /\ ~Clears(c, kind, p)
    <2>1. CASE kind = "friends"
        <3>1. new.friends = IF c.table = "friends" THEN mysql.friends \ c.rows ELSE mysql.friends
            BY <1>3 DEF Shape, Tables
        <3>2. c.table = "friends" => Sound(new) BY DEF Shape, Sound
        <3> HIDE DEF new
        <3>3. mysql'.friends = IF c.table = "friends" THEN mysql.friends \ c.rows ELSE mysql.friends
            BY <1>1, <1>2, <3>1, <3>2
        <3> QED BY <2>1, <3>3 DEF Stored, Clears
    <2>2. CASE kind = "group"
        <3>1. new.group_members = IF c.table = "group_members" THEN mysql.group_members \ c.rows
                                  ELSE mysql.group_members
            BY <1>3 DEF Shape, Tables
        <3>2. c.table = "group_members" => Sound(new) BY DEF Shape, Sound
        <3> HIDE DEF new
        <3>6. mysql'.group_members = IF c.table = "group_members"
                                     THEN mysql.group_members \ c.rows ELSE mysql.group_members
            BY <1>1, <1>2, <3>1, <3>2
        <3>3. CASE c.table # "group_members" BY <2>2, <3>3, <3>6 DEF Stored, Clears
        <3>4. CASE c.table = "group_members" /\ Clears(c, kind, p)
            <4>1. \A m \in mysql.group_members : m = <<m[1], m[2], m[3]>> /\ m[3] \in Role
                BY DEF Shape
            <4>2. \A m \in mysql'.group_members : <<m[1], m[2]>> # p
                BY <2>2, <3>4, <3>6, <4>1 DEF Clears
            <4> QED BY <2>2, <3>4, <4>2 DEF Stored
        <3>5. CASE c.table = "group_members" /\ ~Clears(c, kind, p)
            <4>1. p \in Group \X User BY <2>2 DEF Pairs
            <4>2. \A role \in Role : <<p[1], p[2], role>> \notin c.rows
                BY <2>2, <3>5, <4>1, AllRows
            <4>3. \A m \in mysql.group_members : m = <<m[1], m[2], m[3]>> /\ m[3] \in Role
                BY DEF Shape
            <4>4. \A m \in mysql.group_members : <<m[1], m[2]>> = p => m \in mysql'.group_members
                BY <3>6, <4>1, <4>2, <4>3
            <4>5. mysql'.group_members \subseteq mysql.group_members BY <3>6
            <4> QED BY <2>2, <3>5, <4>4, <4>5 DEF Stored
        <3> QED BY <3>3, <3>4, <3>5
    <2> QED BY <2>1, <2>2 DEF Kind
<1>5. Real(kind, p)' => Real(kind, p)
    <2>1. mysql'.users \subseteq mysql.users /\ mysql'.groups \subseteq mysql.groups
        BY <1>1, <1>3 DEF Shape, Tables
    <2> QED BY <2>1 DEF Real, GroupExists
<1> QED BY <1>4, <1>5

LEMMA UpdateEffect ==
    ASSUME Shape, NEW c, Typed(c), c.do = "update", mysql' = MysqlAfter(c), redis' = RedisAfter(c),
           NEW kind \in Kind, NEW p \in Pairs(kind)
    PROVE  /\ p \in Stored(kind)' <=> p \in Stored(kind)
           /\ Real(kind, p)' => Real(kind, p)
<1>1. mysql' = [mysql EXCEPT !.group_members =
                {IF r[1] = c.group /\ r[2] = c.user THEN <<r[1], r[2], c.role>> ELSE r : r \in @}]
    BY UpdateShape
<1> DEFINE New == {IF r[1] = c.group /\ r[2] = c.user THEN <<r[1], r[2], c.role>> ELSE r :
                      r \in mysql.group_members}
<1>2. /\ mysql'.users = mysql.users /\ mysql'.groups = mysql.groups
      /\ mysql'.friends = mysql.friends /\ mysql'.group_members = New
    BY <1>1 DEF Shape
<1>3. ASSUME NEW x \in New PROVE \E r \in mysql.group_members : x[1] = r[1] /\ x[2] = r[2]
    <2>1. PICK r \in mysql.group_members :
              x = IF r[1] = c.group /\ r[2] = c.user THEN <<r[1], r[2], c.role>> ELSE r
        OBVIOUS
    <2> QED BY <2>1
<1>4. ASSUME NEW r \in mysql.group_members PROVE \E x \in New : x[1] = r[1] /\ x[2] = r[2]
    <2> DEFINE x == IF r[1] = c.group /\ r[2] = c.user THEN <<r[1], r[2], c.role>> ELSE r
    <2>1. x \in New OBVIOUS
    <2>2. x[1] = r[1] /\ x[2] = r[2] OBVIOUS
    <2> QED BY <2>1, <2>2
<1> HIDE DEF New
<1>5. p \in Stored("group")' <=> p \in Stored("group") BY <1>2, <1>3, <1>4 DEF Stored
<1>6. p \in Stored("friends")' <=> p \in Stored("friends") BY <1>2 DEF Stored
<1>7. Real(kind, p)' => Real(kind, p) BY <1>2 DEF Real, GroupExists
<1> QED BY <1>5, <1>6, <1>7 DEF Kind

LEMMA MysqlEffect ==
    ASSUME Shape, NEW r \in Request, NEW c \in Commands(r), c.do \in Basic,
           mysql' = MysqlAfter(c), redis' = RedisAfter(c), NEW kind \in Kind, NEW p \in Pairs(kind)
    PROVE  /\ Stores(c, kind, p) /\ Real(kind, p) => p \in Stored(kind)'
           /\ ~Stores(c, kind, p) => (p \in Stored(kind)' <=> p \in Stored(kind) /\ ~Clears(c, kind, p))
<1>1. Typed(c) BY CommandTyped
<1>2. CASE c.do = "insert"
    <2>1. ~Clears(c, kind, p) BY <1>2 DEF Clears
    <2> QED BY <1>1, <1>2, <2>1, InsertEffect
<1>3. CASE c.do = "delete"
    <2>1. ~Stores(c, kind, p) BY <1>3 DEF Stores
    <2> QED BY <1>3, <2>1, DeleteEffect
<1>4. CASE c.do = "update"
    <2>1. ~Stores(c, kind, p) /\ ~Clears(c, kind, p) BY <1>4 DEF Stores, Clears
    <2> QED BY <1>1, <1>4, <2>1, UpdateEffect
<1>5. CASE c.do \in {"sadd", "srem"}
    <2>1. ~Stores(c, kind, p) /\ ~Clears(c, kind, p) BY <1>5 DEF Stores, Clears
    <2>2. mysql' = mysql BY <1>1, <1>5, RedisShape
    <2> QED BY <2>1, <2>2 DEF Stored
<1> QED BY <1>2, <1>3, <1>4, <1>5 DEF Basic

\* The command of a task's own request, for a pair it has announced: the end does not change.
LEMMA EndStays ==
    ASSUME Shape, NEW r \in Request, NEW c \in Commands(r), NEW T \in SUBSET Commands(r),
           c.do \in Basic, mysql' = MysqlAfter(c), redis' = RedisAfter(c),
           NEW kind \in Kind, NEW p \in Pairs(kind), Real(kind, p)
    PROVE  /\ CachedAtEnd(T, kind, p)' <=> CachedAtEnd({c} \cup T, kind, p)
           /\ StoredAtEnd(T, kind, p)' <=> StoredAtEnd({c} \cup T, kind, p)
<1>1. Typed(c) BY CommandTyped
<1>2. p \in redis'[kind] <=> Puts(c, kind, p) \/ (p \in redis[kind] /\ ~Drops(c, kind, p))
    BY <1>1, RedisEffect
<1>3. p \in Stored(kind)' <=> Stores(c, kind, p) \/ (p \in Stored(kind) /\ ~Clears(c, kind, p))
    BY MysqlEffect
<1>4. /\ Adds({c} \cup T, kind, p) <=> Puts(c, kind, p) \/ Adds(T, kind, p)
      /\ Removes({c} \cup T, kind, p) <=> Drops(c, kind, p) \/ Removes(T, kind, p)
      /\ Inserts({c} \cup T, kind, p) <=> Stores(c, kind, p) \/ Inserts(T, kind, p)
      /\ Deletes({c} \cup T, kind, p) <=> Clears(c, kind, p) \/ Deletes(T, kind, p)
    BY DEF Adds, Removes, Inserts, Deletes
<1>5. \A d \in {c} \cup T :
          /\ r.do \in Joins => ~Drops(d, kind, p) /\ ~Clears(d, kind, p)
          /\ r.do \notin Joins => ~Puts(d, kind, p) /\ ~Stores(d, kind, p)
    BY Polarity
<1>6. \/ ~Removes({c} \cup T, kind, p) /\ ~Deletes({c} \cup T, kind, p)
      \/ ~Adds({c} \cup T, kind, p) /\ ~Inserts({c} \cup T, kind, p)
    BY <1>5 DEF Adds, Removes, Inserts, Deletes
<1>7. /\ Adds(T, kind, p)' <=> Adds(T, kind, p)
      /\ Removes(T, kind, p)' <=> Removes(T, kind, p)
      /\ Inserts(T, kind, p)' <=> Inserts(T, kind, p)
      /\ Deletes(T, kind, p)' <=> Deletes(T, kind, p)
    BY DEF Adds, Removes, Inserts, Deletes, Puts, Drops, Stores, Clears
<1>8. CachedAtEnd(T, kind, p)' <=> CachedAtEnd({c} \cup T, kind, p)
    BY <1>2, <1>4, <1>6, <1>7 DEF CachedAtEnd
<1>9. StoredAtEnd(T, kind, p)' <=> StoredAtEnd({c} \cup T, kind, p)
    BY <1>3, <1>4, <1>6, <1>7 DEF StoredAtEnd
<1> QED BY <1>8, <1>9

\* Another task's command: nothing changes.
LEMMA FrameStays ==
    ASSUME Shape, NEW r \in Request, NEW c \in Commands(r), c.do \in Basic,
           mysql' = MysqlAfter(c), redis' = RedisAfter(c),
           NEW kind \in Kind, NEW p \in Pairs(kind), p \notin Touched(r)
    PROVE  /\ p \in redis'[kind] <=> p \in redis[kind]
           /\ p \in Stored(kind)' <=> p \in Stored(kind)
<1>1. Typed(c) BY CommandTyped
<1>2. ~Puts(c, kind, p) /\ ~Drops(c, kind, p) /\ ~Stores(c, kind, p) /\ ~Clears(c, kind, p)
    BY CommandWrites
<1>3. p \in redis'[kind] <=> p \in redis[kind] BY <1>1, <1>2, RedisEffect
<1> QED BY <1>2, <1>3, MysqlEffect

\* A friendship is announced from both sides.
LEMMA MirrorTouched ==
    ASSUME NEW r \in Request, NEW c \in Commands(r), NEW p \in User \X User, p \notin Touched(r)
    PROVE  ~Stores(c, "friends", Mirror(p)) /\ ~Clears(c, "friends", Mirror(p))
<1> USE RequestTyped DEF ToUser, OfGroup, Stores, Clears, Mirror,
        Sadd, Srem, Del, Insert, Delete, SetRole, Member, Forward
<1>1. CASE r.do \in {"FriendAdder", "GroupAdder", "GroupChatter"} BY <1>1 DEF Commands
<1>2. CASE r.do = "FriendAddResponser" BY <1>2 DEF Commands, Touched
<1>3. CASE r.do = "FriendDeleter" BY <1>3 DEF Commands, Touched
<1>4. CASE r.do \in {"FriendBlocker", "FriendUnblocker"} BY <1>4 DEF Commands
<1>5. CASE r.do \in {"GroupCreater", "GroupAddResponser"} BY <1>5 DEF Commands
<1>6. CASE r.do \in {"GroupExiter", "MemberKicker"} BY <1>6 DEF Commands, Dissolution, Removal
<1>7. CASE r.do \in {"AdminAdder", "AdminRemover"} BY <1>7 DEF Commands
<1>8. CASE r.do = "AccountKiller"
    <2>1. c \in Killing(r.by) BY <1>8 DEF Commands
    <2>2. p[1] # r.by /\ p[2] # r.by BY <1>8 DEF Touched
    <2>3. CASE c \in Statements(r.by) BY <2>2, <2>3 DEF Statements
    <2>4. CASE \E g \in Group : c = [do |-> "GroupExiter", group |-> g, by |-> r.by] BY <2>4
    <2>5. CASE \E g \in Group : c \in Dissolution(g) BY <2>5 DEF Dissolution
    <2>6. CASE \E g \in Group : c \in Removal(g, r.by) BY <2>6 DEF Removal
    <2>7. CASE \E v \in User : c = Srem("friends", v, r.by) BY <2>7
    <2> QED BY <2>1, <2>3, <2>4, <2>5, <2>6, <2>7, KillingCases
<1> QED BY <1>1, <1>2, <1>3, <1>4, <1>5, <1>6, <1>7, <1>8
-----------------------------------------------------------------------------
(* A command is executed. *)

LEMMA Executing ==
    ASSUME RelInv, NEW k \in Worker, Execute(k)
    PROVE  /\ k \in Open /\ task[k].req \in Request /\ FirstOf(k) \in Commands(task[k].req)
           /\ Typed(FirstOf(k)) /\ FirstOf(k).do \in Basic
           /\ Rest(k) \subseteq Commands(task[k].req) /\ Left(k) = {FirstOf(k)} \cup Rest(k)
           /\ ~Fresh(k)
           /\ mysql' = MysqlAfter(FirstOf(k)) /\ redis' = RedisAfter(FirstOf(k))
           /\ UNCHANGED <<inbox, wanted, clash, died>>
           /\ Step(k, <<>>) /\ Shape /\ Shape'
           /\ k \in Open' => Left(k)' = Rest(k)
           /\ k \notin Open' => Rest(k) = {}
           /\ task' \in [Worker -> {Idle} \cup
                  [req : Request, todo : Seq(Request \cup UNION {Commands(r) : r \in Request}),
                   alone : BOOLEAN]]
<1>1. k \in Open BY DEF Execute, Open
<1>2. /\ FirstOf(k).do \in Basic /\ mysql' = MysqlAfter(FirstOf(k)) /\ redis' = RedisAfter(FirstOf(k))
      /\ UNCHANGED <<inbox, wanted, clash, died>>
    BY DEF Execute, Basic
<1>3. Programs BY DEF RelInv
<1>4. /\ task[k].req \in Request /\ Left(k) = {FirstOf(k)} \cup Rest(k)
      /\ \/ Fresh(k) /\ FirstOf(k) = task[k].req
         \/ ~Fresh(k) /\ Left(k) \subseteq Commands(task[k].req)
      /\ Rest(k) \subseteq Commands(task[k].req)
    BY <1>1, <1>3, FirstCommand
<1>5. ~Fresh(k) BY <1>2, <1>4, RequestTyped DEF Basic, ToUser, OfGroup
<1>6. FirstOf(k) \in Commands(task[k].req) BY <1>4, <1>5
<1>7. Typed(FirstOf(k)) BY <1>4, <1>6, CommandTyped
<1>8. Shape BY DEF RelInv, RelationsTypeOK, Shape
<1>9. Shape' BY <1>2, <1>7, <1>8, InsertShape, DeleteShape, UpdateShape, RedisShape DEF Basic
<1>10. Become(k, <<>>) /\ <<>> \in Seq(Commands(task[k].req)) BY DEF Execute
<1>11. /\ Step(k, <<>>)
       /\ task' \in [Worker -> {Idle} \cup
              [req : Request, todo : Seq(Request \cup UNION {Commands(r) : r \in Request}),
               alone : BOOLEAN]]
    BY <1>1, <1>3, <1>10, Becoming
<1>12. /\ k \in Open' => Left(k)' = Rest(k)
       /\ k \notin Open' => Rest(k) = {}
    BY <1>11, SetOfTuple DEF Step
<1> QED BY <1>1, <1>2, <1>4, <1>5, <1>6, <1>7, <1>8, <1>9, <1>11, <1>12

\* Who inserts a group is its creator.
LEMMA GroupInsertion ==
    ASSUME NEW r \in Request, NEW c \in Commands(r), c.do = "insert", c.table = "groups"
    PROVE  r.do = "GroupCreater" /\ c = Insertion(r) /\ r.group \in Group /\ c.row = <<r.group, r.by>>
<1> USE RequestTyped DEF ToUser, OfGroup, Insertion,
        Sadd, Srem, Del, Insert, Delete, SetRole, Member, Forward
<1>1. CASE r.do \in {"FriendAdder", "GroupAdder", "GroupChatter"} BY <1>1 DEF Commands
<1>2. CASE r.do \in {"FriendAddResponser", "GroupAddResponser"} BY <1>2 DEF Commands
<1>3. CASE r.do \in {"FriendDeleter", "FriendBlocker", "FriendUnblocker"} BY <1>3 DEF Commands
<1>5. CASE r.do = "GroupCreater" BY <1>5 DEF Commands
<1>6. CASE r.do \in {"GroupExiter", "MemberKicker"} BY <1>6 DEF Commands, Dissolution, Removal
<1>7. CASE r.do \in {"AdminAdder", "AdminRemover"} BY <1>7 DEF Commands
<1>8. CASE r.do = "AccountKiller"
    <2>1. c \in Killing(r.by) BY <1>8 DEF Commands
    <2>3. CASE c \in Statements(r.by) BY <2>3 DEF Statements
    <2>4. CASE \E g \in Group : c = [do |-> "GroupExiter", group |-> g, by |-> r.by] BY <2>4
    <2>5. CASE \E g \in Group : c \in Dissolution(g) BY <2>5 DEF Dissolution
    <2>6. CASE \E g \in Group : c \in Removal(g, r.by) BY <2>6 DEF Removal
    <2>7. CASE \E v \in User : c = Srem("friends", v, r.by) BY <2>7
    <2> QED BY <2>1, <2>3, <2>4, <2>5, <2>6, <2>7, KillingCases
<1> QED BY <1>1, <1>2, <1>3, <1>5, <1>6, <1>7, <1>8

\* The creator's commands, one by one.
LEMMA CreationSets ==
    ASSUME NEW r \in Request, r.do = "GroupCreater"
    PROVE  LET cs == Creation(r)
               rest == Tail(cs)
           IN /\ cs \in Seq(Commands(r)) /\ rest \in Seq(Commands(r)) /\ Tail(rest) \in Seq(Commands(r))
              /\ Head(cs) = Insertion(r) /\ Tail(Tail(rest)) = <<>>
              /\ Head(rest) = Sadd("group", r.group, r.by)
              /\ Head(Tail(rest)) = Insert("group_members", <<r.group, r.by, "owner">>)
              /\ ToSet(rest) = {Head(rest), Head(Tail(rest))}
              /\ ToSet(Tail(rest)) = {Head(Tail(rest))}
              /\ ToSet(cs) = {Insertion(r)} \cup ToSet(rest)
              /\ Insertion(r) \notin ToSet(rest)
              /\ cs # <<>> /\ rest # <<>> /\ Tail(rest) # <<>>
<1> DEFINE a == Insert("groups", <<r.group, r.by>>)
           b == Sadd("group", r.group, r.by)
           c == Insert("group_members", <<r.group, r.by, "owner">>)
<1>1. Commands(r) = {a, b, c} BY DEF Commands
<1>2. a # b /\ a # c BY DEF Insert, Sadd
<1> HIDE DEF a, b, c
<1>3. /\ Tail(<<a, b, c>>) = <<b, c>> /\ Tail(<<b, c>>) = <<c>> /\ Tail(<<c>>) = <<>>
      /\ Head(<<a, b, c>>) = a /\ Head(<<b, c>>) = b /\ Head(<<c>>) = c
      /\ <<a, b, c>> \in Seq({a, b, c}) /\ <<b, c>> \in Seq({a, b, c}) /\ <<c>> \in Seq({a, b, c})
      /\ <<a, b, c>> # <<>> /\ <<b, c>> # <<>> /\ <<c>> # <<>>
    OBVIOUS
<1>4. Creation(r) = <<a, b, c>> /\ Insertion(r) = a BY DEF Creation, Insertion, a, b, c
<1>5. ToSet(<<a, b, c>>) = {a, b, c} /\ ToSet(<<b, c>>) = {b, c} /\ ToSet(<<c>>) = {c}
    BY DEF ToSet
<1> QED BY <1>1, <1>2, <1>3, <1>4, <1>5 DEF b, c

LEMMA CreatorAt ==
    ASSUME Programs, NEW k \in Open, task[k].req.do = "GroupCreater", ~Fresh(k)
    PROVE  LET r == task[k].req
               put == Sadd("group", r.group, r.by)
               own == Insert("group_members", <<r.group, r.by, "owner">>)
           IN /\ \/ FirstOf(k) = Insertion(r) /\ Rest(k) = {put, own}
                       /\ task[k].todo = Creation(r)
                 \/ FirstOf(k) = put /\ Rest(k) = {own} /\ task[k].todo = Tail(Creation(r))
                 \/ FirstOf(k) = own /\ Rest(k) = {} /\ task[k].todo = Tail(Tail(Creation(r)))
              /\ put # Insertion(r) /\ own # Insertion(r) /\ put # own
<1> DEFINE r == task[k].req
<1>1. r \in Request BY FirstCommand
<1>2. task[k].todo \in {Creation(r), Tail(Creation(r)), Tail(Tail(Creation(r)))}
    BY DEF Programs
<1>3. ToSet(<<>>) = {} BY SetOfTuple
<1>4. LET put == Sadd("group", r.group, r.by)
          own == Insert("group_members", <<r.group, r.by, "owner">>)
      IN put # Insertion(r) /\ own # Insertion(r) /\ put # own
    BY DEF Sadd, Insert, Insertion
<1> QED BY <1>1, <1>2, <1>3, <1>4, CreationSets DEF FirstOf, Rest

\* The moment a group comes to be: nobody else is about to write its members.
LEMMA Birthday ==
    ASSUME RelInv, NEW k \in Worker, Execute(k), NEW p \in Group \X User,
           ~Real("group", p), Real("group", p)'
    PROVE  /\ p \notin redis'.group /\ p \notin Stored("group")'
           /\ \A j \in Open \ {k} : ~Adds(Left(j), "group", p) /\ ~Inserts(Left(j), "group", p)
           /\ p \in Touched(task[k].req) => Adds(Rest(k), "group", p) /\ Inserts(Rest(k), "group", p)
<1> DEFINE r == task[k].req
           c == FirstOf(k)
           g == p[1]
<1>1. /\ k \in Open /\ r \in Request /\ c \in Commands(r) /\ Typed(c) /\ c.do \in Basic /\ ~Fresh(k)
      /\ mysql' = MysqlAfter(c) /\ redis' = RedisAfter(c) /\ Shape /\ c \in Left(k)
    BY Executing
<1>2. c.do = "insert" /\ c.table = "groups" /\ c.row[1] = g
    <2>1. CASE c.do = "insert"
        <3>1. "group" \in Kind /\ p \in Pairs("group") BY DEF Kind, Pairs
        <3> QED BY <1>1, <2>1, <3>1, InsertEffect
    <2>2. CASE c.do = "delete"
        <3>1. "group" \in Kind /\ p \in Pairs("group") BY DEF Kind, Pairs
        <3> QED BY <1>1, <2>2, <3>1, DeleteEffect
    <2>3. CASE c.do = "update"
        <3>1. "group" \in Kind /\ p \in Pairs("group") BY DEF Kind, Pairs
        <3> QED BY <1>1, <2>3, <3>1, UpdateEffect
    <2>4. CASE c.do \in {"sadd", "srem"}
        <3>1. mysql' = mysql BY <1>1, <2>4, RedisShape
        <3> QED BY <3>1 DEF Real, GroupExists
    <2> QED BY <1>1, <2>1, <2>2, <2>3, <2>4 DEF Basic
<1>3. r.do = "GroupCreater" /\ c = Insertion(r) /\ r.group = g /\ g \in Group
    BY <1>1, <1>2, GroupInsertion
<1>4. Creates(r, g) /\ Unborn(g) BY <1>1, <1>3 DEF Creates, Unborn
<1>5. /\ ~GroupExists(g) /\ p \notin redis.group
      /\ \A j \in Open : \A d \in Left(j) : WritesMember(d, g) => Creates(task[j].req, g)
    BY <1>3, <1>4 DEF RelInv, NothingBefore
<1>6. p \notin redis'.group
    <2>1. redis' = redis BY <1>1, <1>2 DEF RedisAfter
    <2> QED BY <1>5, <2>1
<1>7. p \notin Stored("group")'
    <2>1. p \notin Stored("group") BY <1>1, <1>5 DEF Shape, Sound, Stored, GroupExists
    <2>2. ~Stores(c, "group", p) BY <1>2 DEF Stores
    <2>3. "group" \in Kind /\ p \in Pairs("group") BY DEF Kind, Pairs
    <2> QED BY <1>1, <1>2, <2>1, <2>2, <2>3, InsertEffect
<1>8. ASSUME NEW j \in Open \ {k}
      PROVE  ~Adds(Left(j), "group", p) /\ ~Inserts(Left(j), "group", p)
    <2>1. ~Creates(task[j].req, g) BY <1>1, <1>3, <1>4 DEF RelInv, OneCreator
    <2>2. \A d \in Left(j) : ~WritesMember(d, g) BY <1>5, <2>1
    <2> QED BY <2>2 DEF Adds, Inserts, Puts, Stores, WritesMember
<1>9. ASSUME p \in Touched(r) PROVE Adds(Rest(k), "group", p) /\ Inserts(Rest(k), "group", p)
    <2>1. p = <<r.group, r.by>> BY <1>3, <1>9 DEF Touched
    <2>2. Rest(k) = {Sadd("group", r.group, r.by), Insert("group_members", <<r.group, r.by, "owner">>)}
        BY <1>1, <1>3, CreatorAt DEF RelInv
    <2> QED BY <2>1, <2>2 DEF Adds, Inserts, Puts, Stores, Sadd, Insert
<1> QED BY <1>6, <1>7, <1>8, <1>9

\* A pair never becomes real otherwise.
LEMMA RealBefore ==
    ASSUME RelInv, NEW k \in Worker, Execute(k), NEW p \in User \X User, Real("friends", p)'
    PROVE  Real("friends", p)
<1> DEFINE c == FirstOf(k)
<1>1. /\ c \in Commands(task[k].req) /\ task[k].req \in Request /\ Typed(c) /\ c.do \in Basic
      /\ mysql' = MysqlAfter(c) /\ redis' = RedisAfter(c) /\ Shape
    BY Executing
<1>2. "friends" \in Kind /\ p \in Pairs("friends") BY DEF Kind, Pairs
<1>3. CASE c.do = "insert" BY <1>1, <1>2, <1>3, InsertEffect
<1>4. CASE c.do = "delete" BY <1>1, <1>2, <1>4, DeleteEffect
<1>5. CASE c.do = "update" BY <1>1, <1>2, <1>5, UpdateEffect
<1>6. CASE c.do \in {"sadd", "srem"}
    <2>1. mysql' = mysql BY <1>1, <1>6, RedisShape
    <2> QED BY <2>1 DEF Real
<1> QED BY <1>1, <1>3, <1>4, <1>5, <1>6 DEF Basic

LEMMA OwnGood ==
    ASSUME RelInv, NEW k \in Worker, Execute(k), NEW T, T = Rest(k),
           NEW kind \in Kind, NEW p \in Pairs(kind), p \notin clash, p \in Touched(task[k].req)
    PROVE  Good(T, kind, p)'
<1> DEFINE r == task[k].req
           c == FirstOf(k)
<1>1. /\ k \in Open /\ c \in Commands(r) /\ r \in Request /\ c.do \in Basic /\ T \subseteq Commands(r)
      /\ mysql' = MysqlAfter(c) /\ redis' = RedisAfter(c) /\ Shape /\ Left(k) = {c} \cup T
    BY Executing
<1>2. Good({c} \cup T, kind, p) BY <1>1 DEF RelInv, Agreement
<1>3. ASSUME Real(kind, p)' PROVE CachedAtEnd(T, kind, p)' <=> StoredAtEnd(T, kind, p)'
    <2>1. CASE Real(kind, p)
        <3>1. /\ CachedAtEnd(T, kind, p)' <=> CachedAtEnd({c} \cup T, kind, p)
              /\ StoredAtEnd(T, kind, p)' <=> StoredAtEnd({c} \cup T, kind, p)
            BY <1>1, <2>1, EndStays
        <3> QED BY <1>2, <2>1, <3>1 DEF Good, Same
    <2>2. CASE ~Real(kind, p)
        <3>1. kind = "group" /\ p \in Group \X User BY <1>3, <2>2, RealBefore DEF Kind, Pairs
        <3>2. Adds(T, kind, p) /\ Inserts(T, kind, p) BY <1>3, <2>2, <3>1, Birthday
        <3>3. Adds(T, kind, p)' /\ Inserts(T, kind, p)'
            BY <3>2 DEF Adds, Inserts, Puts, Stores
        <3> QED BY <3>3 DEF CachedAtEnd, StoredAtEnd
    <2> QED BY <2>1, <2>2
<1>4. ASSUME kind = "friends", Real("friends", p)'
      PROVE  StoredAtEnd(T, "friends", p)' <=> StoredAtEnd(T, "friends", Mirror(p))'
    <2>1. p \in User \X User BY <1>4 DEF Pairs
    <2>2. Real("friends", p) BY <1>4, <2>1, RealBefore
    <2>3. Mirror(p) \in Pairs("friends") /\ Real("friends", Mirror(p))
        BY <2>1, <2>2 DEF Mirror, Pairs, Real
    <2>4. StoredAtEnd(T, "friends", p)' <=> StoredAtEnd({c} \cup T, "friends", p)
        BY <1>1, <1>4, <2>2, EndStays
    <2>5. StoredAtEnd(T, "friends", Mirror(p))' <=> StoredAtEnd({c} \cup T, "friends", Mirror(p))
        <3>1. PICK q : q = Mirror(p) OBVIOUS
        <3>2. StoredAtEnd(T, "friends", q)' <=> StoredAtEnd({c} \cup T, "friends", q)
            BY <1>1, <1>4, <2>3, <3>1, EndStays
        <3> QED BY <3>1, <3>2 DEF Mirror
    <2> QED BY <1>2, <1>4, <2>2, <2>4, <2>5 DEF Good, Even
<1> QED BY <1>3, <1>4 DEF Good, Same, Even

LEMMA OthersGood ==
    ASSUME RelInv, NEW k \in Worker, Execute(k), NEW C,
           C = {} \/ \E j \in Open \ {k} : C = Left(j),
           NEW kind \in Kind, NEW p \in Pairs(kind), p \notin Touched(task[k].req), Good(C, kind, p)
    PROVE  Good(C, kind, p)'
<1> DEFINE r == task[k].req
           c == FirstOf(k)
<1>1. /\ k \in Open /\ c \in Commands(r) /\ r \in Request /\ c.do \in Basic
      /\ mysql' = MysqlAfter(c) /\ redis' = RedisAfter(c) /\ Shape
    BY Executing
<1>2. /\ p \in redis'[kind] <=> p \in redis[kind]
      /\ p \in Stored(kind)' <=> p \in Stored(kind)
    BY <1>1, FrameStays
<1>3. \A q : /\ Adds(C, kind, q)' <=> Adds(C, kind, q)
             /\ Removes(C, kind, q)' <=> Removes(C, kind, q)
             /\ Inserts(C, kind, q)' <=> Inserts(C, kind, q)
             /\ Deletes(C, kind, q)' <=> Deletes(C, kind, q)
    BY DEF Adds, Removes, Inserts, Deletes, Puts, Drops, Stores, Clears
<1>4. /\ CachedAtEnd(C, kind, p)' <=> CachedAtEnd(C, kind, p)
      /\ StoredAtEnd(C, kind, p)' <=> StoredAtEnd(C, kind, p)
    BY <1>2, <1>3 DEF CachedAtEnd, StoredAtEnd
<1>5. ASSUME Real(kind, p)' PROVE CachedAtEnd(C, kind, p)' <=> StoredAtEnd(C, kind, p)'
    <2>1. CASE Real(kind, p) BY <1>4, <2>1 DEF Good, Same
    <2>2. CASE ~Real(kind, p)
        <3>1. kind = "group" /\ p \in Group \X User BY <1>5, <2>2, RealBefore DEF Kind, Pairs
        <3>2. /\ p \notin redis'.group /\ p \notin Stored("group")'
              /\ \A j \in Open \ {k} : ~Adds(Left(j), "group", p) /\ ~Inserts(Left(j), "group", p)
            BY <1>5, <2>2, <3>1, Birthday
        <3>3. ~Adds(C, "group", p) /\ ~Inserts(C, "group", p) BY <3>2 DEF Adds, Inserts
        <3> QED BY <1>3, <3>1, <3>2, <3>3 DEF CachedAtEnd, StoredAtEnd
    <2> QED BY <2>1, <2>2
<1>6. ASSUME kind = "friends", Real("friends", p)'
      PROVE  StoredAtEnd(C, "friends", p)' <=> StoredAtEnd(C, "friends", Mirror(p))'
    <2>1. p \in User \X User BY <1>6 DEF Pairs
    <2>2. Real("friends", p) BY <1>6, <2>1, RealBefore
    <2>3. PICK q : q = Mirror(p) OBVIOUS
    <2>4. q \in Pairs("friends") BY <2>1, <2>3 DEF Mirror, Pairs
    <2>5. ~Stores(c, "friends", q) /\ ~Clears(c, "friends", q)
        BY <1>1, <2>1, <2>3, MirrorTouched
    <2>6. q \in Stored("friends")' <=> q \in Stored("friends")
        BY <1>1, <1>6, <2>4, <2>5, MysqlEffect
    <2>7. StoredAtEnd(C, "friends", q)' <=> StoredAtEnd(C, "friends", q)
        BY <1>3, <1>6, <2>6 DEF StoredAtEnd
    <2>8. StoredAtEnd(C, "friends", Mirror(p))' <=> StoredAtEnd(C, "friends", Mirror(p))
        BY <2>3, <2>7 DEF Mirror
    <2> QED BY <1>4, <1>6, <2>2, <2>8 DEF Good, Even
<1> QED BY <1>5, <1>6 DEF Good, Same, Even

LEMMA ExecuteAgrees ==
    ASSUME RelInv, NEW k \in Worker, Execute(k)
    PROVE  Agreement'
<1>1. /\ k \in Open /\ Step(k, <<>>) /\ clash' = clash
      /\ k \in Open' => Left(k)' = Rest(k)
      /\ k \notin Open' => Rest(k) = {}
    BY Executing
<1>2. /\ \A j \in Open' \ {k} : j \in Open /\ task'[j] = task[j] /\ Left(j)' = Left(j)
      /\ \A j \in Open \ {k} : j \in Open'
      /\ k \in Open' => task'[k].req = task[k].req
    BY <1>1 DEF Step, Left, Open
<1> SUFFICES ASSUME NEW kind \in Kind, NEW p \in Pairs(kind) \ clash'
             PROVE  /\ Untouched(p)' => Good({}, kind, p)'
                    /\ \A j \in Open' : p \in Touched(task'[j].req) => Good(Left(j), kind, p)'
    BY DEF Agreement, Pairs, Touched
<1>3. p \in Pairs(kind) /\ p \notin clash BY <1>1
<1>4. PICK T : T = Rest(k) OBVIOUS
<1>5. p \in Touched(task[k].req) => Good(T, kind, p)' BY <1>3, <1>4, OwnGood
<1>6. ASSUME Untouched(p)' PROVE Good({}, kind, p)'
    <2>1. \A j \in Open \ {k} : p \notin Touched(task[j].req)
        BY <1>2, <1>6 DEF Untouched, Touched
    <2>2. CASE p \in Touched(task[k].req)
        <3>1. k \notin Open' BY <1>2, <1>6, <2>2 DEF Untouched, Touched
        <3> QED BY <1>1, <1>4, <1>5, <2>2, <3>1
    <2>3. CASE p \notin Touched(task[k].req)
        <3>1. Untouched(p) BY <2>1, <2>3 DEF Untouched
        <3>2. Good({}, kind, p) BY <1>3, <3>1 DEF RelInv, Agreement
        <3> QED BY <1>3, <2>3, <3>2, OthersGood
    <2> QED BY <2>2, <2>3
<1>7. ASSUME NEW j \in Open', p \in Touched(task'[j].req)
      PROVE  Good(Left(j), kind, p)'
    <2>1. CASE j = k
        <3>1. Left(j)' = T /\ p \in Touched(task[k].req) BY <1>1, <1>2, <1>4, <1>7, <2>1
        <3>2. Good(T, kind, p)' BY <1>5, <3>1
        <3> QED BY <3>1, <3>2
    <2>2. CASE j # k
        <3>1. /\ j \in Open \ {k} /\ Left(j)' = Left(j) /\ p \in Touched(task[j].req)
            BY <1>2, <1>7, <2>2
        <3>2. p \notin Touched(task[k].req) BY <1>1, <1>3, <3>1 DEF RelInv, Clashed
        <3>3. PICK C : C = Left(j) OBVIOUS
        <3>4. Good(C, kind, p) BY <1>3, <3>1, <3>3 DEF RelInv, Agreement
        <3>5. Good(C, kind, p)' BY <1>3, <3>1, <3>2, <3>3, <3>4, OthersGood
        <3> QED BY <3>1, <3>3, <3>5
    <2> QED BY <2>1, <2>2
<1> QED BY <1>6, <1>7
-----------------------------------------------------------------------------
(* A handler replaces a command by others. *)

\* What h comes to is what the commands s come to, and they respect the groups.
Faithful(r, h, s) ==
    /\ s \in Seq(Commands(r)) /\ h.do \notin Basic
    /\ \A kind \in Kind : \A p \in Pairs(kind) : Real(kind, p) =>
          /\ Adds(ToSet(s), kind, p) <=> Inserts(ToSet(s), kind, p)
          /\ Removes(ToSet(s), kind, p) <=> Drops(h, kind, p) \/ Deletes(ToSet(s), kind, p)
    /\ \A p \in User \X User :
          /\ Inserts(ToSet(s), "friends", p) <=> Inserts(ToSet(s), "friends", Mirror(p))
          /\ Deletes(ToSet(s), "friends", p) <=> Deletes(ToSet(s), "friends", Mirror(p))
    /\ \A c \in ToSet(s) : \A g \in Group :
          /\ WritesMember(c, g) => GroupExists(g) \/ Creates(r, g)
          /\ StoresIn(c, g) => Creates(r, g) \/ ~NoMembers(g)
    /\ \A c \in ToSet(s) : c.do = "update" => <<c.group, c.user>> \notin mysql.groups
    /\ \A q \in mysql.groups : <<q[1], q[2], "owner">> \in mysql.group_members =>
          /\ Guarded(s, q[1], q[2])
          /\ Ends(h, q[1], q[2]) => \E i \in 1 .. Len(s) : Ends(s[i], q[1], q[2])
    /\ r.do = "GroupCreater" => h = r /\ s = Creation(r)

Unfolds(k) ==
    /\ k \in Open
    /\ \E s : Faithful(task[k].req, FirstOf(k), s) /\ Become(k, s)
    /\ UNCHANGED <<mysql, redis, wanted, clash, died>>

LEMMA Unfolding ==
    ASSUME RelInv, NEW k \in Worker, Unfolds(k)
    PROVE  \E s : /\ Faithful(task[k].req, FirstOf(k), s) /\ Step(k, s) /\ k \in Open
                  /\ s \in Seq(Commands(task[k].req)) /\ ToSet(s) \subseteq Commands(task[k].req)
                  /\ task' \in [Worker -> {Idle} \cup
                        [req : Request, todo : Seq(Request \cup UNION {Commands(r) : r \in Request}),
                         alone : BOOLEAN]]
<1>1. PICK s : Faithful(task[k].req, FirstOf(k), s) /\ Become(k, s) BY DEF Unfolds
<1>2. s \in Seq(Commands(task[k].req)) BY <1>1 DEF Faithful
<1>3. k \in Open /\ Programs BY DEF Unfolds, RelInv
<1>4. ToSet(s) \subseteq Commands(task[k].req) BY <1>2 DEF ToSet
<1> QED BY <1>1, <1>2, <1>3, <1>4, Becoming

\* The command h of the request r has become those of S.
LEMMA EndKept ==
    ASSUME NEW r \in Request, NEW h, h = r \/ h \in Commands(r), h.do \notin Basic,
           NEW S \in SUBSET Commands(r), NEW T \in SUBSET Commands(r),
           NEW kind \in Kind, NEW p \in Pairs(kind),
           Adds(S, kind, p) <=> Inserts(S, kind, p),
           Removes(S, kind, p) <=> Drops(h, kind, p) \/ Deletes(S, kind, p),
           CachedAtEnd({h} \cup T, kind, p) <=> StoredAtEnd({h} \cup T, kind, p)
    PROVE  CachedAtEnd(S \cup T, kind, p) <=> StoredAtEnd(S \cup T, kind, p)
<1>1. ~Puts(h, kind, p) /\ ~Stores(h, kind, p) /\ ~Clears(h, kind, p)
    BY DEF Puts, Stores, Clears, Basic
<1>2. \A d \in S \cup T :
          /\ r.do \in Joins => ~Drops(d, kind, p) /\ ~Clears(d, kind, p)
          /\ r.do \notin Joins => ~Puts(d, kind, p) /\ ~Stores(d, kind, p)
    BY Polarity
<1>3. /\ Adds({h} \cup T, kind, p) <=> Adds(T, kind, p)
      /\ Removes({h} \cup T, kind, p) <=> Drops(h, kind, p) \/ Removes(T, kind, p)
      /\ Inserts({h} \cup T, kind, p) <=> Inserts(T, kind, p)
      /\ Deletes({h} \cup T, kind, p) <=> Deletes(T, kind, p)
    BY <1>1 DEF Adds, Removes, Inserts, Deletes
<1>4. /\ Adds(S \cup T, kind, p) <=> Adds(S, kind, p) \/ Adds(T, kind, p)
      /\ Removes(S \cup T, kind, p) <=> Removes(S, kind, p) \/ Removes(T, kind, p)
      /\ Inserts(S \cup T, kind, p) <=> Inserts(S, kind, p) \/ Inserts(T, kind, p)
      /\ Deletes(S \cup T, kind, p) <=> Deletes(S, kind, p) \/ Deletes(T, kind, p)
    BY DEF Adds, Removes, Inserts, Deletes
<1>5. CASE r.do \in Joins
    <2>1. ~Removes(S, kind, p) /\ ~Removes(T, kind, p) /\ ~Deletes(S, kind, p) /\ ~Deletes(T, kind, p)
        BY <1>2, <1>5 DEF Removes, Deletes
    <2> QED BY <1>3, <1>4, <2>1 DEF CachedAtEnd, StoredAtEnd
<1>6. CASE r.do \notin Joins
    <2>1. ~Adds(S, kind, p) /\ ~Adds(T, kind, p) /\ ~Inserts(S, kind, p) /\ ~Inserts(T, kind, p)
        BY <1>2, <1>6 DEF Adds, Inserts
    <2> QED BY <1>3, <1>4, <2>1 DEF CachedAtEnd, StoredAtEnd
<1> QED BY <1>5, <1>6

LEMMA UnfoldGood ==
    ASSUME RelInv, NEW k \in Worker, NEW s, k \in Open, Faithful(task[k].req, FirstOf(k), s),
           ToSet(s) \subseteq Commands(task[k].req), UNCHANGED <<mysql, redis>>,
           NEW T, T = Rest(k), NEW S, S = ToSet(s),
           NEW kind \in Kind, NEW p \in Pairs(kind), p \notin clash, p \in Touched(task[k].req)
    PROVE  Good(S \cup T, kind, p)'
<1> DEFINE r == task[k].req
           h == FirstOf(k)
<1>1. r \in Request /\ (h = r \/ h \in Commands(r)) /\ T \subseteq Commands(r) /\ Left(k) = {h} \cup T
    BY FirstCommand DEF RelInv
<1>2. h.do \notin Basic BY DEF Faithful
<1>3. Good({h} \cup T, kind, p) BY <1>1 DEF RelInv, Agreement
<1>4. Same(S \cup T, kind, p)
    <2>1. Real(kind, p) => /\ Adds(S, kind, p) <=> Inserts(S, kind, p)
                           /\ Removes(S, kind, p) <=> Drops(h, kind, p) \/ Deletes(S, kind, p)
        BY DEF Faithful
    <2> QED BY <1>1, <1>2, <1>3, <2>1, EndKept DEF Good, Same
<1>5. ASSUME kind = "friends", Real("friends", p)
      PROVE  StoredAtEnd(S \cup T, "friends", p) <=> StoredAtEnd(S \cup T, "friends", Mirror(p))
    <2>1. p \in User \X User BY <1>5 DEF Pairs
    <2>2. /\ Inserts(S, "friends", p) <=> Inserts(S, "friends", Mirror(p))
          /\ Deletes(S, "friends", p) <=> Deletes(S, "friends", Mirror(p))
        BY <2>1 DEF Faithful
    <2>3. \A q : /\ Inserts(S \cup T, "friends", q) <=> Inserts(S, "friends", q) \/ Inserts(T, "friends", q)
                 /\ Deletes(S \cup T, "friends", q) <=> Deletes(S, "friends", q) \/ Deletes(T, "friends", q)
        BY DEF Inserts, Deletes
    <2>4. \A q : /\ Inserts({h} \cup T, "friends", q) <=> Inserts(T, "friends", q)
                 /\ Deletes({h} \cup T, "friends", q) <=> Deletes(T, "friends", q)
        BY <1>2 DEF Inserts, Deletes, Stores, Clears, Basic
    <2>5. StoredAtEnd({h} \cup T, "friends", p) <=> StoredAtEnd({h} \cup T, "friends", Mirror(p))
        BY <1>3, <1>5 DEF Good, Even
    <2>6. p \in Pairs("friends") /\ Mirror(p) \in Pairs("friends") /\ "friends" \in Kind
        BY <2>1 DEF Pairs, Mirror, Kind
    <2>7. \/ ~Inserts(S \cup T, "friends", p) /\ ~Inserts(S \cup T, "friends", Mirror(p))
          \/ ~Deletes(S \cup T, "friends", p) /\ ~Deletes(S \cup T, "friends", Mirror(p))
        BY <1>1, <2>6, Polarity DEF Inserts, Deletes
    <2> QED BY <2>2, <2>3, <2>4, <2>5, <2>7 DEF StoredAtEnd
<1>6. Good(S \cup T, kind, p) BY <1>4, <1>5 DEF Good, Even
<1> QED BY <1>6 DEF Good, Same, Even, CachedAtEnd, StoredAtEnd, Real, GroupExists, Stored,
              Adds, Removes, Inserts, Deletes, Puts, Drops, Stores, Clears

\* A pair is as it was where neither store has been written.
LEMMA GoodKept ==
    ASSUME NEW C, NEW kind, NEW p, UNCHANGED <<mysql, redis>>
    PROVE  Good(C, kind, p)' <=> Good(C, kind, p)
BY DEF Good, Same, Even, CachedAtEnd, StoredAtEnd, Real, GroupExists, Stored,
       Adds, Removes, Inserts, Deletes, Puts, Drops, Stores, Clears

LEMMA UnfoldAgrees ==
    ASSUME RelInv, NEW k \in Worker, Unfolds(k)
    PROVE  Agreement'
<1>1. PICK s : /\ Faithful(task[k].req, FirstOf(k), s) /\ Step(k, s) /\ k \in Open
               /\ ToSet(s) \subseteq Commands(task[k].req)
    BY Unfolding
<1>2. /\ \A j \in Open' \ {k} : j \in Open /\ task'[j] = task[j] /\ Left(j)' = Left(j)
      /\ \A j \in Open \ {k} : j \in Open'
      /\ k \in Open' => task'[k].req = task[k].req
    BY <1>1 DEF Step, Left, Open
<1>3. UNCHANGED <<mysql, redis, clash>> BY DEF Unfolds
<1> SUFFICES ASSUME NEW kind \in Kind, NEW p \in Pairs(kind) \ clash'
             PROVE  /\ Untouched(p)' => Good({}, kind, p)'
                    /\ \A j \in Open' : p \in Touched(task'[j].req) => Good(Left(j), kind, p)'
    BY DEF Agreement, Pairs, Touched
<1>4. p \in Pairs(kind) /\ p \notin clash BY <1>3
<1>5. PICK T : T = Rest(k) OBVIOUS
<1>6. PICK S : S = ToSet(s) OBVIOUS
<1>7. /\ k \in Open' => Left(k)' = S \cup T
      /\ k \notin Open' => S \cup T = {}
    BY <1>1, <1>5, <1>6 DEF Step
<1>8. p \in Touched(task[k].req) => Good(S \cup T, kind, p)'
    BY <1>1, <1>3, <1>4, <1>5, <1>6, UnfoldGood
<1>9. ASSUME Untouched(p)' PROVE Good({}, kind, p)'
    <2>1. \A j \in Open \ {k} : p \notin Touched(task[j].req)
        BY <1>2, <1>9 DEF Untouched, Touched
    <2>2. CASE p \in Touched(task[k].req)
        <3>1. k \notin Open' BY <1>2, <1>9, <2>2 DEF Untouched, Touched
        <3> QED BY <1>7, <1>8, <2>2, <3>1
    <2>3. CASE p \notin Touched(task[k].req)
        <3>1. Untouched(p) BY <2>1, <2>3 DEF Untouched
        <3>2. Good({}, kind, p) BY <1>4, <3>1 DEF RelInv, Agreement
        <3> QED BY <1>3, <3>2, GoodKept
    <2> QED BY <2>2, <2>3
<1>10. ASSUME NEW j \in Open', p \in Touched(task'[j].req)
       PROVE  Good(Left(j), kind, p)'
    <2>1. CASE j = k
        <3>1. Left(j)' = S \cup T /\ p \in Touched(task[k].req) BY <1>2, <1>7, <1>10, <2>1
        <3>2. Good(S \cup T, kind, p)' BY <1>8, <3>1
        <3> QED BY <3>1, <3>2
    <2>2. CASE j # k
        <3>1. /\ j \in Open \ {k} /\ Left(j)' = Left(j) /\ p \in Touched(task[j].req)
            BY <1>2, <1>10, <2>2
        <3>2. PICK C : C = Left(j) OBVIOUS
        <3>3. Good(C, kind, p) BY <1>4, <3>1, <3>2 DEF RelInv, Agreement
        <3>4. Good(C, kind, p)' BY <1>3, <3>3, GoodKept
        <3> QED BY <3>1, <3>2, <3>4
    <2> QED BY <2>1, <2>2
<1> QED BY <1>9, <1>10
-----------------------------------------------------------------------------
(* A client asks. *)

LEMMA Asking ==
    ASSUME RelInv, NEW k \in Worker, NEW r \in Request, Ask(k, r)
    PROVE  /\ k \notin Open /\ Open' = Open \cup {k}
           /\ task'[k].req = r /\ task'[k].todo = <<r>> /\ Left(k)' = {r} /\ Fresh(k)'
           /\ \A j \in Open : /\ task'[j].req = task[j].req /\ task'[j].todo = task[j].todo
                              /\ Left(j)' = Left(j) /\ (Fresh(j)' <=> Fresh(j))
           /\ task' \in [Worker -> {Idle} \cup
                  [req : Request, todo : Seq(Request \cup UNION {Commands(q) : q \in Request}),
                   alone : BOOLEAN]]
           /\ clash' = clash \cup (Touched(r) \cap UNION {Touched(task[j].req) : j \in Open})
           /\ UNCHANGED <<mysql, redis, died>> /\ r \in wanted /\ wanted' = wanted \ {r}
<1> DEFINE X == Request \cup UNION {Commands(q) : q \in Request}
           T == [req : Request, todo : Seq(X), alone : BOOLEAN]
<1>1. /\ task \in [Worker -> {Idle} \cup T]
      /\ \A j \in Open : task[j].todo # <<>>
    BY DEF RelInv, Programs
<1>2. /\ task[k] = Idle /\ r \in wanted /\ wanted' = wanted \ {r} /\ UNCHANGED <<mysql, redis, died>>
      /\ clash' = clash \cup (Touched(r) \cap UNION {Touched(task[j].req) : j \in Open})
      /\ task' = [j \in Worker |->
                     IF j = k THEN [req |-> r, todo |-> <<r>>, alone |-> Open = {}]
                     ELSE IF task[j] = Idle THEN Idle ELSE [task[j] EXCEPT !.alone = FALSE]]
    BY DEF Ask
<1>3. r \in X OBVIOUS
<1> HIDE DEF X
<1>4. k \notin Open BY <1>2 DEF Open
<1>5. task'[k] = [req |-> r, todo |-> <<r>>, alone |-> Open = {}] BY <1>2
<1>6. task'[k] \in T /\ task'[k].req = r /\ task'[k].todo = <<r>> BY <1>3, <1>5
<1>7. ASSUME NEW j \in Open
      PROVE  /\ task'[j].req = task[j].req /\ task'[j].todo = task[j].todo
             /\ task'[j] \in T
    <2>1. j # k /\ j \in Worker /\ task[j] \in T /\ task[j] # Idle BY <1>1, <1>4 DEF Open
    <2>2. task'[j] = [task[j] EXCEPT !.alone = FALSE] BY <1>2, <2>1
    <2> QED BY <2>1, <2>2
<1>8. \A j \in Worker : j \notin Open /\ j # k => task'[j] = Idle BY <1>2 DEF Open
<1>9. Open' = Open \cup {k}
    <2>1. \A j \in Open : task'[j] # Idle BY <1>1, <1>7 DEF Idle
    <2>2. task'[k] # Idle BY <1>6 DEF Idle
    <2> QED BY <1>8, <2>1, <2>2 DEF Open
<1>10. task' \in [Worker -> {Idle} \cup T]
    <2>1. \A j \in Worker : task'[j] \in {Idle} \cup T BY <1>6, <1>7, <1>8
    <2> QED BY <1>2, <2>1
<1>11. Left(k)' = {r} /\ Fresh(k)' BY <1>6, SetOfTuple DEF Left, Fresh
<1>12. \A j \in Open : Left(j)' = Left(j) /\ (Fresh(j)' <=> Fresh(j)) BY <1>7 DEF Left, Fresh
<1> QED BY <1>2, <1>4, <1>6, <1>7, <1>9, <1>10, <1>11, <1>12 DEF X

LEMMA AskAgrees ==
    ASSUME RelInv, NEW k \in Worker, NEW r \in Request, Ask(k, r)
    PROVE  Agreement'
<1>1. /\ k \notin Open /\ Open' = Open \cup {k} /\ task'[k].req = r /\ Left(k)' = {r}
      /\ \A j \in Open : task'[j].req = task[j].req /\ Left(j)' = Left(j)
      /\ clash' = clash \cup (Touched(r) \cap UNION {Touched(task[j].req) : j \in Open})
      /\ UNCHANGED <<mysql, redis>>
    BY Asking
<1> SUFFICES ASSUME NEW kind \in Kind, NEW p \in Pairs(kind) \ clash'
             PROVE  /\ Untouched(p)' => Good({}, kind, p)'
                    /\ \A j \in Open' : p \in Touched(task'[j].req) => Good(Left(j), kind, p)'
    BY DEF Agreement, Pairs, Touched
<1>2. p \in Pairs(kind) /\ p \notin clash BY <1>1
<1>3. ASSUME Untouched(p)' PROVE Good({}, kind, p)'
    <2>1. Untouched(p) BY <1>1, <1>3 DEF Untouched, Touched
    <2>2. Good({}, kind, p) BY <1>2, <2>1 DEF RelInv, Agreement
    <2> QED BY <1>1, <2>2, GoodKept
<1>4. ASSUME NEW j \in Open', p \in Touched(task'[j].req)
      PROVE  Good(Left(j), kind, p)'
    <2>1. CASE j = k
        <3>1. Left(j)' = {r} /\ p \in Touched(r) BY <1>1, <1>4, <2>1
        <3>2. Untouched(p) BY <1>1, <3>1 DEF Untouched
        <3>3. Good({}, kind, p) BY <1>2, <3>2 DEF RelInv, Agreement
        <3>4. \A q : ~Puts(r, kind, q) /\ ~Drops(r, kind, q) /\ ~Stores(r, kind, q) /\ ~Clears(r, kind, q)
            BY RequestTyped DEF Puts, Drops, Stores, Clears, ToUser, OfGroup
        <3>5. \A q : /\ CachedAtEnd({r}, kind, q) <=> CachedAtEnd({}, kind, q)
                     /\ StoredAtEnd({r}, kind, q) <=> StoredAtEnd({}, kind, q)
            BY <3>4 DEF CachedAtEnd, StoredAtEnd, Adds, Removes, Inserts, Deletes
        <3>6. Good({r}, kind, p) BY <3>3, <3>5 DEF Good, Same, Even
        <3>7. PICK C : C = {r} OBVIOUS
        <3>8. Good(C, kind, p)' BY <1>1, <3>6, <3>7, GoodKept
        <3> QED BY <3>1, <3>7, <3>8
    <2>2. CASE j # k
        <3>1. j \in Open /\ Left(j)' = Left(j) /\ p \in Touched(task[j].req)
            BY <1>1, <1>4, <2>2
        <3>2. PICK C : C = Left(j) OBVIOUS
        <3>3. Good(C, kind, p) BY <1>2, <3>1, <3>2 DEF RelInv, Agreement
        <3>4. Good(C, kind, p)' BY <1>1, <3>3, GoodKept
        <3> QED BY <3>1, <3>2, <3>4
    <2> QED BY <2>1, <2>2
<1> QED BY <1>3, <1>4
-----------------------------------------------------------------------------
(* Types, programs, and who has met. *)

TaskShape ==
    task \in [Worker -> {Idle} \cup
        [req : Request, todo : Seq(Request \cup UNION {Commands(r) : r \in Request}),
         alone : BOOLEAN]]

LEMMA StepTasks ==
    ASSUME RelInv, NEW k \in Worker, NEW s, k \in Open, Step(k, s), TaskShape',
           s \in Seq(Commands(task[k].req)),
           task[k].req.do = "GroupCreater" =>
               IF Fresh(k) THEN s = Creation(task[k].req) ELSE s = <<>>
    PROVE  Programs'
<1> DEFINE r == task[k].req
           t == Tail(task[k].todo)
<1>1. /\ task[k].todo # <<>> /\ Rest(k) \subseteq Commands(r) /\ r \in Request
      /\ Fresh(k) => t = <<>>
      /\ task[k].todo \in Seq(Request \cup UNION {Commands(q) : q \in Request})
    BY FirstCommand DEF RelInv
<1>2. ToSet(s) \subseteq Commands(r) BY DEF ToSet
<1>3. ASSUME NEW j \in Open'
      PROVE  /\ task'[j].todo # <<>>
             /\ Fresh(j)' \/ Left(j)' \subseteq Commands(task'[j].req)
             /\ task'[j].req.do = "GroupCreater" =>
                   \/ Fresh(j)'
                   \/ task'[j].todo = Creation(task'[j].req)
                   \/ task'[j].todo = Tail(Creation(task'[j].req))
                   \/ task'[j].todo = Tail(Tail(Creation(task'[j].req)))
    <2>1. CASE j # k
        <3>1. j \in Open /\ task'[j] = task[j] BY <1>3, <2>1 DEF Step, Open
        <3> QED BY <3>1 DEF RelInv, Programs, Fresh, Left
    <2>2. CASE j = k
        <3>1. /\ task'[k].req = r /\ task'[k].todo = s \o t /\ task'[k].todo # <<>>
              /\ Left(k)' = ToSet(s) \cup Rest(k)
            BY <1>3, <2>2 DEF Step
        <3>2. ASSUME r.do = "GroupCreater"
              PROVE  \/ task'[k].todo = Creation(r)
                     \/ task'[k].todo = Tail(Creation(r))
                     \/ task'[k].todo = Tail(Tail(Creation(r)))
            <4>1. CASE Fresh(k)
                <5>1. s = Creation(r) /\ t = <<>> BY <1>1, <3>2, <4>1
                <5>2. Creation(r) \in Seq(Commands(r)) BY <1>1, <3>2, CreationSets
                <5>3. Creation(r) \o <<>> = Creation(r) BY <5>2
                <5> QED BY <3>1, <5>1, <5>3
            <4>2. CASE ~Fresh(k)
                <5>1. \/ t = Tail(Creation(r)) \/ t = Tail(Tail(Creation(r)))
                      \/ t = Tail(Tail(Tail(Creation(r))))
                    BY <3>2, <4>2, CreatorAt DEF RelInv
                <5>2. <<>> \o t = t
                    <6>1. t \in Seq(Request \cup UNION {Commands(q) : q \in Request})
                        BY <1>1, FirstAndRest
                    <6> QED BY <6>1
                <5>3. Tail(Tail(Tail(Creation(r)))) = <<>> BY <1>1, <3>2, CreationSets
                <5> QED BY <3>1, <3>2, <4>2, <5>1, <5>2, <5>3
            <4> QED BY <4>1, <4>2
        <3> QED BY <1>1, <1>2, <2>2, <3>1, <3>2
    <2> QED BY <2>1, <2>2
<1> QED BY <1>3 DEF Programs, TaskShape, Open, Left, Fresh

LEMMA StepMet ==
    ASSUME RelInv, NEW k \in Worker, NEW s, k \in Open, Step(k, s), clash' = clash
    PROVE  Clashed'
<1>1. \A j \in Open' : j \in Open /\ task'[j].req = task[j].req BY DEF Step, Open
<1>2. Clashed BY DEF RelInv
<1> QED BY <1>1, <1>2 DEF Clashed

LEMMA TouchedTyped ==
    ASSUME NEW r \in Request
    PROVE  Touched(r) \subseteq (User \X User) \cup (Group \X User)
BY RequestTyped DEF Touched, ToUser, OfGroup

LEMMA AskTasks ==
    ASSUME RelInv, NEW k \in Worker, NEW r \in Request, Ask(k, r)
    PROVE  Programs' /\ Clashed' /\ RelationsTypeOK'
<1>1. /\ k \notin Open /\ Open' = Open \cup {k}
      /\ task'[k].req = r /\ task'[k].todo = <<r>> /\ Left(k)' = {r} /\ Fresh(k)'
      /\ \A j \in Open : /\ task'[j].req = task[j].req /\ task'[j].todo = task[j].todo
                         /\ Left(j)' = Left(j) /\ (Fresh(j)' <=> Fresh(j))
      /\ TaskShape'
      /\ clash' = clash \cup (Touched(r) \cap UNION {Touched(task[j].req) : j \in Open})
      /\ UNCHANGED <<mysql, redis, died>> /\ wanted' = wanted \ {r}
    BY Asking DEF TaskShape
<1>2. ASSUME NEW j \in Open'
      PROVE  /\ task'[j].todo # <<>>
             /\ Fresh(j)' \/ Left(j)' \subseteq Commands(task'[j].req)
             /\ task'[j].req.do = "GroupCreater" =>
                   \/ Fresh(j)'
                   \/ task'[j].todo = Creation(task'[j].req)
                   \/ task'[j].todo = Tail(Creation(task'[j].req))
                   \/ task'[j].todo = Tail(Tail(Creation(task'[j].req)))
    <2>1. CASE j = k BY <1>1, <2>1
    <2>2. CASE j # k BY <1>1, <1>2, <2>2 DEF RelInv, Programs
    <2> QED BY <2>1, <2>2
<1>3. Programs' BY <1>1, <1>2 DEF Programs, TaskShape, Open, Left, Fresh
<1>4. Clashed'
    <2> SUFFICES ASSUME NEW i \in Open', NEW j \in Open', i # j
                 PROVE  Touched(task'[i].req) \cap Touched(task'[j].req) \subseteq clash'
        BY DEF Clashed, Touched
    <2>1. CASE i # k /\ j # k BY <1>1, <2>1 DEF RelInv, Clashed
    <2>2. CASE i = k BY <1>1, <2>2
    <2>3. CASE j = k BY <1>1, <2>3
    <2> QED BY <2>1, <2>2, <2>3
<1>5. RelationsTypeOK'
    <2>1. RelationsTypeOK BY DEF RelInv
    <2>2. clash' \subseteq (User \X User) \cup (Group \X User)
        <3>1. Touched(r) \subseteq (User \X User) \cup (Group \X User) BY TouchedTyped
        <3> QED BY <1>1, <2>1, <3>1 DEF RelationsTypeOK
    <2>3. inbox' \in [User -> SUBSET (({"friend"} \X User) \cup ({"group"} \X Group \X User))]
        <3>1. inbox' = [inbox EXCEPT ![r.by] = @ \ Shown(r)] BY DEF Ask
        <3> HIDE DEF Shown
        <3> QED BY <2>1, <3>1 DEF RelationsTypeOK
    <2>4. \A j \in Open' : task'[j].req \in Request /\ task'[j].todo # <<>> /\ task'[j].alone \in BOOLEAN
        BY <1>1, <1>2 DEF TaskShape, Open, Idle
    <2>5. \E S \in Scenario : wanted' \subseteq S BY <1>1, <2>1 DEF RelationsTypeOK
    <2> QED BY <1>1, <2>1, <2>2, <2>3, <2>4, <2>5 DEF RelationsTypeOK, Open, Sound
<1> QED BY <1>3, <1>4, <1>5
-----------------------------------------------------------------------------
(* Groups: who creates them, and who owns them. *)

LEMMA StepOneCreator ==
    ASSUME RelInv, NEW k \in Worker, NEW s, k \in Open, Step(k, s), wanted' = wanted
    PROVE  OneCreator'
<1>1. \A j \in Open' : j \in Open /\ task'[j].req = task[j].req BY DEF Step, Open
<1> QED BY <1>1 DEF RelInv, OneCreator, Creates

\* The tables of groups and members after a command.
LEMMA GroupTables ==
    ASSUME Shape, NEW r \in Request, NEW c \in Commands(r), c.do \in Basic,
           mysql' = MysqlAfter(c), redis' = RedisAfter(c)
    PROVE  /\ \A q \in mysql'.groups :
                 q \in mysql.groups \/ (c.do = "insert" /\ c.table = "groups" /\ c.row = q)
           /\ \A m \in mysql'.group_members : m[3] = "owner" =>
                 \/ m \in mysql.group_members
                 \/ c.do = "insert" /\ c.table = "group_members" /\ c.row = m
           /\ \A m \in mysql.group_members : m \notin mysql'.group_members =>
                 \/ c.do = "delete" /\ Clears(c, "group", <<m[1], m[2]>>)
                 \/ c.do = "update" /\ c.group = m[1] /\ c.user = m[2]
<1>1. Typed(c) BY CommandTyped
<1>2. CASE c.do = "insert"
    <2> DEFINE new == [mysql EXCEPT ![c.table] = @ \cup {c.row}]
    <2>1. mysql' = new \/ mysql' = mysql BY <1>2 DEF MysqlAfter, Statement
    <2>2. c.table \in Tables BY <1>1, <1>2 DEF Typed
    <2>3. /\ new.groups = IF c.table = "groups" THEN mysql.groups \cup {c.row} ELSE mysql.groups
          /\ new.group_members = IF c.table = "group_members" THEN mysql.group_members \cup {c.row}
                                 ELSE mysql.group_members
        BY <2>2 DEF Shape, Tables
    <2> HIDE DEF new
    <2>4. /\ \A q \in mysql'.groups : q \in mysql.groups \/ (c.table = "groups" /\ c.row = q)
          /\ \A m \in mysql'.group_members :
                m \in mysql.group_members \/ (c.table = "group_members" /\ c.row = m)
          /\ mysql.group_members \subseteq mysql'.group_members
        BY <2>1, <2>3
    <2> QED BY <1>2, <2>4
<1>3. CASE c.do = "delete"
    <2> DEFINE new == [mysql EXCEPT ![c.table] = @ \ c.rows]
    <2>1. mysql' = new \/ mysql' = mysql BY <1>3 DEF MysqlAfter, Statement
    <2>2. c.table \in Tables BY <1>1, <1>3 DEF Typed
    <2>3. /\ new.groups \subseteq mysql.groups
          /\ new.group_members = IF c.table = "group_members" THEN mysql.group_members \ c.rows
                                 ELSE mysql.group_members
        BY <2>2 DEF Shape, Tables
    <2> HIDE DEF new
    <2>4. mysql'.groups \subseteq mysql.groups /\ mysql'.group_members \subseteq mysql.group_members
        BY <2>1, <2>3
    <2>5. ASSUME NEW m \in mysql.group_members, m \notin mysql'.group_members
          PROVE  Clears(c, "group", <<m[1], m[2]>>)
        <3>1. c.table = "group_members" /\ m \in c.rows BY <2>1, <2>3, <2>5
        <3>2. /\ m = <<m[1], m[2], m[3]>> /\ m[3] \in Role
              /\ <<m[1], m[2]>> \in Group \X User
            BY DEF Shape
        <3>3. PICK p \in Group \X User : p = <<m[1], m[2]>> BY <3>2
        <3>4. p[1] = m[1] /\ p[2] = m[2] BY <3>3
        <3>5. ~Clears(c, "group", p) => \A role \in Role : <<p[1], p[2], role>> \notin c.rows
            BY <1>3, <3>1, AllRows
        <3> QED BY <3>1, <3>2, <3>3, <3>4, <3>5
    <2> QED BY <1>3, <2>4, <2>5
<1>4. CASE c.do = "update"
    <2> DEFINE New == {IF q[1] = c.group /\ q[2] = c.user THEN <<q[1], q[2], c.role>> ELSE q :
                          q \in mysql.group_members}
    <2>1. mysql' = [mysql EXCEPT !.group_members = New] BY <1>1, <1>4, UpdateShape
    <2>2. mysql'.groups = mysql.groups /\ mysql'.group_members = New BY <2>1 DEF Shape
    <2>3. c.role \in {"member", "admin"} BY <1>1, <1>4 DEF Typed
    <2>4. ASSUME NEW m \in New, m[3] = "owner" PROVE m \in mysql.group_members
        <3>1. PICK q \in mysql.group_members :
                  m = IF q[1] = c.group /\ q[2] = c.user THEN <<q[1], q[2], c.role>> ELSE q
            OBVIOUS
        <3> QED BY <2>3, <2>4, <3>1
    <2>5. ASSUME NEW m \in mysql.group_members, m \notin New PROVE c.group = m[1] /\ c.user = m[2]
        BY <2>5
    <2> HIDE DEF New
    <2> QED BY <1>4, <2>2, <2>4, <2>5
<1>5. CASE c.do \in {"sadd", "srem"}
    <2>1. mysql' = mysql BY <1>1, <1>5, RedisShape
    <2> QED BY <2>1
<1> QED BY <1>2, <1>3, <1>4, <1>5 DEF Basic

\* Who inserts an owner is the group's creator.
LEMMA OwnerInsertion ==
    ASSUME NEW r \in Request, NEW c \in Commands(r), c.do = "insert", c.table = "group_members",
           c.row[3] = "owner"
    PROVE  /\ r.do = "GroupCreater" /\ r.group \in Group /\ r.by \in User
           /\ c.row = <<r.group, r.by, "owner">>
<1> USE RequestTyped DEF ToUser, OfGroup,
        Sadd, Srem, Del, Insert, Delete, SetRole, Member, Forward
<1>1. CASE r.do \in {"FriendAdder", "GroupAdder", "GroupChatter"} BY <1>1 DEF Commands
<1>2. CASE r.do \in {"FriendAddResponser", "GroupAddResponser"} BY <1>2 DEF Commands
<1>3. CASE r.do \in {"FriendDeleter", "FriendBlocker", "FriendUnblocker"} BY <1>3 DEF Commands
<1>5. CASE r.do = "GroupCreater" BY <1>5 DEF Commands
<1>6. CASE r.do \in {"GroupExiter", "MemberKicker"} BY <1>6 DEF Commands, Dissolution, Removal
<1>7. CASE r.do \in {"AdminAdder", "AdminRemover"} BY <1>7 DEF Commands
<1>8. CASE r.do = "AccountKiller"
    <2>1. c \in Killing(r.by) BY <1>8 DEF Commands
    <2>3. CASE c \in Statements(r.by) BY <2>3 DEF Statements
    <2>4. CASE \E g \in Group : c = [do |-> "GroupExiter", group |-> g, by |-> r.by] BY <2>4
    <2>5. CASE \E g \in Group : c \in Dissolution(g) BY <2>5 DEF Dissolution
    <2>6. CASE \E g \in Group : c \in Removal(g, r.by) BY <2>6 DEF Removal
    <2>7. CASE \E v \in User : c = Srem("friends", v, r.by) BY <2>7
    <2> QED BY <2>1, <2>3, <2>4, <2>5, <2>6, <2>7, KillingCases
<1> QED BY <1>1, <1>2, <1>3, <1>5, <1>6, <1>7, <1>8

\* The creator's first statement is behind it, and nobody else creates the group.
LEMMA BornNow ==
    ASSUME RelInv, NEW k \in Worker, Execute(k), NEW g \in Group, Creates(task[k].req, g)
    PROVE  ~Unborn(g)'
<1> DEFINE r == task[k].req
<1>1. /\ k \in Open /\ ~Fresh(k) /\ wanted' = wanted /\ Step(k, <<>>) /\ r.do = "GroupCreater"
      /\ k \in Open' => Left(k)' = Rest(k)
    BY Executing DEF Creates
<1>2. Insertion(r) \notin Rest(k) BY <1>1, CreatorAt DEF RelInv
<1>3. \A q \in wanted : ~Creates(q, g) BY <1>1 DEF RelInv, OneCreator
<1>4. \A j \in Open' : j \in Open /\ task'[j].req = task[j].req BY <1>1 DEF Step, Open
<1>5. \A j \in Open' : Creates(task'[j].req, g) => j = k BY <1>1, <1>4 DEF RelInv, OneCreator, Creates
<1>6. k \in Open' => ~Fresh(k)' /\ Left(k)' = Rest(k) /\ task'[k].req = r BY <1>1 DEF Step
<1>7. k \in Open' => Insertion(task'[k].req) \notin Left(k)' BY <1>2, <1>6 DEF Insertion
<1> QED BY <1>1, <1>3, <1>5, <1>6, <1>7 DEF Unborn, Creates, Insertion, Open

\* Who writes a member of a group that a statement of its own is to create.
LEMMA CreatorWrites ==
    ASSUME RelInv, NEW k \in Worker, Execute(k), NEW g \in Group, Unborn(g)'
    PROVE  Unborn(g) /\ ~WritesMember(FirstOf(k), g)
           /\ ~(FirstOf(k).do = "insert" /\ FirstOf(k).table = "groups" /\ FirstOf(k).row[1] = g)
<1> DEFINE r == task[k].req
           c == FirstOf(k)
<1>1. /\ k \in Open /\ r \in Request /\ c \in Commands(r) /\ ~Fresh(k) /\ wanted' = wanted
      /\ Step(k, <<>>) /\ Left(k) = {c} \cup Rest(k)
      /\ k \in Open' => Left(k)' = Rest(k)
    BY Executing
<1>2. ~Creates(r, g) BY BornNow
<1>3. /\ \A j \in Open' \ {k} : j \in Open /\ task'[j] = task[j] /\ Left(j)' = Left(j)
      /\ k \in Open' => task'[k].req = r
    BY <1>1 DEF Step, Open, Left
<1>4. Unborn(g)
    <2>1. CASE \E q \in wanted' : Creates(q, g) BY <1>1, <2>1 DEF Unborn
    <2>2. CASE \E j \in Open' : /\ Creates(task'[j].req, g)
                                /\ Fresh(j)' \/ Insertion(task'[j].req) \in Left(j)'
        <3>1. PICK j \in Open' : /\ Creates(task'[j].req, g)
                                 /\ Fresh(j)' \/ Insertion(task'[j].req) \in Left(j)'
            BY <2>2
        <3>2. j # k BY <1>2, <1>3, <3>1
        <3> QED BY <1>3, <3>1, <3>2 DEF Unborn, Fresh
    <2> QED BY <2>1, <2>2 DEF Unborn, Creates, Insertion
<1>5. ~WritesMember(c, g) BY <1>1, <1>2, <1>4 DEF RelInv, NothingBefore
<1>6. c.do = "insert" /\ c.table = "groups" /\ c.row[1] = g => Creates(r, g)
    BY <1>1, GroupInsertion DEF Creates
<1> QED BY <1>2, <1>4, <1>5, <1>6

LEMMA ExecuteNothingBefore ==
    ASSUME RelInv, NEW k \in Worker, Execute(k)
    PROVE  NothingBefore'
<1> DEFINE r == task[k].req
           c == FirstOf(k)
<1>1. /\ k \in Open /\ r \in Request /\ c \in Commands(r) /\ c.do \in Basic /\ Typed(c)
      /\ Step(k, <<>>) /\ Left(k) = {c} \cup Rest(k) /\ Shape
      /\ k \in Open' => Left(k)' = Rest(k)
      /\ mysql' = MysqlAfter(c) /\ redis' = RedisAfter(c)
    BY Executing
<1>2. \A j \in Open' : j \in Open /\ task'[j].req = task[j].req /\ Left(j)' \subseteq Left(j)
    <2>1. \A j \in Open' \ {k} : j \in Open /\ task'[j] = task[j] /\ Left(j)' = Left(j)
        BY <1>1 DEF Step, Open, Left
    <2>2. k \in Open' => task'[k].req = r /\ Left(k)' \subseteq Left(k) BY <1>1 DEF Step
    <2> QED BY <1>1, <2>1, <2>2
<1> SUFFICES ASSUME NEW g \in Group, Unborn(g)'
             PROVE  /\ ~GroupExists(g)'
                    /\ \A u \in User : <<g, u>> \notin redis'.group
                    /\ \A j \in Open' : \A d \in Left(j)' : WritesMember(d, g) => Creates(task'[j].req, g)
    BY DEF NothingBefore, WritesMember, Creates
<1>3. /\ Unborn(g) /\ ~WritesMember(c, g)
      /\ ~(c.do = "insert" /\ c.table = "groups" /\ c.row[1] = g)
    BY CreatorWrites
<1>4. /\ ~GroupExists(g) /\ \A u \in User : <<g, u>> \notin redis.group
      /\ \A j \in Open : \A d \in Left(j) : WritesMember(d, g) => Creates(task[j].req, g)
    BY <1>3 DEF RelInv, NothingBefore
<1>5. ~GroupExists(g)'
    <2>1. \A q \in mysql'.groups :
              q \in mysql.groups \/ (c.do = "insert" /\ c.table = "groups" /\ c.row = q)
        BY <1>1, GroupTables
    <2> QED BY <1>3, <1>4, <2>1 DEF GroupExists
<1>6. ASSUME NEW u \in User PROVE <<g, u>> \notin redis'.group
    <2>1. ~Puts(c, "group", <<g, u>>) BY <1>3 DEF Puts, WritesMember
    <2>2. "group" \in Kind BY DEF Kind
    <2> QED BY <1>1, <1>4, <2>1, <2>2, RedisEffect
<1> QED BY <1>2, <1>4, <1>5, <1>6 DEF Creates

LEMMA ExecuteCreators ==
    ASSUME RelInv, NEW k \in Worker, Execute(k)
    PROVE  Creators'
<1> DEFINE r == task[k].req
           c == FirstOf(k)
<1>1. /\ k \in Open /\ r \in Request /\ c \in Commands(r) /\ c.do \in Basic /\ Typed(c) /\ ~Fresh(k)
      /\ Step(k, <<>>) /\ Left(k) = {c} \cup Rest(k) /\ Shape /\ Shape'
      /\ k \in Open' => Left(k)' = Rest(k)
      /\ mysql' = MysqlAfter(c) /\ redis' = RedisAfter(c)
    BY Executing
<1>2. \A j \in Open' : j \in Open /\ task'[j].req = task[j].req /\ Left(j)' \subseteq Left(j)
    <2>1. \A j \in Open' \ {k} : j \in Open /\ task'[j] = task[j] /\ Left(j)' = Left(j)
        BY <1>1 DEF Step, Open, Left
    <2>2. k \in Open' => task'[k].req = r /\ Left(k)' \subseteq Left(k) BY <1>1 DEF Step
    <2> QED BY <1>1, <2>1, <2>2
<1>3. /\ \A q \in mysql'.groups :
            q \in mysql.groups \/ (c.do = "insert" /\ c.table = "groups" /\ c.row = q)
      /\ \A m \in mysql'.group_members : m[3] = "owner" =>
            m \in mysql.group_members \/ (c.do = "insert" /\ c.table = "group_members" /\ c.row = m)
    BY <1>1, GroupTables
<1>4. /\ \A q, x \in mysql.groups : q[1] = x[1] => q = x
      /\ \A j \in Open : \A q \in mysql.groups : Creates(task[j].req, q[1]) => q[2] = task[j].req.by
      /\ \A m \in mysql.group_members : m[3] = "owner" => <<m[1], m[2]>> \in mysql.groups
      /\ \A j \in Open : \A d \in Left(j) : d.do = "update" => <<d.group, d.user>> \notin mysql.groups
    BY DEF RelInv, Creators
<1>5. CASE c.do = "insert" /\ c.table = "groups"
    <2> DEFINE g == r.group
    <2>1. /\ r.do = "GroupCreater" /\ c = Insertion(r) /\ g \in Group /\ c.row = <<g, r.by>>
        BY <1>1, <1>5, GroupInsertion
    <2>2. Creates(r, g) /\ Unborn(g) BY <1>1, <2>1 DEF Creates, Unborn
    <2>3. ~GroupExists(g) BY <2>1, <2>2 DEF RelInv, NothingBefore
    <2>4. \A q, x \in mysql'.groups : q[1] = x[1] => q = x
        BY <1>3, <1>4, <2>1, <2>3 DEF GroupExists
    <2>5. \A j \in Open : Creates(task[j].req, g) => j = k
        BY <1>1, <2>1, <2>2 DEF RelInv, OneCreator
    <2>6. \A j \in Open' : \A q \in mysql'.groups : Creates(task'[j].req, q[1]) => q[2] = task'[j].req.by
        BY <1>2, <1>3, <1>4, <2>1, <2>5
    <2>7. \A m \in mysql'.group_members : m[3] = "owner" => <<m[1], m[2]>> \in mysql'.groups
        <3>1. \A m \in mysql'.group_members : m[3] = "owner" => m \in mysql.group_members
            BY <1>3, <1>5
        <3>2. mysql.groups \subseteq mysql'.groups
            <4>1. mysql' = mysql \/ mysql' = [mysql EXCEPT ![c.table] = @ \cup {c.row}]
                BY <1>1, <1>5 DEF MysqlAfter, Statement
            <4> QED BY <1>1, <1>5, <4>1 DEF Shape
        <3> QED BY <1>4, <3>1, <3>2
    <2>8. ASSUME NEW j \in Open', NEW d \in Left(j)', d.do = "update"
          PROVE  <<d.group, d.user>> \notin mysql'.groups
        <3>1. j \in Open /\ d \in Left(j) /\ <<d.group, d.user>> \notin mysql.groups
            BY <1>2, <1>4, <2>8
        <3>2. CASE d.group = g
            <4>1. WritesMember(d, g) BY <2>8, <3>2 DEF WritesMember
            <4>2. j = k BY <2>1, <2>2, <2>5, <3>1, <4>1 DEF RelInv, NothingBefore
            <4>3. d \in {Sadd("group", g, r.by), Insert("group_members", <<g, r.by, "owner">>)}
                BY <1>1, <1>5, <2>1, <2>8, <4>2, CreatorAt DEF RelInv, Insert, Sadd
            <4> QED BY <2>8, <4>3 DEF Insert, Sadd
        <3>3. CASE d.group # g BY <1>3, <2>1, <3>1, <3>3
        <3> QED BY <3>2, <3>3
    <2> QED BY <2>4, <2>6, <2>7, <2>8 DEF Creators, Creates
<1>6. CASE ~(c.do = "insert" /\ c.table = "groups")
    <2>1. mysql'.groups \subseteq mysql.groups BY <1>3, <1>6
    <2>2. ASSUME NEW m \in mysql'.group_members, m[3] = "owner"
          PROVE  <<m[1], m[2]>> \in mysql'.groups
        <3>1. PICK q \in mysql'.groups : q[1] = m[1]
            BY <1>1 DEF Shape, Sound
        <3>2. q \in mysql.groups /\ q = <<q[1], q[2]>> BY <1>1, <2>1, <3>1 DEF Shape
        <3>3. CASE m \in mysql.group_members
            <4>1. <<m[1], m[2]>> \in mysql.groups BY <1>4, <2>2, <3>3
            <4> QED BY <1>4, <3>1, <3>2, <4>1
        <3>4. CASE c.do = "insert" /\ c.table = "group_members" /\ c.row = m
            <4>1. r.do = "GroupCreater" /\ m = <<r.group, r.by, "owner">>
                BY <1>1, <2>2, <3>4, OwnerInsertion
            <4>2. q[2] = r.by BY <1>1, <1>4, <3>1, <3>2, <4>1 DEF Creates
            <4> QED BY <3>1, <3>2, <4>1, <4>2
        <3> QED BY <1>3, <2>2, <3>3, <3>4
    <2>3. \A j \in Open' : \A q \in mysql'.groups : Creates(task'[j].req, q[1]) => q[2] = task'[j].req.by
        BY <1>2, <1>4, <2>1
    <2>4. \A j \in Open' : \A d \in Left(j)' : d.do = "update" => <<d.group, d.user>> \notin mysql'.groups
        BY <1>2, <1>4, <2>1
    <2>5. \A q, x \in mysql'.groups : q[1] = x[1] => q = x BY <1>4, <2>1
    <2> QED BY <2>2, <2>3, <2>4, <2>5 DEF Creators, Creates
<1> QED BY <1>5, <1>6

\* The owner's rows go only with all others.
LEMMA GuardedRest ==
    ASSUME Programs, NEW k \in Open, NEW g, NEW u, Guarded(task[k].todo, g, u),
           ~Ends(FirstOf(k), g, u)
    PROVE  Guarded(Tail(task[k].todo), g, u)
<1> DEFINE s == task[k].todo
           X == Request \cup UNION {Commands(r) : r \in Request}
<1>1. s \in Seq(X) /\ s # <<>> /\ Head(s) = FirstOf(k) BY FirstCommand DEF FirstOf
<1> HIDE DEF X
<1>2. \A i \in 1 .. Len(Tail(s)) : i + 1 \in 1 .. Len(s) /\ Tail(s)[i] = s[i + 1]
    BY <1>1
<1>3. s[1] = FirstOf(k) BY <1>1
<1>4. ASSUME NEW i \in 1 .. Len(Tail(s)), Clears(Tail(s)[i], "group", <<g, u>>)
      PROVE  \E h \in 1 .. i : Ends(Tail(s)[h], g, u)
    <2>1. PICK h \in 1 .. i + 1 : Ends(s[h], g, u) BY <1>2, <1>4 DEF Guarded
    <2>2. h # 1 BY <1>3, <2>1
    <2>3. h - 1 \in 1 .. i BY <2>1, <2>2
    <2>4. h - 1 \in 1 .. Len(Tail(s)) /\ (h - 1) + 1 = h BY <2>3, <2>1
    <2>5. Tail(s)[h - 1] = s[h] BY <1>2, <2>4
    <2> QED BY <2>1, <2>3, <2>5
<1> QED BY <1>4 DEF Guarded

LEMMA GuardedFirst ==
    ASSUME Programs, NEW k \in Open, NEW g, NEW u, Guarded(task[k].todo, g, u),
           Clears(FirstOf(k), "group", <<g, u>>)
    PROVE  Ends(FirstOf(k), g, u)
<1> DEFINE s == task[k].todo
           X == Request \cup UNION {Commands(r) : r \in Request}
<1>1. s \in Seq(X) /\ s # <<>> /\ Head(s) = FirstOf(k) BY FirstCommand DEF FirstOf
<1> HIDE DEF X
<1>2. 1 \in 1 .. Len(s) /\ s[1] = FirstOf(k) BY <1>1
<1>3. PICK h \in 1 .. 1 : Ends(s[h], g, u) BY <1>2 DEF Guarded
<1> QED BY <1>2, <1>3

LEMMA GuardedBoth ==
    ASSUME NEW X, NEW s \in Seq(X), NEW t \in Seq(X), NEW g, NEW u, Guarded(s, g, u),
           Guarded(t, g, u) \/ \E i \in 1 .. Len(s) : Ends(s[i], g, u)
    PROVE  Guarded(s \o t, g, u)
<1> DEFINE b == s \o t
<1>1. /\ Len(b) = Len(s) + Len(t)
      /\ \A i \in 1 .. Len(s) : b[i] = s[i]
      /\ \A i \in Len(s) + 1 .. Len(s) + Len(t) : b[i] = t[i - Len(s)]
      /\ Len(s) \in Nat /\ Len(t) \in Nat
    BY BothParts
<1> HIDE DEF b
<1> SUFFICES ASSUME NEW i \in 1 .. Len(b), Clears(b[i], "group", <<g, u>>)
             PROVE  \E h \in 1 .. i : Ends(b[h], g, u)
    BY DEF Guarded, b
<1>2. CASE i \in 1 .. Len(s)
    <2>1. PICK h \in 1 .. i : Ends(s[h], g, u) BY <1>1, <1>2 DEF Guarded
    <2>2. b[h] = s[h] BY <1>1, <1>2, <2>1
    <2> QED BY <2>1, <2>2
<1>3. CASE i \notin 1 .. Len(s)
    <2>1. i \in Len(s) + 1 .. Len(s) + Len(t) /\ i - Len(s) \in 1 .. Len(t) BY <1>1, <1>3
    <2>2. CASE Guarded(t, g, u)
        <3>1. PICK h \in 1 .. i - Len(s) : Ends(t[h], g, u) BY <1>1, <2>1, <2>2 DEF Guarded
        <3>2. /\ h + Len(s) \in Len(s) + 1 .. Len(s) + Len(t) /\ h + Len(s) \in 1 .. i
              /\ (h + Len(s)) - Len(s) = h
            <4>1. Len(s) \in Nat /\ Len(t) \in Nat /\ i \in Nat /\ h \in Nat BY <2>1
            <4>2. 1 <= h /\ h <= i - Len(s) /\ i <= Len(s) + Len(t) BY <2>1, <4>1
            <4> QED BY <4>1, <4>2
        <3>3. b[h + Len(s)] = t[h] BY <1>1, <3>2
        <3> QED BY <3>1, <3>2, <3>3
    <2>3. CASE \E h \in 1 .. Len(s) : Ends(s[h], g, u)
        <3>1. PICK h \in 1 .. Len(s) : Ends(s[h], g, u) BY <2>3
        <3>2. h \in 1 .. i /\ b[h] = s[h] BY <1>1, <2>1, <3>1
        <3> QED BY <3>1, <3>2
    <2> QED BY <2>2, <2>3
<1> QED BY <1>2, <1>3

\* Without rows to go there is nothing to guard.
LEMMA GuardedNone ==
    ASSUME NEW s, NEW g, NEW u, \A c \in ToSet(s) : ~Clears(c, "group", <<g, u>>), DOMAIN s = 1 .. Len(s)
    PROVE  Guarded(s, g, u)
BY DEF Guarded, ToSet
-----------------------------------------------------------------------------
(* Owners. *)

LEMMA NoMembersStored ==
    ASSUME Shape, NEW g \in Group
    PROVE  NoMembers(g) <=> \A u \in User : <<g, u>> \notin Stored("group")
<1>1. \A m \in mysql.group_members : m[1] \in Group /\ m[2] \in User BY DEF Shape
<1> QED BY <1>1 DEF NoMembers, Stored

\* Who may store or clear a member has announced it.
LEMMA Announced ==
    ASSUME Programs, NEW j \in Open, NEW d \in Left(j), NEW g \in Group
    PROVE  /\ StoresIn(d, g) => \E u \in User : /\ <<g, u>> \in Touched(task[j].req)
                                                /\ Stores(d, "group", <<g, u>>)
                                                /\ d \in Commands(task[j].req)
           /\ \A u \in User : Clears(d, "group", <<g, u>>) =>
                 <<g, u>> \in Touched(task[j].req) /\ d \in Commands(task[j].req)
<1> DEFINE r == task[j].req
<1>1. r \in Request /\ (Fresh(j) => d = r) /\ (~Fresh(j) => d \in Commands(r))
    <2>1. CASE Fresh(j)
        <3>1. Left(j) = {r} BY <2>1, SetOfTuple DEF Left, Fresh
        <3> QED BY <2>1, <3>1, FirstCommand
    <2>2. CASE ~Fresh(j) BY <2>2, FirstCommand
    <2> QED BY <2>1, <2>2
<1>2. "group" \in Kind /\ \A u \in User : <<g, u>> \in Pairs("group") BY DEF Kind, Pairs
<1>3. CASE Fresh(j)
    <2>1. d.do \notin {"insert", "delete"} BY <1>1, <1>3, RequestTyped DEF ToUser, OfGroup
    <2> QED BY <2>1 DEF StoresIn, Clears
<1>4. CASE ~Fresh(j)
    <2>1. d \in Commands(r) BY <1>1, <1>4
    <2>2. ASSUME StoresIn(d, g)
          PROVE  \E u \in User : <<g, u>> \in Touched(r) /\ Stores(d, "group", <<g, u>>)
        <3>1. d.row \in Group \X User \X Role
            BY <1>1, <2>1, <2>2, CommandTyped DEF Typed, TableRows, StoresIn
        <3>2. d.row[2] \in User /\ d.row[1] = g BY <2>2, <3>1 DEF StoresIn
        <3>3. Stores(d, "group", <<g, d.row[2]>>) BY <2>2, <3>2 DEF StoresIn, Stores
        <3> QED BY <1>1, <1>2, <2>1, <3>2, <3>3, CommandWrites
    <2>3. ASSUME NEW u \in User, Clears(d, "group", <<g, u>>) PROVE <<g, u>> \in Touched(r)
        BY <1>1, <1>2, <2>1, <2>3, CommandWrites
    <2> QED BY <2>1, <2>2, <2>3
<1> QED BY <1>3, <1>4

\* The creator makes the owner.
LEMMA BecomesOwned ==
    ASSUME RelInv, NEW k \in Worker, Execute(k), NEW g \in Group, NEW u \in User,
           <<g, u>> \in mysql.groups, ({g} \X User) \cap clash = {},
           Creates(task[k].req, g), StoresIn(FirstOf(k), g)
    PROVE  Owned(g, u)'
<1> DEFINE r == task[k].req
           c == FirstOf(k)
           new == [mysql EXCEPT ![c.table] = @ \cup {c.row}]
<1>1. /\ k \in Open /\ r \in Request /\ c \in Commands(r) /\ c.do \in Basic /\ ~Fresh(k)
      /\ Step(k, <<>>) /\ Shape /\ mysql' = MysqlAfter(c) /\ clash' = clash
      /\ k \notin Open' \/ Left(k)' = Rest(k)
    BY Executing
<1>2. r.do = "GroupCreater" /\ r.group = g /\ r.by = u
    BY <1>1 DEF Creates, RelInv, Creators
<1>3. c = Insert("group_members", <<g, u, "owner">>) /\ Rest(k) = {}
         /\ task[k].todo = Tail(Tail(Creation(r)))
    <2>1. /\ c # Insertion(r) /\ c # Sadd("group", r.group, r.by)
        BY DEF StoresIn, Insertion, Insert, Sadd
    <2> QED BY <1>1, <1>2, <2>1, CreatorAt DEF RelInv
<1>4. <<g, u, "owner">> \in mysql'.group_members
    <2>1. c.do = "insert" /\ c.table = "group_members" /\ c.row = <<g, u, "owner">>
        BY <1>3 DEF Insert
    <2>2. Sound(new) BY <1>1, <2>1 DEF Shape, Sound, Role
    <2>3. mysql' = new BY <1>1, <2>1, <2>2 DEF MysqlAfter, Statement
    <2> QED BY <1>1, <2>1, <2>3 DEF Shape
<1>5. k \notin Open'
    <2>1. Tail(Tail(Tail(Creation(r)))) = <<>> BY <1>1, <1>2, CreationSets
    <2>2. k \in Open' => task'[k].todo = <<>> \o <<>> /\ task'[k].todo # <<>>
        BY <1>1, <1>3, <2>1 DEF Step
    <2> QED BY <2>2
<1>6. ASSUME NEW j \in Open' PROVE Guarded(task'[j].todo, g, u)
    <2>1. j \in Open \ {k} /\ task'[j] = task[j] BY <1>1, <1>5, <1>6 DEF Step, Open
    <2>2. <<g, u>> \in Touched(r) BY <1>2 DEF Touched
    <2>3. <<g, u>> \notin Touched(task[j].req) BY <1>1, <2>1, <2>2 DEF RelInv, Clashed
    <2>4. \A d \in Left(j) : ~Clears(d, "group", <<g, u>>) BY <2>1, <2>3, Announced DEF RelInv
    <2>5. DOMAIN task[j].todo = 1 .. Len(task[j].todo) BY <2>1, FirstCommand DEF RelInv
    <2>6. Guarded(task[j].todo, g, u) BY <2>4, <2>5, GuardedNone DEF Left
    <2> QED BY <2>1, <2>6
<1> QED BY <1>4, <1>6 DEF Owned, Guarded, Open, Clears, Ends, Delete

\* The dissolution leaves nobody, and nobody is about to come.
LEMMA BecomesGone ==
    ASSUME RelInv, NEW k \in Worker, Execute(k), NEW g \in Group,
           ({g} \X User) \cap clash = {},
           FirstOf(k) = Delete("group_members", {g} \X User \X Role)
    PROVE  Gone(g)'
<1> DEFINE r == task[k].req
           c == FirstOf(k)
<1>1. /\ k \in Open /\ r \in Request /\ c \in Commands(r) /\ c.do \in Basic
      /\ Step(k, <<>>) /\ Shape /\ Shape' /\ mysql' = MysqlAfter(c) /\ redis' = RedisAfter(c)
      /\ Left(k) = {c} \cup Rest(k) /\ Rest(k) \subseteq Commands(r)
      /\ k \in Open' => Left(k)' = Rest(k)
    BY Executing
<1>2. \A u \in User : Clears(c, "group", <<g, u>>) BY DEF Clears, Delete
<1>3. \A u \in User : <<g, u>> \in Touched(r) BY <1>1, <1>2, Announced DEF RelInv
<1>4. NoMembers(g)'
    <2>1. ASSUME NEW u \in User PROVE <<g, u>> \notin Stored("group")'
        <3>1. <<g, u>> \in Pairs("group") /\ "group" \in Kind BY DEF Pairs, Kind
        <3>2. ~Stores(c, "group", <<g, u>>) BY DEF Stores, Delete
        <3> QED BY <1>1, <1>2, <3>1, <3>2, MysqlEffect
    <2>2. \A m \in mysql'.group_members : m[1] \in Group /\ m[2] \in User BY <1>1 DEF Shape
    <2> QED BY <2>1, <2>2 DEF NoMembers, Stored
<1>5. ASSUME NEW j \in Open', NEW d \in Left(j)' PROVE ~StoresIn(d, g)
    <2>1. CASE j = k
        <3>1. d \in Rest(k) /\ d \in Left(k) /\ d \in Commands(r) BY <1>1, <1>5, <2>1
        <3>2. r.do \notin Joins
            <4>1. PICK m \in {r.by} : TRUE OBVIOUS
            <4>2. r.by \in User BY <1>1, RequestTyped
            <4>3. <<g, r.by>> \in Pairs("group") /\ "group" \in Kind BY <4>2 DEF Pairs, Kind
            <4>4. Clears(c, "group", <<g, r.by>>) BY <1>2, <4>2
            <4> QED BY <1>1, <4>3, <4>4, Polarity
        <3>3. ASSUME StoresIn(d, g) PROVE FALSE
            <4>1. PICK u \in User : Stores(d, "group", <<g, u>>)
                BY <1>1, <3>1, <3>3, Announced DEF RelInv
            <4>2. <<g, u>> \in Pairs("group") /\ "group" \in Kind BY DEF Pairs, Kind
            <4> QED BY <1>1, <3>1, <3>2, <4>1, <4>2, Polarity
        <3> QED BY <3>3
    <2>2. CASE j # k
        <3>1. j \in Open \ {k} /\ d \in Left(j) BY <1>1, <1>5, <2>2 DEF Step, Open, Left
        <3>2. ASSUME StoresIn(d, g) PROVE FALSE
            <4>1. PICK u \in User : <<g, u>> \in Touched(task[j].req)
                BY <3>1, <3>2, Announced DEF RelInv
            <4>2. <<g, u>> \in clash BY <1>1, <1>3, <3>1, <4>1 DEF RelInv, Clashed
            <4> QED BY <4>2
        <3> QED BY <3>2
    <2> QED BY <2>1, <2>2
<1> QED BY <1>4, <1>5 DEF Gone, StoresIn

LEMMA ExecuteOwner ==
    ASSUME RelInv, NEW k \in Worker, Execute(k)
    PROVE  OwnerInv'
<1> DEFINE r == task[k].req
           c == FirstOf(k)
<1>1. /\ k \in Open /\ r \in Request /\ c \in Commands(r) /\ c.do \in Basic /\ ~Fresh(k)
      /\ Step(k, <<>>) /\ Shape /\ Shape' /\ mysql' = MysqlAfter(c) /\ redis' = RedisAfter(c)
      /\ Left(k) = {c} \cup Rest(k) /\ clash' = clash
      /\ k \in Open' => Left(k)' = Rest(k)
      /\ k \notin Open' => Rest(k) = {}
    BY Executing
<1>2. /\ \A j \in Open' \ {k} : j \in Open /\ task'[j] = task[j] /\ Left(j)' = Left(j)
      /\ \A j \in Open \ {k} : j \in Open' /\ task'[j] = task[j] /\ Left(j)' = Left(j)
      /\ k \in Open' => task'[k].req = r /\ Left(k)' \subseteq Left(k)
    BY <1>1 DEF Step, Open, Left
<1>3. ASSUME NEW g \in Group, NoMembers(g), ~StoresIn(c, g) PROVE NoMembers(g)'
    <2>1. ASSUME NEW u \in User PROVE <<g, u>> \notin Stored("group")'
        <3>1. <<g, u>> \in Pairs("group") /\ "group" \in Kind BY DEF Pairs, Kind
        <3>2. ~Stores(c, "group", <<g, u>>) BY <1>3 DEF Stores, StoresIn
        <3>3. <<g, u>> \notin Stored("group") BY <1>1, <1>3, NoMembersStored
        <3> QED BY <1>1, <3>1, <3>2, <3>3, MysqlEffect
    <2>2. \A m \in mysql'.group_members : m[1] \in Group /\ m[2] \in User BY <1>1 DEF Shape
    <2> QED BY <2>1, <2>2 DEF NoMembers, Stored
<1> SUFFICES ASSUME NEW q \in mysql'.groups, ({q[1]} \X User) \cap clash = {}
             PROVE  Birth(q[1])' \/ Owned(q[1], q[2])' \/ Gone(q[1])'
    BY <1>1 DEF OwnerInv, Birth, Owned, Gone, NoMembers, StoresIn, Creates, Guarded, Clears, Ends
<1> DEFINE g == q[1]
           u == q[2]
<1>4. g \in Group /\ u \in User /\ q = <<g, u>> BY <1>1 DEF Shape
<1>5. CASE q \notin mysql.groups
    <2>1. c.do = "insert" /\ c.table = "groups" /\ c.row = q BY <1>1, <1>5, GroupTables
    <2>2. r.do = "GroupCreater" /\ c = Insertion(r) /\ r.group = g
        BY <1>1, <1>4, <2>1, GroupInsertion
    <2>3. Creates(r, g) /\ Unborn(g) BY <1>1, <2>2 DEF Creates, Unborn
    <2>4. NoMembers(g)
        <3>1. ~GroupExists(g) BY <1>4, <2>3 DEF RelInv, NothingBefore
        <3> QED BY <1>1, <3>1 DEF Shape, Sound, NoMembers, GroupExists
    <2>5. ~StoresIn(c, g) BY <2>1 DEF StoresIn
    <2>6. NoMembers(g)' BY <1>3, <1>4, <2>4, <2>5
    <2> DEFINE own == Insert("group_members", <<r.group, r.by, "owner">>)
    <2>7. own \in Rest(k)
        <3>1. c # Sadd("group", r.group, r.by) /\ c # own BY <2>1 DEF Sadd, Insert
        <3> QED BY <1>1, <2>2, <3>1, CreatorAt DEF RelInv
    <2>8. k \in Open' /\ Creates(task'[k].req, g) /\ own \in Left(k)' /\ StoresIn(own, g)
        <3>1. StoresIn(own, g) BY <2>2 DEF StoresIn, Insert
        <3>2. k \in Open' /\ Left(k)' = Rest(k) BY <1>1, <2>7
        <3> QED BY <1>2, <2>3, <2>7, <3>1, <3>2
    <2>9. ASSUME NEW j \in Open', NEW d \in Left(j)', StoresIn(d, g) PROVE Creates(task'[j].req, g)
        <3>1. j \in Open /\ d \in Left(j) /\ task'[j].req = task[j].req BY <1>1, <1>2, <2>9
        <3>2. WritesMember(d, g) BY <2>9 DEF StoresIn, WritesMember
        <3> QED BY <1>4, <2>3, <3>1, <3>2 DEF RelInv, NothingBefore
    <2> HIDE DEF own
    <2> QED BY <2>6, <2>8, <2>9 DEF Birth, NoMembers, StoresIn, Creates
<1>6. CASE q \in mysql.groups /\ Birth(g)
    <2>1. PICK b \in Open : Creates(task[b].req, g) /\ \E d \in Left(b) : StoresIn(d, g)
        BY <1>6 DEF Birth
    <2>2. \A j \in Open : \A d \in Left(j) : StoresIn(d, g) => Creates(task[j].req, g)
        BY <1>6 DEF Birth
    <2>3. CASE StoresIn(c, g)
        <3>1. Creates(r, g) BY <1>1, <2>2, <2>3
        <3> QED BY <1>4, <1>6, <2>3, <3>1, BecomesOwned
    <2>4. CASE ~StoresIn(c, g)
        <3>1. NoMembers(g)' BY <1>3, <1>4, <1>6, <2>4 DEF Birth
        <3>2. PICK d \in Left(b) : StoresIn(d, g) BY <2>1
        <3>3. b \in Open' /\ Creates(task'[b].req, g) /\ d \in Left(b)'
            <4>1. CASE b = k
                <5>1. d \in Rest(k) BY <1>1, <2>4, <3>2, <4>1
                <5>2. k \in Open' /\ Left(k)' = Rest(k) BY <1>1, <5>1
                <5> QED BY <1>2, <2>1, <4>1, <5>1, <5>2
            <4>2. CASE b # k BY <1>2, <2>1, <3>2, <4>2
            <4> QED BY <4>1, <4>2
        <3>4. ASSUME NEW j \in Open', NEW e \in Left(j)', StoresIn(e, g) PROVE Creates(task'[j].req, g)
            BY <1>1, <1>2, <2>2, <3>4
        <3> QED BY <3>1, <3>2, <3>3, <3>4 DEF Birth, NoMembers, StoresIn, Creates
    <2> QED BY <2>3, <2>4
<1>7. CASE q \in mysql.groups /\ Owned(g, u)
    <2>1. /\ <<g, u, "owner">> \in mysql.group_members
          /\ \A j \in Open : Guarded(task[j].todo, g, u)
        BY <1>7 DEF Owned
    <2>2. CASE Clears(c, "group", <<g, u>>)
        <3>1. Ends(c, g, u) BY <1>1, <2>1, <2>2, GuardedFirst DEF RelInv
        <3>2. c = Delete("group_members", {g} \X User \X Role)
            BY <2>2, <3>1 DEF Ends, Clears
        <3> QED BY <1>4, <3>2, BecomesGone
    <2>3. CASE ~Clears(c, "group", <<g, u>>)
        <3>1. <<g, u, "owner">> \in mysql'.group_members
            <4>1. PICK m \in mysql.group_members : m = <<g, u, "owner">> BY <2>1
            <4>2. m[1] = g /\ m[2] = u BY <4>1
            <4>3. ~(c.do = "update" /\ c.group = g /\ c.user = u)
                BY <1>1, <1>4, <1>7 DEF RelInv, Creators
            <4> QED BY <1>1, <2>3, <4>1, <4>2, <4>3, GroupTables
        <3>2. ~Ends(c, g, u)
            <4>1. c # Delete("group_members", {g} \X User \X Role)
                BY <1>4, <2>3 DEF Clears, Delete
            <4>2. c.do # "GroupExiter" BY <1>1 DEF Basic
            <4> QED BY <4>1, <4>2 DEF Ends
        <3>3. Guarded(Tail(task[k].todo), g, u) BY <1>1, <2>1, <3>2, GuardedRest DEF RelInv
        <3>4. ASSUME NEW j \in Open' PROVE Guarded(task'[j].todo, g, u)
            <4>1. CASE j = k
                <5>1. task'[k].todo = <<>> \o Tail(task[k].todo) BY <1>1, <3>4, <4>1 DEF Step
                <5>2. Tail(task[k].todo) \in Seq(Request \cup UNION {Commands(x) : x \in Request})
                    BY <1>1, FirstCommand, FirstAndRest DEF RelInv
                <5>3. <<>> \o Tail(task[k].todo) = Tail(task[k].todo) BY <5>2
                <5> QED BY <3>3, <4>1, <5>1, <5>3
            <4>2. CASE j # k BY <1>2, <2>1, <3>4, <4>2
            <4> QED BY <4>1, <4>2
        <3> QED BY <3>1, <3>4 DEF Owned, Guarded, Clears, Ends
    <2> QED BY <2>2, <2>3
<1>8. CASE q \in mysql.groups /\ Gone(g)
    <2>1. \A j \in Open : \A d \in Left(j) : ~StoresIn(d, g) BY <1>8 DEF Gone
    <2>2. NoMembers(g)' BY <1>1, <1>3, <1>4, <1>8, <2>1 DEF Gone
    <2>3. \A j \in Open' : \A d \in Left(j)' : ~StoresIn(d, g) BY <1>1, <1>2, <2>1
    <2> QED BY <2>2, <2>3 DEF Gone, NoMembers, StoresIn
<1>9. q \in mysql.groups => Birth(g) \/ Owned(g, u) \/ Gone(g) BY DEF RelInv, OwnerInv
<1> QED BY <1>5, <1>6, <1>7, <1>8, <1>9
-----------------------------------------------------------------------------
(* Groups, when a handler unfolds and when a client asks. *)

\* A creator unfolds once, as long as its group is still to be made.
LEMMA CreatorUnfolds ==
    ASSUME RelInv, NEW k \in Open, NEW s, Faithful(task[k].req, FirstOf(k), s), NEW g \in Group,
           Creates(task[k].req, g)
    PROVE  Fresh(k) /\ Unborn(g) /\ Left(k) = {task[k].req} /\ Rest(k) = {}
<1> DEFINE r == task[k].req
<1>1. FirstOf(k) = r BY DEF Faithful, Creates
<1>2. r \in Request /\ Left(k) = {FirstOf(k)} \cup Rest(k) BY FirstCommand DEF RelInv
<1>3. Fresh(k)
    <2>1. Fresh(k) \/ FirstOf(k) \in Commands(r) BY <1>2, FirstCommand DEF RelInv
    <2> QED BY <1>1, <1>2, <2>1, NotItself
<1>4. Tail(task[k].todo) = <<>> BY <1>3 DEF Fresh
<1>5. Rest(k) = {} BY <1>4, SetOfTuple DEF Rest
<1> QED BY <1>1, <1>2, <1>3, <1>5 DEF Unborn

LEMMA UnfoldGroups ==
    ASSUME RelInv, NEW k \in Worker, Unfolds(k)
    PROVE  NothingBefore' /\ Creators' /\ OwnerInv'
<1> DEFINE r == task[k].req
           h == FirstOf(k)
<1>1. PICK s : /\ Faithful(r, h, s) /\ Step(k, s) /\ k \in Open
               /\ s \in Seq(Commands(r)) /\ ToSet(s) \subseteq Commands(r)
    BY Unfolding
<1>2. UNCHANGED <<mysql, redis, wanted, clash, died>> BY DEF Unfolds
<1>3. /\ \A j \in Open' \ {k} : j \in Open /\ task'[j] = task[j] /\ Left(j)' = Left(j)
      /\ \A j \in Open \ {k} : j \in Open' /\ task'[j] = task[j] /\ Left(j)' = Left(j)
      /\ k \in Open' => task'[k].req = r /\ Left(k)' = ToSet(s) \cup Rest(k) /\ ~Fresh(k)'
    BY <1>1 DEF Step, Open, Left
<1>4. r \in Request /\ Left(k) = {h} \cup Rest(k) BY <1>1, FirstCommand DEF RelInv
<1>5. \A j \in Open' : j \in Open /\ task'[j].req = task[j].req BY <1>1, <1>3
<1>6. NothingBefore'
    <2> SUFFICES ASSUME NEW g \in Group, Unborn(g)'
                 PROVE  /\ ~GroupExists(g)'
                        /\ \A u \in User : <<g, u>> \notin redis'.group
                        /\ \A j \in Open' : \A d \in Left(j)' : WritesMember(d, g) => Creates(task'[j].req, g)
        BY DEF NothingBefore, WritesMember, Creates
    <2>1. Unborn(g)
        <3>1. CASE \E q \in wanted' : Creates(q, g) BY <1>2, <3>1 DEF Unborn
        <3>2. CASE \E j \in Open' : Creates(task'[j].req, g)
                                    /\ (Fresh(j)' \/ Insertion(task'[j].req) \in Left(j)')
            <4>1. PICK j \in Open' : Creates(task'[j].req, g)
                                    /\ (Fresh(j)' \/ Insertion(task'[j].req) \in Left(j)')
                BY <3>2
            <4>2. CASE j = k
                <5>1. Creates(r, g) BY <1>3, <4>1, <4>2
                <5> QED BY <1>1, <5>1, CreatorUnfolds
            <4>3. CASE j # k BY <1>3, <4>1, <4>3 DEF Unborn, Fresh
            <4> QED BY <4>2, <4>3
        <3> QED BY <3>1, <3>2 DEF Unborn, Creates, Insertion
    <2>2. /\ ~GroupExists(g) /\ \A u \in User : <<g, u>> \notin redis.group
          /\ \A j \in Open : \A d \in Left(j) : WritesMember(d, g) => Creates(task[j].req, g)
        BY <2>1 DEF RelInv, NothingBefore
    <2>3. ASSUME NEW j \in Open', NEW d \in Left(j)', WritesMember(d, g) PROVE Creates(task'[j].req, g)
        <3>1. CASE j = k
            <4>1. CASE d \in ToSet(s) BY <1>1, <1>3, <2>2, <2>3, <3>1, <4>1 DEF Faithful
            <4>2. CASE d \in Rest(k) BY <1>1, <1>3, <1>4, <2>2, <2>3, <3>1, <4>2
            <4> QED BY <1>3, <2>3, <3>1, <4>1, <4>2
        <3>2. CASE j # k BY <1>3, <2>2, <2>3, <3>2
        <3> QED BY <3>1, <3>2
    <2> QED BY <1>2, <2>2, <2>3 DEF GroupExists
<1>7. Creators'
    <2>1. Creators BY DEF RelInv
    <2>2. ASSUME NEW j \in Open', NEW d \in Left(j)', d.do = "update"
          PROVE  <<d.group, d.user>> \notin mysql.groups
        <3>1. CASE j = k
            <4>1. CASE d \in ToSet(s) BY <1>1, <2>2, <4>1 DEF Faithful
            <4>2. CASE d \in Rest(k) BY <1>1, <1>4, <2>1, <2>2, <4>2 DEF Creators
            <4> QED BY <1>3, <2>2, <3>1, <4>1, <4>2
        <3>2. CASE j # k BY <1>3, <2>1, <2>2, <3>2 DEF Creators
        <3> QED BY <3>1, <3>2
    <2>3. \A j \in Open' : \A q \in mysql.groups : Creates(task'[j].req, q[1]) => q[2] = task'[j].req.by
        BY <1>5, <2>1 DEF Creators
    <2> QED BY <1>2, <2>1, <2>2, <2>3 DEF Creators, Creates
<1>8. OwnerInv'
    <2> SUFFICES ASSUME NEW q \in mysql.groups, ({q[1]} \X User) \cap clash = {}
                 PROVE  Birth(q[1])' \/ Owned(q[1], q[2])' \/ Gone(q[1])'
        BY <1>2 DEF OwnerInv, Birth, Owned, Gone, NoMembers, StoresIn, Creates, Guarded, Clears, Ends
    <2> DEFINE g == q[1]
               u == q[2]
    <2>1. g \in Group /\ u \in User /\ q = <<g, u>> /\ GroupExists(g)
        BY DEF RelInv, RelationsTypeOK, GroupExists
    <2>2. ~Creates(r, g)
        <3>1. Creates(r, g) => Unborn(g) BY <1>1, <2>1, CreatorUnfolds
        <3> QED BY <2>1, <3>1 DEF RelInv, NothingBefore
    <2>3. \A j \in Open' : \A d \in Left(j)' : StoresIn(d, g) /\ NoMembers(g) =>
              j \in Open /\ d \in Left(j)
        <3>1. k \in Open' => \A d \in Left(k)' : StoresIn(d, g) /\ NoMembers(g) => d \in Left(k)
            BY <1>1, <1>3, <1>4, <2>1, <2>2 DEF Faithful
        <3> QED BY <1>3, <1>5, <3>1
    <2>4. CASE Birth(g)
        <3>1. PICK b \in Open : Creates(task[b].req, g) /\ \E d \in Left(b) : StoresIn(d, g)
            BY <2>4 DEF Birth
        <3>2. b # k BY <2>2, <3>1
        <3>3. b \in Open' /\ Creates(task'[b].req, g) /\ \E d \in Left(b)' : StoresIn(d, g)
            BY <1>3, <3>1, <3>2
        <3>4. \A j \in Open' : \A d \in Left(j)' : StoresIn(d, g) => Creates(task'[j].req, g)
            BY <1>5, <2>3, <2>4 DEF Birth
        <3> QED BY <1>2, <2>4, <3>3, <3>4 DEF Birth, NoMembers, StoresIn, Creates
    <2>5. CASE Owned(g, u)
        <3>1. /\ <<g, u, "owner">> \in mysql.group_members
              /\ \A j \in Open : Guarded(task[j].todo, g, u)
            BY <2>5 DEF Owned
        <3>2. /\ Guarded(s, g, u)
              /\ Ends(h, g, u) => \E i \in 1 .. Len(s) : Ends(s[i], g, u)
            BY <1>1, <2>1, <3>1 DEF Faithful
        <3> DEFINE X == Request \cup UNION {Commands(x) : x \in Request}
                   t == Tail(task[k].todo)
        <3>3. t \in Seq(X) BY <1>1, FirstCommand, FirstAndRest DEF RelInv
        <3>4. s \in Seq(X)
            <4>1. Commands(r) \subseteq X BY <1>4
            <4> HIDE DEF X
            <4> QED BY <1>1, <4>1
        <3>5. ~Ends(h, g, u) => Guarded(t, g, u) BY <1>1, <3>1, GuardedRest DEF RelInv
        <3> HIDE DEF X, t
        <3>6. Guarded(s \o t, g, u) BY <3>2, <3>3, <3>4, <3>5, GuardedBoth
        <3>7. ASSUME NEW j \in Open' PROVE Guarded(task'[j].todo, g, u)
            <4>1. CASE j = k
                <5>1. task'[k].todo = s \o t BY <1>1, <3>7, <4>1 DEF Step, t
                <5> QED BY <3>6, <4>1, <5>1
            <4>2. CASE j # k BY <1>3, <3>1, <3>7, <4>2
            <4> QED BY <4>1, <4>2
        <3> QED BY <1>2, <3>1, <3>7 DEF Owned, Guarded, Clears, Ends
    <2>6. CASE Gone(g)
        <3>1. \A j \in Open' : \A d \in Left(j)' : ~StoresIn(d, g) BY <2>3, <2>6 DEF Gone
        <3> QED BY <1>2, <2>6, <3>1 DEF Gone, NoMembers, StoresIn
    <2>7. Birth(g) \/ Owned(g, u) \/ Gone(g) BY DEF RelInv, OwnerInv
    <2> QED BY <2>4, <2>5, <2>6, <2>7
<1> QED BY <1>6, <1>7, <1>8

LEMMA AskGroups ==
    ASSUME RelInv, NEW k \in Worker, NEW r \in Request, Ask(k, r)
    PROVE  NothingBefore' /\ OneCreator' /\ Creators' /\ OwnerInv'
<1>1. /\ k \notin Open /\ Open' = Open \cup {k}
      /\ task'[k].req = r /\ task'[k].todo = <<r>> /\ Left(k)' = {r}
      /\ \A j \in Open : /\ task'[j].req = task[j].req /\ task'[j].todo = task[j].todo
                         /\ Left(j)' = Left(j) /\ (Fresh(j)' <=> Fresh(j))
      /\ clash \subseteq clash' /\ UNCHANGED <<mysql, redis>> /\ r \in wanted /\ wanted' = wanted \ {r}
    BY Asking
<1>3. r.do \notin {"insert", "delete", "sadd", "update"}
    BY RequestTyped DEF ToUser, OfGroup
<1>4. PICK S \in Scenario : wanted \subseteq S BY DEF RelInv, RelationsTypeOK
<1>5. \A g \in Group : Creates(r, g) => Unborn(g) BY <1>1 DEF Unborn
<1>6. NothingBefore'
    <2> SUFFICES ASSUME NEW g \in Group, Unborn(g)'
                 PROVE  /\ ~GroupExists(g)'
                        /\ \A u \in User : <<g, u>> \notin redis'.group
                        /\ \A j \in Open' : \A d \in Left(j)' : WritesMember(d, g) => Creates(task'[j].req, g)
        BY DEF NothingBefore, WritesMember, Creates
    <2>1. Unborn(g)
        <3>1. CASE \E q \in wanted' : Creates(q, g) BY <1>1, <3>1 DEF Unborn
        <3>2. CASE \E j \in Open' : Creates(task'[j].req, g)
                                    /\ (Fresh(j)' \/ Insertion(task'[j].req) \in Left(j)')
            <4>1. PICK j \in Open' : Creates(task'[j].req, g)
                                    /\ (Fresh(j)' \/ Insertion(task'[j].req) \in Left(j)')
                BY <3>2
            <4>2. CASE j = k BY <1>1, <1>5, <4>1, <4>2
            <4>3. CASE j # k BY <1>1, <4>1, <4>3 DEF Unborn
            <4> QED BY <4>2, <4>3
        <3> QED BY <3>1, <3>2 DEF Unborn, Creates, Insertion
    <2>2. /\ ~GroupExists(g) /\ \A u \in User : <<g, u>> \notin redis.group
          /\ \A j \in Open : \A d \in Left(j) : WritesMember(d, g) => Creates(task[j].req, g)
        BY <2>1 DEF RelInv, NothingBefore
    <2>3. ~WritesMember(r, g) BY <1>3 DEF WritesMember
    <2> QED BY <1>1, <2>2, <2>3 DEF GroupExists
<1>7. OneCreator'
    <2>1. ASSUME NEW g \in Group, NEW i \in Open', NEW j \in Open',
                 Creates(task'[i].req, g), Creates(task'[j].req, g)
          PROVE  i = j
        <3>1. CASE i # k /\ j # k BY <1>1, <2>1, <3>1 DEF RelInv, OneCreator
        <3>2. CASE i = k /\ j # k BY <1>1, <2>1, <3>2 DEF RelInv, OneCreator
        <3>3. CASE i # k /\ j = k BY <1>1, <2>1, <3>3 DEF RelInv, OneCreator
        <3> QED BY <3>1, <3>2, <3>3
    <2>2. ASSUME NEW g \in Group, NEW j \in Open', Creates(task'[j].req, g), NEW q \in wanted'
          PROVE  ~Creates(q, g)
        <3>1. CASE j = k
            <4>1. r \in S /\ q \in S /\ q # r BY <1>1, <1>4, <2>2
            <4>2. r.do = "GroupCreater" /\ r.group = g BY <1>1, <2>2, <3>1 DEF Creates
            <4> QED BY <4>1, <4>2, ScenarioAssumption DEF Creates
        <3>2. CASE j # k BY <1>1, <2>2, <3>2 DEF RelInv, OneCreator
        <3> QED BY <3>1, <3>2
    <2> QED BY <2>1, <2>2 DEF OneCreator, Creates
<1>8. Creators'
    <2>1. Creators BY DEF RelInv
    <2>2. \A q \in mysql.groups : ~Creates(r, q[1])
        <3>1. \A q \in mysql.groups : q[1] \in Group /\ GroupExists(q[1])
            BY DEF RelInv, RelationsTypeOK, GroupExists
        <3> QED BY <1>5, <3>1 DEF RelInv, NothingBefore
    <2>3. \A j \in Open' : \A d \in Left(j)' : d.do = "update" => <<d.group, d.user>> \notin mysql.groups
        BY <1>1, <1>3, <2>1 DEF Creators
    <2>4. \A j \in Open' : \A q \in mysql.groups : Creates(task'[j].req, q[1]) => q[2] = task'[j].req.by
        BY <1>1, <2>1, <2>2 DEF Creators
    <2> QED BY <1>1, <2>1, <2>3, <2>4 DEF Creators, Creates
<1>9. OwnerInv'
    <2> SUFFICES ASSUME NEW q \in mysql.groups, ({q[1]} \X User) \cap clash = {}
                 PROVE  Birth(q[1])' \/ Owned(q[1], q[2])' \/ Gone(q[1])'
        BY <1>1 DEF OwnerInv
    <2> DEFINE g == q[1]
               u == q[2]
    <2>1. ~StoresIn(r, g) /\ ~Clears(r, "group", <<g, u>>) BY <1>3 DEF StoresIn, Clears
    <2>2. Birth(g) => Birth(g)'
        BY <1>1, <2>1 DEF Birth, NoMembers, StoresIn, Creates
    <2>3. Gone(g) => Gone(g)'
        BY <1>1, <2>1 DEF Gone, NoMembers, StoresIn
    <2>4. Owned(g, u) => Owned(g, u)'
        <3>1. Guarded(<<r>>, g, u)
            <4>1. ToSet(<<r>>) = {r} BY SetOfTuple
            <4>2. DOMAIN <<r>> = 1 .. Len(<<r>>) OBVIOUS
            <4> QED BY <2>1, <4>1, <4>2, GuardedNone
        <3>2. ASSUME NEW j \in Open', \A i \in Open : Guarded(task[i].todo, g, u)
              PROVE  Guarded(task'[j].todo, g, u)
            BY <1>1, <3>1, <3>2
        <3> QED BY <1>1, <3>2 DEF Owned, Guarded, Clears, Ends
    <2>5. Birth(g) \/ Owned(g, u) \/ Gone(g) BY DEF RelInv, OwnerInv
    <2> QED BY <2>2, <2>3, <2>4, <2>5
<1> QED BY <1>6, <1>7, <1>8, <1>9
-----------------------------------------------------------------------------
(* What the handlers unfold into. *)

LEMMA CommandKinds ==
    ASSUME NEW r \in Request, NEW c \in Commands(r)
    PROVE  /\ c.do \in Basic \cup {"forward", "ask", "notice", "GroupExiter", "unfriend", "ungroup"}
           /\ c.do = "ask" => r.do = "GroupAdder" /\ \E a \in User :
                 c = [do |-> "ask", admin |-> a, by |-> r.by, group |-> r.group]
           /\ c.do = "notice" => r.do = "GroupAddResponser"
           /\ c.do = "forward" => r.do \in {"FriendAdder", "GroupAdder"}
           /\ c.do = "GroupExiter" => r.do = "AccountKiller" /\ \E g \in Group :
                 c = [do |-> "GroupExiter", group |-> g, by |-> r.by]
           /\ c.do = "unfriend" => r.do = "AccountKiller" /\ c = [do |-> "unfriend", by |-> r.by]
           /\ c.do = "ungroup" => r.do = "AccountKiller" /\ c = [do |-> "ungroup", by |-> r.by]
<1> USE RequestTyped DEF ToUser, OfGroup, Basic,
        Sadd, Srem, Del, Insert, Delete, SetRole, Member, Forward
<1>1. CASE r.do = "FriendAdder" BY <1>1 DEF Commands
<1>2. CASE r.do \in {"FriendAddResponser", "GroupAddResponser"} BY <1>2 DEF Commands
<1>3. CASE r.do \in {"FriendDeleter", "FriendBlocker", "FriendUnblocker"} BY <1>3 DEF Commands
<1>4. CASE r.do \in {"GroupChatter", "GroupCreater"} BY <1>4 DEF Commands
<1>5. CASE r.do = "GroupAdder" BY <1>5 DEF Commands
<1>6. CASE r.do \in {"GroupExiter", "MemberKicker"} BY <1>6 DEF Commands, Dissolution, Removal
<1>7. CASE r.do \in {"AdminAdder", "AdminRemover"} BY <1>7 DEF Commands
<1>8. CASE r.do = "AccountKiller"
    <2>1. c \in Killing(r.by) BY <1>8 DEF Commands
    <2>3. CASE c \in Statements(r.by) BY <1>8, <2>3 DEF Statements
    <2>4. CASE \E g \in Group : c = [do |-> "GroupExiter", group |-> g, by |-> r.by]
        BY <1>8, <2>4
    <2>5. CASE \E g \in Group : c \in Dissolution(g) BY <1>8, <2>5 DEF Dissolution
    <2>6. CASE \E g \in Group : c \in Removal(g, r.by) BY <1>8, <2>6 DEF Removal
    <2>7. CASE \E v \in User : c = Srem("friends", v, r.by) BY <1>8, <2>7
    <2> QED BY <2>1, <2>3, <2>4, <2>5, <2>6, <2>7, KillingCases
<1> QED BY <1>1, <1>2, <1>3, <1>4, <1>5, <1>6, <1>7, <1>8

\* The worker's first command: its request, or what the request has come to.
LEMMA HeadOf ==
    ASSUME RelInv, NEW k \in Worker, task[k] # Idle
    PROVE  /\ k \in Open /\ task[k].req \in Request
           /\ FirstOf(k) = task[k].req \/ FirstOf(k) \in Commands(task[k].req)
           /\ FirstOf(k).do \in (ToUser \cup OfGroup \cup {"AccountKiller"}) \ {"GroupExiter"}
                 => FirstOf(k) = task[k].req
<1>1. k \in Open BY DEF Open
<1>2. task[k].req \in Request /\ (FirstOf(k) = task[k].req \/ FirstOf(k) \in Commands(task[k].req))
    BY <1>1, FirstCommand DEF RelInv
<1> QED BY <1>1, <1>2, CommandKinds DEF ToUser, OfGroup, Basic

\* A command that writes no friendship, no member and no role.
Quiet(c) ==
    /\ c.do \notin {"unfriend", "ungroup", "update"}
    /\ c.do \in {"insert", "delete"} => c.table \notin {"friends", "group_members"}
    /\ c.do \in {"sadd", "srem"} => c.set = "blacklist"

LEMMA QuietEffect ==
    ASSUME NEW c, Quiet(c), NEW kind \in Kind
    PROVE  /\ \A p : /\ ~Puts(c, kind, p) /\ ~Drops(c, kind, p)
                     /\ ~Stores(c, kind, p) /\ ~Clears(c, kind, p)
           /\ \A g : ~WritesMember(c, g) /\ ~StoresIn(c, g)
BY DEF Quiet, Kind, Puts, Drops, Stores, Clears, WritesMember, StoresIn

LEMMA QuietlyFaithful ==
    ASSUME NEW r \in Request, NEW h, NEW s \in Seq(Commands(r)), \A c \in ToSet(s) : Quiet(c),
           h.do \notin Basic \cup {"unfriend", "ungroup", "GroupExiter"}, r.do # "GroupCreater"
    PROVE  Faithful(r, h, s)
<1> DEFINE S == ToSet(s)
<1>1. \A c \in S : \A kind \in Kind : \A p :
          ~Puts(c, kind, p) /\ ~Drops(c, kind, p) /\ ~Stores(c, kind, p) /\ ~Clears(c, kind, p)
    BY QuietEffect
<1>2. "friends" \in Kind /\ "group" \in Kind BY DEF Kind
<1>3. \A c \in S : \A g : ~WritesMember(c, g) /\ ~StoresIn(c, g) BY <1>2, QuietEffect
<1>4. \A c \in S : c.do # "update" BY DEF Quiet
<1>5. \A kind \in Kind : \A p : /\ ~Adds(S, kind, p) /\ ~Removes(S, kind, p)
                                /\ ~Inserts(S, kind, p) /\ ~Deletes(S, kind, p)
    BY <1>1 DEF Adds, Removes, Inserts, Deletes
<1>6. \A kind \in Kind : \A p : ~Drops(h, kind, p) BY DEF Drops, Basic, Kind
<1>7. \A g, u : ~Ends(h, g, u) BY DEF Ends, Basic, Delete
<1>8. \A g, u : Guarded(s, g, u)
    <2>1. DOMAIN s = 1 .. Len(s) OBVIOUS
    <2> QED BY <1>1, <1>2, <2>1, GuardedNone
<1> HIDE DEF S
<1> QED BY <1>2, <1>3, <1>4, <1>5, <1>6, <1>7, <1>8 DEF Faithful, S

\* A handler that writes friendships only.
LEMMA FriendlyFaithful ==
    ASSUME NEW r \in Request, NEW s \in Seq(Commands(r)), NEW u \in User, NEW v \in User,
           r.do \in {"FriendAddResponser", "FriendDeleter"},
           \A c \in ToSet(s) : \A g : ~Clears(c, "group", g) /\ ~StoresIn(c, g[1])
                                      /\ ~WritesMember(c, g[1]) /\ ~Drops(c, "group", g)
                                      /\ c.do # "update",
           \/ \A p : /\ Adds(ToSet(s), "friends", p) <=> p \in {<<u, v>>, <<v, u>>}
                     /\ Inserts(ToSet(s), "friends", p) <=> p \in {<<u, v>>, <<v, u>>}
                     /\ ~Removes(ToSet(s), "friends", p) /\ ~Deletes(ToSet(s), "friends", p)
           \/ \A p : /\ Removes(ToSet(s), "friends", p) <=> p \in {<<u, v>>, <<v, u>>}
                     /\ Deletes(ToSet(s), "friends", p) <=> p \in {<<u, v>>, <<v, u>>}
                     /\ ~Adds(ToSet(s), "friends", p) /\ ~Inserts(ToSet(s), "friends", p)
    PROVE  Faithful(r, r, s)
<1> DEFINE S == ToSet(s)
<1>1. \A c \in S : \A p \in Group \X User : /\ ~Puts(c, "group", p) /\ ~Drops(c, "group", p)
                                            /\ ~Stores(c, "group", p) /\ ~Clears(c, "group", p)
    BY DEF Puts, Stores, StoresIn, WritesMember
<1>2. \A p \in Group \X User : /\ ~Adds(S, "group", p) /\ ~Removes(S, "group", p)
                               /\ ~Inserts(S, "group", p) /\ ~Deletes(S, "group", p)
    BY <1>1 DEF Adds, Removes, Inserts, Deletes
<1>3. \A c \in S : \A g : ~WritesMember(c, g) /\ ~StoresIn(c, g)
    <2>1. SUFFICES ASSUME NEW c \in S, NEW g PROVE ~WritesMember(c, g) /\ ~StoresIn(c, g)
        OBVIOUS
    <2>2. <<g, g>>[1] = g OBVIOUS
    <2> QED BY <2>2
<1>4. \A c \in S : c.do # "update" OBVIOUS
<1>5. \A kind \in Kind : \A p : ~Drops(r, kind, p) BY DEF Drops, Kind
<1>6. \A g, x : ~Ends(r, g, x) BY DEF Ends, Delete
<1>7. \A g, x : Guarded(s, g, x)
    <2>1. DOMAIN s = 1 .. Len(s) OBVIOUS
    <2> QED BY <2>1, GuardedNone
<1>8. \A p \in User \X User :
          /\ Inserts(S, "friends", p) <=> Inserts(S, "friends", Mirror(p))
          /\ Deletes(S, "friends", p) <=> Deletes(S, "friends", Mirror(p))
    BY DEF Mirror
<1>9. \A p \in User \X User :
          /\ Adds(S, "friends", p) <=> Inserts(S, "friends", p)
          /\ Removes(S, "friends", p) <=> Deletes(S, "friends", p)
    OBVIOUS
<1>10. ASSUME NEW kind \in Kind, NEW p \in Pairs(kind)
       PROVE  /\ Adds(S, kind, p) <=> Inserts(S, kind, p)
              /\ Removes(S, kind, p) <=> Drops(r, kind, p) \/ Deletes(S, kind, p)
    BY <1>2, <1>5, <1>9 DEF Kind, Pairs
<1> HIDE DEF S
<1> QED BY <1>3, <1>4, <1>6, <1>7, <1>8, <1>10 DEF Faithful, S, Basic

LEMMA AcceptFaithful ==
    ASSUME NEW r \in Request, r.do = "FriendAddResponser",
           NEW s, s = <<Sadd("friends", r.to, r.by), Sadd("friends", r.by, r.to),
                        Insert("friends", <<r.to, r.by>>), Insert("friends", <<r.by, r.to>>),
                        Srem("blacklist", r.to, r.by), Srem("blacklist", r.by, r.to)>>
                          \o <<Delete("friend_requests", {<<r.to, r.by>>})>>
    PROVE  Faithful(r, r, s)
<1> DEFINE a == Sadd("friends", r.to, r.by)
           b == Sadd("friends", r.by, r.to)
           c == Insert("friends", <<r.to, r.by>>)
           d == Insert("friends", <<r.by, r.to>>)
           e == Srem("blacklist", r.to, r.by)
           f == Srem("blacklist", r.by, r.to)
           g == Delete("friend_requests", {<<r.to, r.by>>})
           S == {a, b, c, d, e, f, g}
<1>1. r.by \in User /\ r.to \in User BY RequestTyped DEF ToUser
<1>2. Commands(r) = S BY DEF Commands
<1>3. s \in Seq(S) /\ ToSet(s) = S
    <2> HIDE DEF a, b, c, d, e, f, g
    <2>1. <<a, b, c, d, e, f>> \in Seq(S) /\ <<g>> \in Seq(S) OBVIOUS
    <2>2. ToSet(<<a, b, c, d, e, f>>) = {a, b, c, d, e, f} /\ ToSet(<<g>>) = {g}
        BY DEF ToSet
    <2>3. s = <<a, b, c, d, e, f>> \o <<g>> BY DEF a, b, c, d, e, f, g
    <2> DEFINE x == <<a, b, c, d, e, f>>
               y == <<g>>
    <2> HIDE DEF S, x, y
    <2>4. x \in Seq(S) /\ y \in Seq(S) BY <2>1 DEF x, y
    <2>5. x \o y \in Seq(S) /\ ToSet(x \o y) = ToSet(x) \cup ToSet(y) BY <2>4, BothParts
    <2>6. s = x \o y /\ ToSet(x) = {a, b, c, d, e, f} /\ ToSet(y) = {g} BY <2>2, <2>3 DEF x, y
    <2> QED BY <2>5, <2>6 DEF S
<1>4. \A x \in S : \A q : ~Clears(x, "group", q) /\ ~StoresIn(x, q[1]) /\ ~WritesMember(x, q[1])
                          /\ ~Drops(x, "group", q) /\ x.do # "update"
    BY DEF Clears, StoresIn, WritesMember, Drops, Sadd, Insert, Srem, Delete
<1>5. \A p : /\ Adds(S, "friends", p) <=> p \in {<<r.by, r.to>>, <<r.to, r.by>>}
             /\ Inserts(S, "friends", p) <=> p \in {<<r.by, r.to>>, <<r.to, r.by>>}
             /\ ~Removes(S, "friends", p) /\ ~Deletes(S, "friends", p)
    BY DEF Adds, Removes, Inserts, Deletes, Puts, Drops, Stores, Clears, Sadd, Insert, Srem, Delete
<1> HIDE DEF S
<1> QED BY <1>1, <1>2, <1>3, <1>4, <1>5, FriendlyFaithful

LEMMA DeleterFaithful ==
    ASSUME NEW r \in Request, r.do = "FriendDeleter",
           NEW s, s = <<Srem("friends", r.by, r.to), Srem("friends", r.to, r.by),
                        Delete("friends", {<<r.by, r.to>>}), Delete("friends", {<<r.to, r.by>>})>>
    PROVE  Faithful(r, r, s)
<1> DEFINE a == Srem("friends", r.by, r.to)
           b == Srem("friends", r.to, r.by)
           c == Delete("friends", {<<r.by, r.to>>})
           d == Delete("friends", {<<r.to, r.by>>})
           S == {a, b, c, d}
<1>1. r.by \in User /\ r.to \in User BY RequestTyped DEF ToUser
<1>2. Commands(r) = S BY DEF Commands
<1>3. s \in Seq(S) /\ ToSet(s) = S
    <2> HIDE DEF a, b, c, d
    <2>1. <<a, b, c, d>> \in Seq(S) OBVIOUS
    <2>2. ToSet(<<a, b, c, d>>) = S BY DEF ToSet
    <2>3. s = <<a, b, c, d>> BY DEF a, b, c, d
    <2> QED BY <2>1, <2>2, <2>3
<1>4. \A x \in S : \A q : ~Clears(x, "group", q) /\ ~StoresIn(x, q[1]) /\ ~WritesMember(x, q[1])
                          /\ ~Drops(x, "group", q) /\ x.do # "update"
    BY DEF Clears, StoresIn, WritesMember, Drops, Srem, Delete
<1>5. \A p : /\ Removes(S, "friends", p) <=> p \in {<<r.by, r.to>>, <<r.to, r.by>>}
             /\ Deletes(S, "friends", p) <=> p \in {<<r.by, r.to>>, <<r.to, r.by>>}
             /\ ~Adds(S, "friends", p) /\ ~Inserts(S, "friends", p)
    BY DEF Adds, Removes, Inserts, Deletes, Puts, Drops, Stores, Clears, Srem, Delete
<1> HIDE DEF S
<1> QED BY <1>1, <1>2, <1>3, <1>4, <1>5, FriendlyFaithful

LEMMA GuardedEnds ==
    ASSUME NEW s, NEW g, NEW u, DOMAIN s = 1 .. Len(s), Len(s) \in Nat,
           \A c \in ToSet(s) : Clears(c, "group", <<g, u>>) => Ends(c, g, u)
    PROVE  Guarded(s, g, u)
<1>1. \A i \in 1 .. Len(s) : i \in 1 .. i OBVIOUS
<1> QED BY <1>1 DEF Guarded, ToSet

\* A handler that writes the members of one group only.
LEMMA GroupFaithful ==
    ASSUME RelInv, NEW r \in Request, NEW h, NEW s \in Seq(Commands(r)),
           NEW S, ToSet(s) = S, NEW P,
           h.do \notin Basic \cup {"unfriend", "ungroup"},
           \A c \in S : \A p : /\ ~Puts(c, "friends", p) /\ ~Drops(c, "friends", p)
                                      /\ ~Stores(c, "friends", p) /\ ~Clears(c, "friends", p),
           \A c \in S : c.do # "update",
           \/ \A p \in Group \X User :
                 /\ Adds(S, "group", p) <=> p \in P
                 /\ Inserts(S, "group", p) <=> p \in P
                 /\ ~Removes(S, "group", p) /\ ~Deletes(S, "group", p)
           \/ \A p \in Group \X User :
                 /\ Removes(S, "group", p) <=> p \in P
                 /\ Deletes(S, "group", p) <=> p \in P
                 /\ ~Adds(S, "group", p) /\ ~Inserts(S, "group", p),
           \A c \in S : \A g \in Group :
               /\ WritesMember(c, g) => GroupExists(g) \/ Creates(r, g)
               /\ StoresIn(c, g) => Creates(r, g) \/ ~NoMembers(g),
           \A g \in Group, u \in User : <<g, u, "owner">> \in mysql.group_members =>
               /\ \A c \in S : Clears(c, "group", <<g, u>>) => Ends(c, g, u)
               /\ Ends(h, g, u) => \E c \in S : Ends(c, g, u),
           r.do = "GroupCreater" => h = r /\ s = Creation(r)
    PROVE  Faithful(r, h, s)
<1>1. \A p : /\ ~Adds(S, "friends", p) /\ ~Removes(S, "friends", p)
             /\ ~Inserts(S, "friends", p) /\ ~Deletes(S, "friends", p)
    BY DEF Adds, Removes, Inserts, Deletes
<1>2. \A kind \in Kind : \A p : ~Drops(h, kind, p) BY DEF Drops, Kind, Basic
<1>3. \A p \in Group \X User : /\ Adds(S, "group", p) <=> Inserts(S, "group", p)
                               /\ Removes(S, "group", p) <=> Deletes(S, "group", p)
    OBVIOUS
<1>4. \A kind \in Kind : \A p \in Pairs(kind) :
          /\ Adds(S, kind, p) <=> Inserts(S, kind, p)
          /\ Removes(S, kind, p) <=> Drops(h, kind, p) \/ Deletes(S, kind, p)
    BY <1>1, <1>2, <1>3 DEF Kind, Pairs
<1>5. ASSUME NEW q \in mysql.groups, <<q[1], q[2], "owner">> \in mysql.group_members
      PROVE  /\ Guarded(s, q[1], q[2])
             /\ Ends(h, q[1], q[2]) => \E i \in 1 .. Len(s) : Ends(s[i], q[1], q[2])
    <2>1. q[1] \in Group /\ q[2] \in User BY DEF RelInv, RelationsTypeOK
    <2>2. DOMAIN s = 1 .. Len(s) /\ Len(s) \in Nat OBVIOUS
    <2>3. Guarded(s, q[1], q[2]) BY <1>5, <2>1, <2>2, GuardedEnds
    <2>4. Ends(h, q[1], q[2]) => \E c \in S : Ends(c, q[1], q[2]) BY <1>5, <2>1
    <2> QED BY <2>2, <2>3, <2>4 DEF ToSet
<1> QED BY <1>1, <1>4, <1>5 DEF Faithful

LEMMA HasRole ==
    ASSUME RelInv, NEW g \in Group, NEW u \in User
    PROVE  /\ RoleOf(g, u) # "none" => GroupExists(g) /\ ~NoMembers(g)
           /\ RoleOf(g, u) = "owner" <=> <<g, u, "owner">> \in mysql.group_members
           /\ RoleOf(g, u) # "none" <=> <<g, u>> \in Stored("group")
           /\ RoleOf(g, u) \in {"none", "member", "admin", "owner"}
<1> DEFINE rows == {m \in mysql.group_members : m[1] = g /\ m[2] = u}
           roles == {r[3] : r \in rows}
<1>1. \A m \in mysql.group_members : m = <<m[1], m[2], m[3]>> /\ m[3] \in Role /\ GroupExists(m[1])
    BY DEF RelInv, RelationsTypeOK, Sound, GroupExists
<1>2. RoleOf(g, u) = IF roles = {} THEN "none" ELSE IF "owner" \in roles THEN "owner"
                     ELSE IF "admin" \in roles THEN "admin" ELSE "member"
    BY DEF RoleOf
<1>3. roles = {} <=> rows = {} OBVIOUS
<1>4. "owner" \in roles <=> <<g, u, "owner">> \in mysql.group_members
    <2>1. ASSUME "owner" \in roles PROVE <<g, u, "owner">> \in mysql.group_members
        <3>1. PICK m \in rows : m[3] = "owner" BY <2>1
        <3> QED BY <1>1, <3>1
    <2>2. ASSUME <<g, u, "owner">> \in mysql.group_members PROVE "owner" \in roles
        <3>1. PICK m \in mysql.group_members : m = <<g, u, "owner">> BY <2>2
        <3>2. m \in rows /\ m[3] = "owner" BY <3>1
        <3> QED BY <3>2
    <2> QED BY <2>1, <2>2
<1>5. rows # {} => GroupExists(g) /\ ~NoMembers(g) BY <1>1 DEF NoMembers
<1>6. rows # {} <=> <<g, u>> \in Stored("group") BY <1>1 DEF Stored
<1> HIDE DEF rows, roles
<1>7. "owner" \in roles => roles # {} OBVIOUS
<1> QED BY <1>2, <1>3, <1>4, <1>5, <1>6, <1>7

LEMMA CreationFaithful ==
    ASSUME RelInv, NEW r \in Request, r.do = "GroupCreater"
    PROVE  Faithful(r, r, Creation(r))
<1> DEFINE a == Insert("groups", <<r.group, r.by>>)
           b == Sadd("group", r.group, r.by)
           c == Insert("group_members", <<r.group, r.by, "owner">>)
           S == {a, b, c}
<1>1. Creation(r) \in Seq(Commands(r)) /\ ToSet(Creation(r)) = S
    BY CreationSets DEF Insertion
<1>2. \A x \in S : \A p : /\ ~Puts(x, "friends", p) /\ ~Drops(x, "friends", p)
                          /\ ~Stores(x, "friends", p) /\ ~Clears(x, "friends", p)
    BY DEF Puts, Drops, Stores, Clears, Sadd, Insert
<1>3. \A p : /\ Adds(S, "group", p) <=> p \in {<<r.group, r.by>>}
             /\ Inserts(S, "group", p) <=> p \in {<<r.group, r.by>>}
             /\ ~Removes(S, "group", p) /\ ~Deletes(S, "group", p)
    BY DEF Adds, Removes, Inserts, Deletes, Puts, Drops, Stores, Clears, Sadd, Insert
<1>4. \A x \in S : \A g \in Group : WritesMember(x, g) \/ StoresIn(x, g) => Creates(r, g)
    BY DEF WritesMember, StoresIn, Creates, Sadd, Insert
<1>5. \A x \in S : x.do # "update" /\ \A g, u : ~Clears(x, "group", <<g, u>>)
    BY DEF Clears, Sadd, Insert
<1>6. \A g, u : ~Ends(r, g, u) BY DEF Ends, Delete
<1> HIDE DEF S
<1> QED BY <1>1, <1>2, <1>3, <1>4, <1>5, <1>6, GroupFaithful DEF Basic

LEMMA LettingInFaithful ==
    ASSUME RelInv, NEW r \in Request, r.do = "GroupAddResponser", RoleOf(r.group, r.by) # "none",
           NEW s, s = <<Sadd("group", r.group, r.to), Insert("group_members", <<r.group, r.to, "member">>)>>
                        \o <<Delete("group_requests", {r.to} \X User \X {r.group}),
                             [do |-> "notice", group |-> r.group, user |-> r.to]>>
    PROVE  Faithful(r, r, s)
<1> DEFINE a == Sadd("group", r.group, r.to)
           b == Insert("group_members", <<r.group, r.to, "member">>)
           c == Delete("group_requests", {r.to} \X User \X {r.group})
           d == [do |-> "notice", group |-> r.group, user |-> r.to]
           S == {a, b, c, d}
<1>0. r.by \in User /\ r.to \in User /\ r.group \in Group BY RequestTyped DEF ToUser, OfGroup
<1>1. Commands(r) = S BY DEF Commands
<1>2. s \in Seq(S) /\ ToSet(s) = S
    <2> HIDE DEF a, b, c, d
    <2>1. <<a, b>> \in Seq(S) /\ <<c, d>> \in Seq(S) OBVIOUS
    <2>2. ToSet(<<a, b>>) = {a, b} /\ ToSet(<<c, d>>) = {c, d} BY DEF ToSet
    <2>3. s = <<a, b>> \o <<c, d>> BY DEF a, b, c, d
    <2> DEFINE x == <<a, b>>
               y == <<c, d>>
    <2> HIDE DEF S, x, y
    <2>4. x \in Seq(S) /\ y \in Seq(S) BY <2>1 DEF x, y
    <2>5. x \o y \in Seq(S) /\ ToSet(x \o y) = ToSet(x) \cup ToSet(y) BY <2>4, BothParts
    <2>6. s = x \o y /\ ToSet(x) = {a, b} /\ ToSet(y) = {c, d} BY <2>2, <2>3 DEF x, y
    <2> QED BY <2>5, <2>6 DEF S
<1>3. \A x \in S : \A p : /\ ~Puts(x, "friends", p) /\ ~Drops(x, "friends", p)
                          /\ ~Stores(x, "friends", p) /\ ~Clears(x, "friends", p)
    BY DEF Puts, Drops, Stores, Clears, Sadd, Insert, Delete
<1>4. \A p : /\ Adds(S, "group", p) <=> p \in {<<r.group, r.to>>}
             /\ Inserts(S, "group", p) <=> p \in {<<r.group, r.to>>}
             /\ ~Removes(S, "group", p) /\ ~Deletes(S, "group", p)
    BY DEF Adds, Removes, Inserts, Deletes, Puts, Drops, Stores, Clears, Sadd, Insert, Delete
<1>5. GroupExists(r.group) /\ ~NoMembers(r.group) BY <1>0, HasRole
<1>6. \A x \in S : \A g \in Group : WritesMember(x, g) \/ StoresIn(x, g) => g = r.group
    BY DEF WritesMember, StoresIn, Sadd, Insert, Delete
<1>7. \A x \in S : x.do # "update" /\ \A g, u : ~Clears(x, "group", <<g, u>>)
    BY DEF Clears, Sadd, Insert, Delete
<1>8. \A g, u : ~Ends(r, g, u) BY DEF Ends, Delete
<1> HIDE DEF S
<1>9. s \in Seq(Commands(r)) BY <1>1, <1>2
<1>10. r.do \notin Basic \cup {"unfriend", "ungroup"} /\ r.do # "GroupCreater" BY DEF Basic
<1>11. \A x \in S : x.do # "update" BY <1>7
<1>12. \A x \in S : \A g \in Group : /\ WritesMember(x, g) => GroupExists(g) \/ Creates(r, g)
                                     /\ StoresIn(x, g) => Creates(r, g) \/ ~NoMembers(g)
    BY <1>5, <1>6
<1>13. \A g \in Group, u \in User : <<g, u, "owner">> \in mysql.group_members =>
          /\ \A x \in S : Clears(x, "group", <<g, u>>) => Ends(x, g, u)
          /\ Ends(r, g, u) => \E x \in S : Ends(x, g, u)
    BY <1>7, <1>8
<1>14. ToSet(s) = S BY <1>2
<1> DEFINE P == {<<r.group, r.to>>}
<1>15. \A p \in Group \X User :
             /\ Adds(S, "group", p) <=> p \in P
             /\ Inserts(S, "group", p) <=> p \in P
             /\ ~Removes(S, "group", p) /\ ~Deletes(S, "group", p)
    BY <1>4
<1> HIDE DEF S, P
<1> QED BY <1>3, <1>9, <1>10, <1>11, <1>12, <1>13, <1>14, <1>15, GroupFaithful

LEMMA RemovalFaithful ==
    ASSUME RelInv, NEW r \in Request, NEW g \in Group, NEW u \in User, RoleOf(g, u) # "owner",
           Removal(g, u) \subseteq Commands(r), r.do # "GroupCreater",
           NEW h, h.do \in {"GroupExiter", "MemberKicker"},
           h.do = "GroupExiter" => h.group = g /\ h.by = u,
           NEW s, s = <<Srem("group", g, u), Delete("group_members", Member(g, u))>>
    PROVE  Faithful(r, h, s)
<1> DEFINE a == Srem("group", g, u)
           b == Delete("group_members", Member(g, u))
           S == {a, b}
<1>1. s \in Seq(Commands(r)) /\ ToSet(s) = S
    <2>1. a \in Commands(r) /\ b \in Commands(r) BY DEF Removal
    <2> HIDE DEF a, b
    <2>2. s = <<a, b>> BY DEF a, b
    <2> QED BY <2>1, <2>2 DEF ToSet
<1>2. \A x \in S : \A p : /\ ~Puts(x, "friends", p) /\ ~Drops(x, "friends", p)
                          /\ ~Stores(x, "friends", p) /\ ~Clears(x, "friends", p)
    BY DEF Puts, Drops, Stores, Clears, Srem, Delete
<1>3. \A p : Clears(b, "group", p) <=> <<p[1], p[2]>> = <<g, u>>
    BY DEF Clears, Delete, Member, Role
<1>4. ASSUME NEW p \in Group \X User
      PROVE  /\ Removes(S, "group", p) <=> p \in {<<g, u>>}
             /\ Deletes(S, "group", p) <=> p \in {<<g, u>>}
             /\ ~Adds(S, "group", p) /\ ~Inserts(S, "group", p)
    <2>1. Drops(a, "group", p) <=> p = <<g, u>> BY DEF Drops, Srem
    <2>2. ~Drops(b, "group", p) /\ ~Clears(a, "group", p) BY DEF Drops, Clears, Srem, Delete
    <2>3. p = <<p[1], p[2]>> OBVIOUS
    <2>4. ~Puts(a, "group", p) /\ ~Puts(b, "group", p) /\ ~Stores(a, "group", p) /\ ~Stores(b, "group", p)
        BY DEF Puts, Stores, Srem, Delete
    <2> HIDE DEF a, b
    <2> QED BY <1>3, <2>1, <2>2, <2>3, <2>4 DEF Adds, Removes, Inserts, Deletes
<1>5. \A x \in S : x.do # "update" /\ \A q : ~WritesMember(x, q) /\ ~StoresIn(x, q)
    BY DEF WritesMember, StoresIn, Srem, Delete
<1>6. \A q \in Group, v \in User : <<q, v, "owner">> \in mysql.group_members => <<q, v>> # <<g, u>>
    BY HasRole
<1>7. \A q \in Group, v \in User : <<q, v>> # <<g, u>> =>
          /\ ~Clears(a, "group", <<q, v>>) /\ ~Clears(b, "group", <<q, v>>)
    <2>1. \A q, v : ~Clears(a, "group", <<q, v>>) BY DEF Clears, Srem
    <2>2. ASSUME NEW q, NEW v, Clears(b, "group", <<q, v>>) PROVE <<q, v>> = <<g, u>>
        BY <2>2, <1>3
    <2> HIDE DEF a, b
    <2> QED BY <2>1, <2>2
<1>8. \A q \in Group, v \in User : Ends(h, q, v) => <<q, v>> = <<g, u>>
    BY DEF Ends, Delete
<1>9. h.do \notin Basic \cup {"unfriend", "ungroup"} BY DEF Basic
<1>10. \A x \in S : \A q \in Group : /\ WritesMember(x, q) => GroupExists(q) \/ Creates(r, q)
                                     /\ StoresIn(x, q) => Creates(r, q) \/ ~NoMembers(q)
    BY <1>5
<1>11. \A x \in S : x.do # "update" BY <1>5
<1>12. \A q \in Group, v \in User : <<q, v, "owner">> \in mysql.group_members =>
          /\ \A x \in S : Clears(x, "group", <<q, v>>) => Ends(x, q, v)
          /\ Ends(h, q, v) => \E x \in S : Ends(x, q, v)
    <2> HIDE DEF a, b
    <2> QED BY <1>6, <1>7, <1>8
<1> DEFINE P == {<<g, u>>}
<1>13. \A p \in Group \X User :
             /\ Removes(S, "group", p) <=> p \in P
             /\ Deletes(S, "group", p) <=> p \in P
             /\ ~Adds(S, "group", p) /\ ~Inserts(S, "group", p)
    BY <1>4
<1> HIDE DEF S, P
<1> QED BY <1>1, <1>2, <1>9, <1>10, <1>11, <1>12, <1>13, GroupFaithful

LEMMA DissolutionFaithful ==
    ASSUME RelInv, NEW r \in Request, NEW g \in Group,
           Dissolution(g) \subseteq Commands(r), r.do # "GroupCreater",
           NEW h, h.do = "GroupExiter", h.group = g,
           NEW s, s = <<Del("group", g), Delete("group_members", {g} \X User \X Role),
                        Delete("group_messages", {g} \X User), Delete("groups", {g} \X User)>>
    PROVE  Faithful(r, h, s)
<1> DEFINE a == Del("group", g)
           b == Delete("group_members", {g} \X User \X Role)
           c == Delete("group_messages", {g} \X User)
           d == Delete("groups", {g} \X User)
           S == {a, b, c, d}
           P == {g} \X User
<1>1. s \in Seq(Commands(r)) /\ ToSet(s) = S
    <2>1. a \in Commands(r) /\ b \in Commands(r) /\ c \in Commands(r) /\ d \in Commands(r)
        BY DEF Dissolution
    <2> HIDE DEF a, b, c, d
    <2>2. s = <<a, b, c, d>> BY DEF a, b, c, d
    <2> DEFINE X == Commands(r)
    <2>3. a \in X /\ b \in X /\ c \in X /\ d \in X BY <2>1
    <2> HIDE DEF X
    <2>4. <<a, b, c, d>> \in Seq(X) BY <2>3
    <2>5. ToSet(<<a, b, c, d>>) = {a, b, c, d} BY DEF ToSet
    <2> QED BY <2>2, <2>4, <2>5 DEF X
<1>2. \A x \in S : \A p : /\ ~Puts(x, "friends", p) /\ ~Drops(x, "friends", p)
                          /\ ~Stores(x, "friends", p) /\ ~Clears(x, "friends", p)
    BY DEF Puts, Drops, Stores, Clears, Del, Delete
<1>3. \A p : Clears(b, "group", p) <=> <<p[1], p[2]>> \in P
    BY DEF Clears, Delete, Role
<1>4. ASSUME NEW p \in Group \X User
      PROVE  /\ Removes(S, "group", p) <=> p \in P
             /\ Deletes(S, "group", p) <=> p \in P
             /\ ~Adds(S, "group", p) /\ ~Inserts(S, "group", p)
    <2>1. Drops(a, "group", p) <=> p \in P BY DEF Drops, Del
    <2>2. /\ ~Drops(b, "group", p) /\ ~Drops(c, "group", p) /\ ~Drops(d, "group", p)
          /\ ~Clears(a, "group", p) /\ ~Clears(c, "group", p) /\ ~Clears(d, "group", p)
        BY DEF Drops, Clears, Del, Delete
    <2>3. p = <<p[1], p[2]>> OBVIOUS
    <2>4. \A x \in S : ~Puts(x, "group", p) /\ ~Stores(x, "group", p)
        BY DEF Puts, Stores, Del, Delete
    <2> HIDE DEF a, b, c, d, P
    <2> QED BY <1>3, <2>1, <2>2, <2>3, <2>4 DEF Adds, Removes, Inserts, Deletes
<1>5. \A x \in S : x.do # "update" /\ \A q : ~WritesMember(x, q) /\ ~StoresIn(x, q)
    BY DEF WritesMember, StoresIn, Del, Delete
<1>6. \A p : ~Clears(a, "group", p) /\ ~Clears(c, "group", p) /\ ~Clears(d, "group", p)
    BY DEF Clears, Del, Delete
<1>7. \A q, v : <<q, v>> \in P => Ends(b, q, v) BY DEF Ends
<1>8. ASSUME NEW q \in Group, NEW v \in User
      PROVE  /\ \A x \in S : Clears(x, "group", <<q, v>>) => Ends(x, q, v)
             /\ Ends(h, q, v) => \E x \in S : Ends(x, q, v)
    <2>1. Ends(h, q, v) => q = g BY DEF Ends, Delete
    <2>2. q = g => <<q, v>> \in P OBVIOUS
    <2>3. <<<<q, v>>[1], <<q, v>>[2]>> = <<q, v>> OBVIOUS
    <2> HIDE DEF a, b, c, d, P
    <2>4. Clears(b, "group", <<q, v>>) => <<q, v>> \in P BY <1>3, <2>3
    <2> QED BY <1>6, <1>7, <2>1, <2>2, <2>4
<1>9. h.do \notin Basic \cup {"unfriend", "ungroup"} BY DEF Basic
<1>10. \A x \in S : \A q \in Group : /\ WritesMember(x, q) => GroupExists(q) \/ Creates(r, q)
                                     /\ StoresIn(x, q) => Creates(r, q) \/ ~NoMembers(q)
    BY <1>5
<1>11. \A x \in S : x.do # "update" BY <1>5
<1>12. \A q \in Group, v \in User : <<q, v, "owner">> \in mysql.group_members =>
          /\ \A x \in S : Clears(x, "group", <<q, v>>) => Ends(x, q, v)
          /\ Ends(h, q, v) => \E x \in S : Ends(x, q, v)
    BY <1>8
<1> HIDE DEF S, P
<1> QED BY <1>1, <1>2, <1>4, <1>9, <1>10, <1>11, <1>12, GroupFaithful

\* The creator changes the role of somebody else who has one.
LEMMA RoleFaithful ==
    ASSUME RelInv, NEW r \in Request, r.do \in {"AdminAdder", "AdminRemover"},
           <<r.group, r.by>> \in mysql.groups, r.to # r.by,
           NEW role, role = (IF r.do = "AdminAdder" THEN "admin" ELSE "member"),
           NEW s, s = <<SetRole(r.group, r.to, role)>>
    PROVE  Faithful(r, r, s)
<1> DEFINE a == SetRole(r.group, r.to, role)
           S == {a}
<1>0. r.by \in User /\ r.to \in User /\ r.group \in Group BY RequestTyped DEF ToUser, OfGroup
<1>1. s \in Seq(Commands(r)) /\ ToSet(s) = S
    <2>1. a \in Commands(r) BY DEF Commands
    <2> HIDE DEF a
    <2>2. s = <<a>> BY DEF a
    <2> QED BY <2>1, <2>2 DEF ToSet
<1>2. \A kind \in Kind : \A p : /\ ~Puts(a, kind, p) /\ ~Drops(a, kind, p)
                                /\ ~Stores(a, kind, p) /\ ~Clears(a, kind, p)
    BY DEF Puts, Drops, Stores, Clears, SetRole, Kind
<1>3. \A kind \in Kind : \A p : /\ ~Adds(S, kind, p) /\ ~Removes(S, kind, p)
                                /\ ~Inserts(S, kind, p) /\ ~Deletes(S, kind, p)
    BY <1>2 DEF Adds, Removes, Inserts, Deletes
<1>4. \A kind \in Kind : \A p : ~Drops(r, kind, p) BY DEF Drops, Kind
<1>5. \A g \in Group : ~StoresIn(a, g) /\ (WritesMember(a, g) => GroupExists(g))
    BY DEF StoresIn, WritesMember, SetRole, GroupExists
<1>6. a.do = "update" /\ <<a.group, a.user>> \notin mysql.groups
    <2>1. <<r.group, r.to>> \notin mysql.groups BY <1>0 DEF RelInv, Creators
    <2> QED BY <2>1 DEF SetRole
<1>7. "group" \in Kind /\ "friends" \in Kind BY DEF Kind
<1>8. \A g, u : Guarded(s, g, u)
    <2>1. DOMAIN s = 1 .. Len(s) BY <1>1
    <2> HIDE DEF S, a
    <2>2. \A c \in ToSet(s) : c = a BY <1>1 DEF S
    <2> QED BY <1>2, <1>7, <2>1, <2>2, GuardedNone
<1>9. \A g, u : ~Ends(r, g, u) BY DEF Ends, Delete
<1>10. r.do \notin Basic \cup {"GroupCreater"} BY DEF Basic
<1>11. \A c \in S : c = a OBVIOUS
<1> HIDE DEF S, a
<1> QED BY <1>1, <1>3, <1>4, <1>5, <1>6, <1>7, <1>8, <1>9, <1>10, <1>11 DEF Faithful

LEMMA AnElement ==
    ASSUME NEW S, IsFiniteSet(S)
    PROVE  \A i \in 1 .. Len(SetToSeq(S)) : SetToSeq(S)[i] \in S
<1> DEFINE q == SetToSeq(S)
<1>1. q \in Seq(S) BY EachElement
<1> HIDE DEF q
<1>2. \A i \in 1 .. Len(q) : q[i] \in S BY <1>1
<1> QED BY <1>2 DEF q

\* One command for each element.
LEMMA EachCommand ==
    ASSUME NEW S, IsFiniteSet(S), NEW f
    PROVE  /\ [i \in 1 .. Len(SetToSeq(S)) |-> f[SetToSeq(S)[i]]] \in Seq({f[x] : x \in S})
           /\ ToSet([i \in 1 .. Len(SetToSeq(S)) |-> f[SetToSeq(S)[i]]]) = {f[x] : x \in S}
<1> DEFINE q == SetToSeq(S)
           X == {f[x] : x \in S}
           s == [i \in 1 .. Len(SetToSeq(S)) |-> f[SetToSeq(S)[i]]]
<1>1. q \in Seq(S) /\ ToSet(q) = S BY EachElement
<1>2. s = [i \in 1 .. Len(q) |-> f[q[i]]] OBVIOUS
<1> HIDE DEF q, s
<1>3. Len(q) \in Nat /\ DOMAIN q = 1 .. Len(q) /\ \A i \in 1 .. Len(q) : q[i] \in S BY <1>1
<1>4. \A x \in S : \E i \in 1 .. Len(q) : q[i] = x BY <1>1, <1>3 DEF ToSet
<1>5. \A i \in 1 .. Len(q) : s[i] \in X BY <1>2, <1>3
<1>6. DOMAIN s = 1 .. Len(q) BY <1>2
<1>7. s \in Seq(X)
    <2> HIDE DEF X
    <2>1. s \in [1 .. Len(q) -> X] BY <1>2, <1>5, <1>6
    <2> QED BY <1>3, <2>1
<1>8. ToSet(s) \subseteq X BY <1>5, <1>6 DEF ToSet
<1>9. X \subseteq ToSet(s)
    <2>1. ASSUME NEW x \in S PROVE f[x] \in ToSet(s)
        <3>1. PICK i \in 1 .. Len(q) : q[i] = x BY <1>4
        <3>2. s[i] = f[x] BY <1>2, <3>1
        <3> QED BY <1>6, <3>2 DEF ToSet
    <2> QED BY <2>1
<1> QED BY <1>7, <1>8, <1>9 DEF s

LEMMA UnfriendFaithful ==
    ASSUME RelInv, NEW r \in Request, r.do = "AccountKiller",
           NEW h, h = [do |-> "unfriend", by |-> r.by],
           NEW s, s = [i \in 1 .. Len(SetToSeq(mysql.users)) |->
                          Srem("friends", SetToSeq(mysql.users)[i], r.by)]
    PROVE  Faithful(r, h, s)
<1> DEFINE V == mysql.users
           f == [v \in V |-> Srem("friends", v, r.by)]
           S == {f[v] : v \in V}
<1>1. V \subseteq User /\ IsFiniteSet(V) /\ r.by \in User
    <2>1. V \subseteq User BY DEF RelInv, RelationsTypeOK
    <2> QED BY <2>1, FiniteAssumption, FS_Subset, RequestTyped
<1>2. s = [i \in 1 .. Len(SetToSeq(V)) |-> f[SetToSeq(V)[i]]]
    <2>1. \A i \in 1 .. Len(SetToSeq(V)) : SetToSeq(V)[i] \in V BY <1>1, AnElement
    <2> QED BY <2>1
<1>3. S = {Srem("friends", v, r.by) : v \in V} OBVIOUS
<1>4. s \in Seq(S) /\ ToSet(s) = S
    <2>1. S = {f[v] : v \in V} OBVIOUS
    <2> HIDE DEF S, f, V
    <2> QED BY <1>1, <1>2, <2>1, EachCommand
<1> HIDE DEF f
<1>5. S \subseteq Commands(r)
    <2>1. \A v \in V : Srem("friends", v, r.by) \in Killing(r.by) BY <1>1 DEF Killing
    <2>2. Commands(r) = Killing(r.by) BY DEF Commands
    <2> QED BY <1>3, <2>1, <2>2
<1>6. \A c \in S : /\ \A kind \in Kind : \A p : /\ ~Puts(c, kind, p) /\ ~Stores(c, kind, p)
                                                /\ ~Clears(c, kind, p)
                   /\ \A p : ~Drops(c, "group", p)
                   /\ \A g : ~WritesMember(c, g) /\ ~StoresIn(c, g)
                   /\ c.do # "update"
    BY <1>3 DEF Kind, Puts, Stores, Clears, Drops, WritesMember, StoresIn, Srem
<1>7. \A p \in User \X User : Real("friends", p) =>
          (Removes(S, "friends", p) <=> Drops(h, "friends", p))
    <2> SUFFICES ASSUME NEW p \in User \X User, Real("friends", p)
                 PROVE  Removes(S, "friends", p) <=> Drops(h, "friends", p)
        OBVIOUS
    <2>1. p[1] \in V /\ p = <<p[1], p[2]>> BY DEF Real
    <2>2. Drops(h, "friends", p) <=> p[2] = r.by BY DEF Drops
    <2>3. \A v : Drops(Srem("friends", v, r.by), "friends", p) <=> p = <<v, r.by>>
        BY DEF Drops, Srem
    <2>4. Removes(S, "friends", p) <=> \E v \in V : p = <<v, r.by>> BY <1>3, <2>3 DEF Removes
    <2> QED BY <2>1, <2>2, <2>4
<1>8. \A p : ~Drops(h, "group", p) BY DEF Drops
<1>9. "friends" \in Kind /\ "group" \in Kind BY DEF Kind
<1>10. \A g, u : Guarded(s, g, u)
    <2>1. DOMAIN s = 1 .. Len(s) BY <1>4
    <2> QED BY <1>4, <1>6, <1>9, <2>1, GuardedNone
<1>11. \A g, u : ~Ends(h, g, u) BY DEF Ends, Delete
<1>12. h.do \notin Basic BY DEF Basic
<1> HIDE DEF S
<1>13. \A kind \in Kind : \A p : ~Adds(S, kind, p) /\ ~Inserts(S, kind, p) /\ ~Deletes(S, kind, p)
    BY <1>6 DEF Adds, Inserts, Deletes
<1>14. \A p : ~Removes(S, "group", p) BY <1>6 DEF Removes
<1>15. \A kind \in Kind : \A p \in Pairs(kind) : Real(kind, p) =>
           (Removes(S, kind, p) <=> Drops(h, kind, p) \/ Deletes(S, kind, p))
    BY <1>7, <1>8, <1>13, <1>14 DEF Kind, Pairs
<1>16. s \in Seq(Commands(r)) BY <1>4, <1>5
<1> QED BY <1>4, <1>6, <1>9, <1>10, <1>11, <1>12, <1>13, <1>15, <1>16 DEF Faithful

LEMMA UngroupFaithful ==
    ASSUME RelInv, NEW r \in Request, r.do = "AccountKiller",
           NEW h, h = [do |-> "ungroup", by |-> r.by],
           NEW s, s = [i \in 1 .. Len(SetToSeq({q[1] : q \in mysql.groups})) |->
                          Srem("group", SetToSeq({q[1] : q \in mysql.groups})[i], r.by)]
    PROVE  Faithful(r, h, s)
<1> DEFINE V == {q[1] : q \in mysql.groups}
           f == [v \in V |-> Srem("group", v, r.by)]
           S == {f[v] : v \in V}
<1>1. V \subseteq Group /\ IsFiniteSet(V) /\ r.by \in User /\ \A g : g \in V <=> GroupExists(g)
    <2>1. V \subseteq Group BY DEF RelInv, RelationsTypeOK
    <2>2. \A g : g \in V <=> GroupExists(g) BY DEF GroupExists
    <2> QED BY <2>1, <2>2, FiniteAssumption, FS_Subset, RequestTyped
<1>2. s = [i \in 1 .. Len(SetToSeq(V)) |-> f[SetToSeq(V)[i]]]
    <2>1. \A i \in 1 .. Len(SetToSeq(V)) : SetToSeq(V)[i] \in V BY <1>1, AnElement
    <2> QED BY <2>1
<1>3. S = {Srem("group", v, r.by) : v \in V} OBVIOUS
<1>4. s \in Seq(S) /\ ToSet(s) = S
    <2> HIDE DEF f, V
    <2>1. IsFiniteSet(V) BY <1>1
    <2>2. /\ [i \in 1 .. Len(SetToSeq(V)) |-> f[SetToSeq(V)[i]]] \in Seq(S)
          /\ ToSet([i \in 1 .. Len(SetToSeq(V)) |-> f[SetToSeq(V)[i]]]) = S
        BY <2>1, EachCommand
    <2> HIDE DEF S
    <2> QED BY <1>2, <2>2
<1> HIDE DEF f
<1>5. S \subseteq Commands(r)
    <2>1. \A v \in V : Srem("group", v, r.by) \in Killing(r.by) BY <1>1 DEF Killing, Removal
    <2>2. Commands(r) = Killing(r.by) BY DEF Commands
    <2> QED BY <1>3, <2>1, <2>2
<1>6. \A c \in S : /\ \A kind \in Kind : \A p : /\ ~Puts(c, kind, p) /\ ~Stores(c, kind, p)
                                                /\ ~Clears(c, kind, p)
                   /\ \A p : ~Drops(c, "friends", p)
                   /\ \A g : ~WritesMember(c, g) /\ ~StoresIn(c, g)
                   /\ c.do # "update"
    BY <1>3 DEF Kind, Puts, Stores, Clears, Drops, WritesMember, StoresIn, Srem
<1>7. \A p \in Group \X User : Real("group", p) =>
          (Removes(S, "group", p) <=> Drops(h, "group", p))
    <2> SUFFICES ASSUME NEW p \in Group \X User, Real("group", p)
                 PROVE  Removes(S, "group", p) <=> Drops(h, "group", p)
        OBVIOUS
    <2>1. p[1] \in V /\ p = <<p[1], p[2]>> BY <1>1 DEF Real
    <2>2. Drops(h, "group", p) <=> p[2] = r.by BY DEF Drops
    <2>3. \A v : Drops(Srem("group", v, r.by), "group", p) <=> p = <<v, r.by>>
        BY DEF Drops, Srem
    <2>4. Removes(S, "group", p) <=> \E v \in V : p = <<v, r.by>> BY <1>3, <2>3 DEF Removes
    <2> QED BY <2>1, <2>2, <2>4
<1>8. \A p : ~Drops(h, "friends", p) BY DEF Drops
<1>9. "friends" \in Kind /\ "group" \in Kind BY DEF Kind
<1>10. \A g, u : Guarded(s, g, u)
    <2>1. DOMAIN s = 1 .. Len(s) BY <1>4
    <2> QED BY <1>4, <1>6, <1>9, <2>1, GuardedNone
<1>11. \A g, u : ~Ends(h, g, u) BY DEF Ends, Delete
<1>12. h.do \notin Basic BY DEF Basic
<1> HIDE DEF S
<1>13. \A kind \in Kind : \A p : ~Adds(S, kind, p) /\ ~Inserts(S, kind, p) /\ ~Deletes(S, kind, p)
    BY <1>6 DEF Adds, Inserts, Deletes
<1>14. \A p : ~Removes(S, "friends", p) BY <1>6 DEF Removes
<1>15. \A kind \in Kind : \A p \in Pairs(kind) : Real(kind, p) =>
           (Removes(S, kind, p) <=> Drops(h, kind, p) \/ Deletes(S, kind, p))
    BY <1>7, <1>8, <1>13, <1>14 DEF Kind, Pairs
<1>16. s \in Seq(Commands(r)) BY <1>4, <1>5
<1> QED BY <1>4, <1>6, <1>9, <1>10, <1>11, <1>12, <1>13, <1>15, <1>16 DEF Faithful

Own(u) == {q[1] : q \in {x \in mysql.groups : x[2] = u}}

Exit(g, u) == [do |-> "GroupExiter", group |-> g, by |-> u]

LEMMA ExitsOf ==
    ASSUME RelInv, NEW r \in Request, r.do = "AccountKiller",
           NEW s, s = [i \in 1 .. Len(SetToSeq(Own(r.by))) |-> Exit(SetToSeq(Own(r.by))[i], r.by)]
    PROVE  /\ s \in Seq(Commands(r)) /\ ToSet(s) = {Exit(g, r.by) : g \in Own(r.by)}
           /\ \A g, u : <<g, u>> \in mysql.groups /\ u = r.by => \E i \in 1 .. Len(s) : Ends(s[i], g, u)
<1> DEFINE V == Own(r.by)
           f == [v \in V |-> Exit(v, r.by)]
           S == {f[v] : v \in V}
<1>1. V \subseteq Group /\ IsFiniteSet(V) /\ r.by \in User
    <2>1. V \subseteq Group BY DEF RelInv, RelationsTypeOK, Own
    <2> QED BY <2>1, FiniteAssumption, FS_Subset, RequestTyped
<1> HIDE DEF V
<1>2. s = [i \in 1 .. Len(SetToSeq(V)) |-> f[SetToSeq(V)[i]]]
    <2>1. \A i \in 1 .. Len(SetToSeq(V)) : SetToSeq(V)[i] \in V BY <1>1, AnElement
    <2> QED BY <2>1 DEF V
<1>3. S = {Exit(v, r.by) : v \in V} OBVIOUS
<1>4. s \in Seq(S) /\ ToSet(s) = S
    <2> HIDE DEF f
    <2>1. IsFiniteSet(V) BY <1>1
    <2>2. /\ [i \in 1 .. Len(SetToSeq(V)) |-> f[SetToSeq(V)[i]]] \in Seq(S)
          /\ ToSet([i \in 1 .. Len(SetToSeq(V)) |-> f[SetToSeq(V)[i]]]) = S
        BY <2>1, EachCommand
    <2> HIDE DEF S
    <2> QED BY <1>2, <2>2
<1>5. S \subseteq Commands(r)
    <2>1. \A v \in V : Exit(v, r.by) \in Killing(r.by) BY <1>1 DEF Killing, Exit
    <2>2. Commands(r) = Killing(r.by) BY DEF Commands
    <2> QED BY <1>3, <2>1, <2>2
<1>6. \A g : <<g, r.by>> \in mysql.groups => Exit(g, r.by) \in S
    <2>1. \A g : <<g, r.by>> \in mysql.groups => g \in V
        <3>1. SUFFICES ASSUME NEW g, <<g, r.by>> \in mysql.groups PROVE g \in V OBVIOUS
        <3>2. PICK q \in mysql.groups : q = <<g, r.by>> BY <3>1
        <3>3. q[1] = g /\ q[2] = r.by BY <3>2
        <3> QED BY <3>3 DEF V, Own
    <2> QED BY <1>3, <2>1
<1>7. \A g : Ends(Exit(g, r.by), g, r.by) BY DEF Ends, Exit
<1> HIDE DEF S
<1>8. DOMAIN s = 1 .. Len(s) BY <1>4
<1>9. \A c \in S : \E i \in 1 .. Len(s) : s[i] = c BY <1>4, <1>8 DEF ToSet
<1>10. s \in Seq(Commands(r)) BY <1>4, <1>5
<1>11. ASSUME NEW g, <<g, r.by>> \in mysql.groups PROVE \E i \in 1 .. Len(s) : Ends(s[i], g, r.by)
    <2>1. PICK i \in 1 .. Len(s) : s[i] = Exit(g, r.by) BY <1>6, <1>9, <1>11
    <2> QED BY <1>7, <2>1
<1>12. ToSet(s) = {Exit(g, r.by) : g \in Own(r.by)} BY <1>3, <1>4 DEF V
<1> QED BY <1>10, <1>11, <1>12

LEMMA StatementSeq ==
    ASSUME NEW u,
           NEW s, s = <<Del("blacklist", u),
                Delete("friend_requests", {u} \X User), Delete("friend_requests", User \X {u}),
                Delete("group_requests", {u} \X User \X Group),
                Delete("group_requests", User \X {u} \X Group),
                Delete("friends", {u} \X User), Delete("friends", User \X {u}),
                Del("friends", u),
                [do |-> "unfriend", by |-> u],
                Delete("group_members", Group \X {u} \X Role),
                [do |-> "ungroup", by |-> u],
                Delete("users", {u})>>
    PROVE  s \in Seq(Statements(u)) /\ ToSet(s) = Statements(u)
<1> DEFINE a == Del("blacklist", u)
           b == Delete("friend_requests", {u} \X User)
           c == Delete("friend_requests", User \X {u})
           d == Delete("group_requests", {u} \X User \X Group)
           e == Delete("group_requests", User \X {u} \X Group)
           f == Delete("friends", {u} \X User)
           g == Delete("friends", User \X {u})
           h == Del("friends", u)
           i == [do |-> "unfriend", by |-> u]
           j == Delete("group_members", Group \X {u} \X Role)
           k == [do |-> "ungroup", by |-> u]
           l == Delete("users", {u})
           S == {a, b, c, d, e, f, g, h, i, j, k, l}
<1>1. Statements(u) = S BY DEF Statements
<1>2. s = <<a, b, c, d, e, f, g, h, i, j, k, l>> OBVIOUS
<1> HIDE DEF a, b, c, d, e, f, g, h, i, j, k, l
<1>3. a \in S /\ b \in S /\ c \in S /\ d \in S /\ e \in S /\ f \in S OBVIOUS
<1>4. g \in S /\ h \in S /\ i \in S /\ j \in S /\ k \in S /\ l \in S OBVIOUS
<1>5. s \in Seq(S)
    <2> HIDE DEF S
    <2> QED BY <1>2, <1>3, <1>4
<1>6. DOMAIN s = 1 .. 12 BY <1>2
<1>7. /\ s[1] = a /\ s[2] = b /\ s[3] = c /\ s[4] = d /\ s[5] = e /\ s[6] = f
      /\ s[7] = g /\ s[8] = h /\ s[9] = i /\ s[10] = j /\ s[11] = k /\ s[12] = l
    BY <1>2
<1>8. 1 .. 12 = {1, 2, 3, 4, 5, 6, 7, 8, 9, 10, 11, 12} OBVIOUS
<1>9. ToSet(s) = S
    <2>1. ToSet(s) \subseteq S
        <3> HIDE DEF S
        <3>1. s \in Seq(S) /\ Len(s) = 12 BY <1>2, <1>5
        <3>2. \A n \in 1 .. Len(s) : s[n] \in S BY <3>1
        <3> QED BY <1>6, <3>1, <3>2 DEF ToSet
    <2>2. \A n \in 1 .. 12 : s[n] \in ToSet(s) BY <1>6 DEF ToSet
    <2>3. /\ s[1] \in ToSet(s) /\ s[2] \in ToSet(s) /\ s[3] \in ToSet(s) /\ s[4] \in ToSet(s)
          /\ s[5] \in ToSet(s) /\ s[6] \in ToSet(s) /\ s[7] \in ToSet(s) /\ s[8] \in ToSet(s)
          /\ s[9] \in ToSet(s) /\ s[10] \in ToSet(s) /\ s[11] \in ToSet(s) /\ s[12] \in ToSet(s)
        BY <2>2
    <2> QED BY <1>7, <2>1, <2>3
<1> QED BY <1>1, <1>5, <1>9

\* What the statements do to a pair.
LEMMA StatementEffect ==
    ASSUME NEW u \in User
    PROVE  /\ \A p \in User \X User :
                 /\ Removes(Statements(u), "friends", p) <=> p[1] = u \/ p[2] = u
                 /\ Deletes(Statements(u), "friends", p) <=> p[1] = u \/ p[2] = u
           /\ \A p \in Group \X User :
                 /\ Removes(Statements(u), "group", p) <=> p[2] = u
                 /\ Deletes(Statements(u), "group", p) <=> p[2] = u
           /\ \A c \in Statements(u) : /\ \A kind \in Kind : \A p : ~Puts(c, kind, p) /\ ~Stores(c, kind, p)
                                       /\ \A g : ~WritesMember(c, g) /\ ~StoresIn(c, g)
                                       /\ c.do # "update"
                                       /\ c.do \in {"srem", "delete", "unfriend", "ungroup"}
<1> DEFINE f == Delete("friends", {u} \X User)
           g == Delete("friends", User \X {u})
           h == Del("friends", u)
           i == [do |-> "unfriend", by |-> u]
           j == Delete("group_members", Group \X {u} \X Role)
           k == [do |-> "ungroup", by |-> u]
           O == {Del("blacklist", u),
                 Delete("friend_requests", {u} \X User), Delete("friend_requests", User \X {u}),
                 Delete("group_requests", {u} \X User \X Group),
                 Delete("group_requests", User \X {u} \X Group), Delete("users", {u})}
<1>1. Statements(u) = O \cup {f, g, h, i, j, k} BY DEF Statements
<1>2. \A c \in O : \A kind \in Kind : \A p : ~Drops(c, kind, p) /\ ~Clears(c, kind, p)
    BY DEF Kind, Drops, Clears, Del, Delete
<1>3. \A c \in Statements(u) :
          /\ \A kind \in Kind : \A p : ~Puts(c, kind, p) /\ ~Stores(c, kind, p)
          /\ \A q : ~WritesMember(c, q) /\ ~StoresIn(c, q)
          /\ c.do # "update"
          /\ c.do \in {"srem", "delete", "unfriend", "ungroup"}
    BY DEF Kind, Puts, Stores, WritesMember, StoresIn, Del, Delete, Statements
<1>4. ASSUME NEW p \in User \X User
      PROVE  /\ Removes(Statements(u), "friends", p) <=> p[1] = u \/ p[2] = u
             /\ Deletes(Statements(u), "friends", p) <=> p[1] = u \/ p[2] = u
    <2>1. Drops(h, "friends", p) <=> p[1] = u BY DEF Drops, Del
    <2>2. Drops(i, "friends", p) <=> p[2] = u BY DEF Drops
    <2>3. /\ ~Drops(f, "friends", p) /\ ~Drops(g, "friends", p)
          /\ ~Drops(j, "friends", p) /\ ~Drops(k, "friends", p)
        BY DEF Drops, Delete
    <2>4. Clears(f, "friends", p) <=> p[1] = u BY DEF Clears, Delete
    <2>5. Clears(g, "friends", p) <=> p[2] = u BY DEF Clears, Delete
    <2>6. /\ ~Clears(h, "friends", p) /\ ~Clears(i, "friends", p)
          /\ ~Clears(j, "friends", p) /\ ~Clears(k, "friends", p)
        BY DEF Clears, Delete, Del
    <2>7. \A c \in O : ~Drops(c, "friends", p) /\ ~Clears(c, "friends", p) BY <1>2 DEF Kind
    <2> HIDE DEF f, g, h, i, j, k, O
    <2> QED BY <1>1, <2>1, <2>2, <2>3, <2>4, <2>5, <2>6, <2>7 DEF Removes, Deletes
<1>5. ASSUME NEW p \in Group \X User
      PROVE  /\ Removes(Statements(u), "group", p) <=> p[2] = u
             /\ Deletes(Statements(u), "group", p) <=> p[2] = u
    <2>1. Drops(k, "group", p) <=> p[2] = u BY DEF Drops
    <2>2. /\ ~Drops(f, "group", p) /\ ~Drops(g, "group", p) /\ ~Drops(h, "group", p)
          /\ ~Drops(i, "group", p) /\ ~Drops(j, "group", p)
        BY DEF Drops, Delete, Del
    <2>3. Clears(j, "group", p) <=> p[2] = u BY DEF Clears, Delete, Role
    <2>4. /\ ~Clears(f, "group", p) /\ ~Clears(g, "group", p) /\ ~Clears(h, "group", p)
          /\ ~Clears(i, "group", p) /\ ~Clears(k, "group", p)
        BY DEF Clears, Delete, Del
    <2>5. \A c \in O : ~Drops(c, "group", p) /\ ~Clears(c, "group", p) BY <1>2 DEF Kind
    <2> HIDE DEF f, g, h, i, j, k, O
    <2> QED BY <1>1, <2>1, <2>2, <2>3, <2>4, <2>5 DEF Removes, Deletes
<1> QED BY <1>3, <1>4, <1>5

LEMMA KillerFaithful ==
    ASSUME RelInv, NEW r \in Request, r.do = "AccountKiller",
           NEW x, x \in Seq(Commands(r)), ToSet(x) = {Exit(g, r.by) : g \in Own(r.by)},
           \A g, u : <<g, u>> \in mysql.groups /\ u = r.by => \E i \in 1 .. Len(x) : Ends(x[i], g, u),
           NEW y, y \in Seq(Statements(r.by)), ToSet(y) = Statements(r.by)
    PROVE  Faithful(r, r, x \o y)
<1> DEFINE u == r.by
           E == {Exit(g, u) : g \in Own(u)}
           D == Statements(u)
           s == x \o y
           S == E \cup D
<1>1. u \in User BY RequestTyped
<1>2. y \in Seq(Commands(r))
    <2>1. Statements(u) \subseteq Commands(r) BY DEF Killing, Commands
    <2> QED BY <2>1
<1>3. s \in Seq(Commands(r)) /\ ToSet(s) = S
    <2> DEFINE X == Commands(r)
    <2>1. x \in Seq(X) /\ y \in Seq(X) BY <1>2
    <2> HIDE DEF X
    <2>2. s \in Seq(X) /\ ToSet(s) = ToSet(x) \cup ToSet(y) BY <2>1, BothParts
    <2> QED BY <2>2 DEF X
<1>4. \A c \in E : /\ \A kind \in Kind : \A p : /\ ~Puts(c, kind, p) /\ ~Stores(c, kind, p)
                                                /\ ~Drops(c, kind, p) /\ ~Clears(c, kind, p)
                   /\ \A g : ~WritesMember(c, g) /\ ~StoresIn(c, g)
                   /\ c.do # "update"
    BY DEF Exit, Kind, Puts, Stores, Drops, Clears, WritesMember, StoresIn
<1>5. /\ \A p \in User \X User :
            /\ Removes(D, "friends", p) <=> p[1] = u \/ p[2] = u
            /\ Deletes(D, "friends", p) <=> p[1] = u \/ p[2] = u
      /\ \A p \in Group \X User :
            /\ Removes(D, "group", p) <=> p[2] = u
            /\ Deletes(D, "group", p) <=> p[2] = u
    BY <1>1, StatementEffect
<1>6. \A c \in D : /\ \A kind \in Kind : \A p : ~Puts(c, kind, p) /\ ~Stores(c, kind, p)
                   /\ \A g : ~WritesMember(c, g) /\ ~StoresIn(c, g)
                   /\ c.do # "update"
    BY <1>1, StatementEffect
<1>7. "friends" \in Kind /\ "group" \in Kind BY DEF Kind
<1>8. \A kind \in Kind : \A p : ~Drops(r, kind, p) BY DEF Drops, Kind
<1>9. \A g, v : ~Ends(r, g, v) BY DEF Ends, Delete
<1>10. r.do \notin Basic \cup {"GroupCreater"} BY DEF Basic
<1> HIDE DEF E, D
<1>11. \A kind \in Kind : \A p : /\ ~Adds(S, kind, p) /\ ~Inserts(S, kind, p)
                                 /\ Removes(S, kind, p) <=> Removes(D, kind, p)
                                 /\ Deletes(S, kind, p) <=> Deletes(D, kind, p)
    BY <1>4, <1>6 DEF Adds, Inserts, Removes, Deletes
<1>12. \A c \in S : c.do # "update" /\ \A g : ~WritesMember(c, g) /\ ~StoresIn(c, g)
    BY <1>4, <1>6
<1>13. ASSUME NEW kind \in Kind, NEW p \in Pairs(kind)
       PROVE  Removes(S, kind, p) <=> Drops(r, kind, p) \/ Deletes(S, kind, p)
    BY <1>5, <1>8, <1>11 DEF Kind, Pairs
<1>14. \A p \in User \X User : Deletes(S, "friends", p) <=> Deletes(S, "friends", Mirror(p))
    <2> TAKE p \in User \X User
    <2>1. Mirror(p) \in User \X User /\ Mirror(p)[1] = p[2] /\ Mirror(p)[2] = p[1] BY DEF Mirror
    <2>2. Deletes(D, "friends", p) <=> Deletes(D, "friends", Mirror(p)) BY <1>5, <2>1
    <2>3. \A z : Deletes(S, "friends", z) <=> Deletes(D, "friends", z) BY <1>7, <1>11
    <2> QED BY <2>2, <2>3
<1>15. ASSUME NEW q \in mysql.groups
       PROVE  Guarded(s, q[1], q[2])
    <2> DEFINE X == Commands(r)
               g == q[1]
               v == q[2]
    <2>1. x \in Seq(X) /\ y \in Seq(X) BY <1>2
    <2>2. g \in Group /\ v \in User /\ <<g, v>> \in mysql.groups
        <3>1. q \in Group \X User BY DEF RelInv, RelationsTypeOK
        <3>2. q = <<q[1], q[2]>> BY <3>1
        <3> QED BY <3>1, <3>2
    <2>3. Guarded(x, g, v)
        <3>1. DOMAIN x = 1 .. Len(x) BY <2>1
        <3>2. \A c \in ToSet(x) : ~Clears(c, "group", <<g, v>>) BY <1>4, <1>7 DEF E
        <3> QED BY <3>1, <3>2, GuardedNone
    <2>4. CASE v = u
        <3>1. \E i \in 1 .. Len(x) : Ends(x[i], g, v) BY <2>2, <2>4
        <3> HIDE DEF X
        <3> QED BY <2>1, <2>3, <3>1, GuardedBoth
    <2>5. CASE v # u
        <3>1. DOMAIN y = 1 .. Len(y) BY <2>1
        <3>2. ~Deletes(D, "group", <<g, v>>) BY <1>5, <2>2, <2>5
        <3>3. \A c \in ToSet(y) : ~Clears(c, "group", <<g, v>>) BY <3>2 DEF Deletes, D
        <3>4. Guarded(y, g, v) BY <3>1, <3>3, GuardedNone
        <3> HIDE DEF X
        <3> QED BY <2>1, <2>3, <3>4, GuardedBoth
    <2> QED BY <2>4, <2>5
<1> HIDE DEF S, s
<1> QED BY <1>3, <1>7, <1>9, <1>10, <1>11, <1>12, <1>13, <1>14, <1>15 DEF Faithful, s
-----------------------------------------------------------------------------
(* The handlers. *)

Lists == [User -> SUBSET (({"friend"} \X User) \cup ({"group"} \X Group \X User))]

\* What a handler does: row 0 of an empty result ends it all, or it goes on with
\* commands that come to the same.
Handled(k) == Die \/ (Unfolds(k) /\ inbox' \in Lists)

LEMMA Continues ==
    ASSUME RelInv, NEW k \in Worker, task[k] # Idle,
           NEW s, Faithful(task[k].req, FirstOf(k), s), Continue(k, s)
    PROVE  Handled(k)
BY DEF Continue, Unfolds, Handled, RelInv, RelationsTypeOK, Lists, Open

LEMMA QuietlyHandled ==
    ASSUME RelInv, NEW k \in Worker, task[k] # Idle,
           FirstOf(k).do \notin Basic \cup {"unfriend", "ungroup", "GroupExiter", "GroupCreater"},
           NEW s \in Seq(Commands(task[k].req)), \A c \in ToSet(s) : Quiet(c)
    PROVE  /\ Faithful(task[k].req, FirstOf(k), s)
           /\ Continue(k, s) => Handled(k)
<1>1. task[k].req \in Request /\ task[k].req.do # "GroupCreater"
    <2>1. /\ task[k].req \in Request
          /\ FirstOf(k) = task[k].req \/ FirstOf(k) \in Commands(task[k].req)
        BY HeadOf
    <2>2. CASE FirstOf(k) \in Commands(task[k].req)
        BY <2>1, <2>2, CommandKinds
    <2> QED BY <2>1, <2>2
<1>2. Faithful(task[k].req, FirstOf(k), s) BY <1>1, QuietlyFaithful
<1> QED BY <1>2, Continues

LEMMA NothingHandled ==
    ASSUME RelInv, NEW k \in Worker, task[k] # Idle,
           FirstOf(k).do \notin Basic \cup {"unfriend", "ungroup", "GroupExiter", "GroupCreater"}
    PROVE  /\ Faithful(task[k].req, FirstOf(k), <<>>)
           /\ Continue(k, <<>>) => Handled(k)
<1> DEFINE s == <<>>
<1>1. s \in Seq(Commands(task[k].req)) /\ \A c \in ToSet(s) : Quiet(c) BY DEF ToSet
<1> HIDE DEF s
<1>2. Faithful(task[k].req, FirstOf(k), s) /\ (Continue(k, s) => Handled(k))
    BY <1>1, QuietlyHandled
<1> QED BY <1>2 DEF s

LEMMA FriendAdderHandled ==
    ASSUME RelInv, NEW k \in Worker, FriendAdder(k)
    PROVE  Handled(k)
<1> DEFINE r == task[k].req
           a == Forward(r.to, <<"friend", r.by>>)
           b == Insert("friend_requests", <<r.by, r.to>>)
<1>1. task[k] # Idle /\ FirstOf(k).do = "FriendAdder" BY DEF FriendAdder, At
<1>2. FirstOf(k) = r /\ r \in Request BY <1>1, HeadOf DEF ToUser
<1>3. r.do = "FriendAdder" BY <1>1, <1>2
<1>4. FirstOf(k).do \notin Basic \cup {"unfriend", "ungroup", "GroupExiter", "GroupCreater"}
    BY <1>1 DEF Basic
<1>5. Commands(r) = {a, b} BY <1>3 DEF Commands
<1>6. Quiet(a) /\ Quiet(b) BY DEF Quiet, Forward, Insert
<1>7. Die \/ Continue(k, <<>>) \/ Continue(k, <<a, b>>) BY <1>2 DEF FriendAdder
<1>8. ASSUME Continue(k, <<a, b>>) PROVE Handled(k)
    <2> HIDE DEF r, a, b
    <2> DEFINE s == <<a, b>>
    <2>1. s \in Seq(Commands(r)) /\ \A c \in ToSet(s) : Quiet(c) BY <1>5, <1>6 DEF ToSet
    <2>2. Continue(k, s) BY <1>8
    <2> HIDE DEF s
    <2> QED BY <1>1, <1>4, <2>1, <2>2, QuietlyHandled DEF r
<1> QED BY <1>1, <1>4, <1>7, <1>8, NothingHandled DEF Handled

LEMMA OneHandled ==
    ASSUME RelInv, NEW k \in Worker, task[k] # Idle,
           FirstOf(k).do \notin Basic \cup {"unfriend", "ungroup", "GroupExiter", "GroupCreater"},
           NEW c \in Commands(task[k].req), Quiet(c), Continue(k, <<c>>)
    PROVE  Handled(k)
<1> DEFINE s == <<c>>
<1>1. s \in Seq(Commands(task[k].req)) OBVIOUS
<1>2. \A x \in ToSet(s) : Quiet(x) BY DEF ToSet
<1>3. Continue(k, s) OBVIOUS
<1> HIDE DEF s
<1> QED BY <1>1, <1>2, <1>3, QuietlyHandled

LEMMA TwoHandled ==
    ASSUME RelInv, NEW k \in Worker, task[k] # Idle,
           FirstOf(k).do \notin Basic \cup {"unfriend", "ungroup", "GroupExiter", "GroupCreater"},
           NEW c \in Commands(task[k].req), NEW d \in Commands(task[k].req), Quiet(c), Quiet(d),
           Continue(k, <<c, d>>)
    PROVE  Handled(k)
<1> DEFINE s == <<c, d>>
<1>1. s \in Seq(Commands(task[k].req)) OBVIOUS
<1>2. \A x \in ToSet(s) : Quiet(x) BY DEF ToSet
<1>3. Continue(k, s) OBVIOUS
<1> HIDE DEF s
<1> QED BY <1>1, <1>2, <1>3, QuietlyHandled

LEMMA FriendAddResponserHandled ==
    ASSUME RelInv, NEW k \in Worker, FriendAddResponser(k)
    PROVE  Handled(k)
<1> DEFINE r == task[k].req
           n == Delete("friend_requests", {<<r.to, r.by>>})
           x == <<Sadd("friends", r.to, r.by), Sadd("friends", r.by, r.to),
                  Insert("friends", <<r.to, r.by>>), Insert("friends", <<r.by, r.to>>),
                  Srem("blacklist", r.to, r.by), Srem("blacklist", r.by, r.to)>>
<1>1. task[k] # Idle /\ FirstOf(k).do = "FriendAddResponser" BY DEF FriendAddResponser, At
<1>2. FirstOf(k) = r /\ r \in Request BY <1>1, HeadOf DEF ToUser
<1>3. r.do = "FriendAddResponser" BY <1>1, <1>2
<1>4. FirstOf(k).do \notin Basic \cup {"unfriend", "ungroup", "GroupExiter", "GroupCreater"}
    BY <1>1 DEF Basic
<1>5. n \in Commands(r) /\ Quiet(n) BY <1>3 DEF Commands, Quiet, Delete
<1>6. Die \/ Continue(k, x \o <<n>>) \/ Continue(k, <<>> \o <<n>>)
    BY <1>2 DEF FriendAddResponser
<1>7. ASSUME Continue(k, <<>> \o <<n>>) PROVE Handled(k)
    <2>1. <<>> \o <<n>> = <<n>> OBVIOUS
    <2>2. Continue(k, <<n>>) BY <1>7, <2>1
    <2> HIDE DEF n, r
    <2> QED BY <1>1, <1>4, <1>5, <2>2, OneHandled DEF r
<1>8. ASSUME Continue(k, x \o <<n>>) PROVE Handled(k)
    <2>1. Faithful(r, r, x \o <<n>>) BY <1>2, <1>3, AcceptFaithful
    <2> HIDE DEF x, n
    <2> QED BY <1>1, <1>2, <1>8, <2>1, Continues
<1> QED BY <1>6, <1>7, <1>8 DEF Handled

LEMMA FriendDeleterHandled ==
    ASSUME RelInv, NEW k \in Worker, FriendDeleter(k)
    PROVE  Handled(k)
<1> DEFINE r == task[k].req
           x == <<Srem("friends", r.by, r.to), Srem("friends", r.to, r.by),
                  Delete("friends", {<<r.by, r.to>>}), Delete("friends", {<<r.to, r.by>>})>>
<1>1. task[k] # Idle /\ FirstOf(k).do = "FriendDeleter" BY DEF FriendDeleter, At
<1>2. FirstOf(k) = r /\ r \in Request BY <1>1, HeadOf DEF ToUser
<1>3. r.do = "FriendDeleter" BY <1>1, <1>2
<1>4. Continue(k, x) BY <1>2 DEF FriendDeleter
<1>5. Faithful(r, r, x) BY <1>2, <1>3, DeleterFaithful
<1> HIDE DEF x
<1> QED BY <1>1, <1>2, <1>4, <1>5, Continues

LEMMA BlockersHandled ==
    ASSUME RelInv, NEW k \in Worker, FriendBlocker(k) \/ FriendUnblocker(k)
    PROVE  Handled(k)
<1> DEFINE r == task[k].req
           a == Sadd("blacklist", r.by, r.to)
           b == Srem("blacklist", r.by, r.to)
<1>1. task[k] # Idle /\ FirstOf(k).do \in {"FriendBlocker", "FriendUnblocker"}
    BY DEF FriendBlocker, FriendUnblocker, At
<1>2. FirstOf(k) = r /\ r \in Request BY <1>1, HeadOf DEF ToUser
<1>4. FirstOf(k).do \notin Basic \cup {"unfriend", "ungroup", "GroupExiter", "GroupCreater"}
    BY <1>1 DEF Basic
<1>5. Quiet(a) /\ Quiet(b) BY DEF Quiet, Sadd, Srem
<1>6. CASE FriendBlocker(k)
    <2>1. r.do = "FriendBlocker" BY <1>2, <1>6 DEF FriendBlocker, At
    <2>2. a \in Commands(r) BY <2>1 DEF Commands
    <2>3. Continue(k, <<>>) \/ Continue(k, <<a>>) BY <1>2, <1>6 DEF FriendBlocker
    <2> HIDE DEF a
    <2> QED BY <1>1, <1>4, <1>5, <2>2, <2>3, NothingHandled, OneHandled
<1>7. CASE FriendUnblocker(k)
    <2>1. r.do = "FriendUnblocker" BY <1>2, <1>7 DEF FriendUnblocker, At
    <2>2. b \in Commands(r) BY <2>1 DEF Commands
    <2>3. Continue(k, <<>>) \/ Continue(k, <<b>>) BY <1>2, <1>7 DEF FriendUnblocker
    <2> HIDE DEF b
    <2> QED BY <1>1, <1>4, <1>5, <2>2, <2>3, NothingHandled, OneHandled
<1> QED BY <1>6, <1>7

LEMMA GroupCreaterHandled ==
    ASSUME RelInv, NEW k \in Worker, GroupCreater(k)
    PROVE  Handled(k)
<1> DEFINE r == task[k].req
<1>1. task[k] # Idle /\ FirstOf(k).do = "GroupCreater" BY DEF GroupCreater, At
<1>2. FirstOf(k) = r /\ r \in Request BY <1>1, HeadOf DEF OfGroup
<1>3. r.do = "GroupCreater" BY <1>1, <1>2
<1>4. Continue(k, Creation(r)) BY <1>2 DEF GroupCreater, Creation
<1>5. Faithful(r, r, Creation(r)) BY <1>2, <1>3, CreationFaithful
<1> QED BY <1>1, <1>2, <1>4, <1>5, Continues

LEMMA GroupAdderHandled ==
    ASSUME RelInv, NEW k \in Worker, GroupAdder(k)
    PROVE  Handled(k)
<1> DEFINE r == task[k].req
           V == Admins(r.group)
           f == [a \in V |-> [do |-> "ask", admin |-> a, by |-> r.by, group |-> r.group]]
           S == {f[a] : a \in V}
           s == [i \in 1 .. Len(SetToSeq(V)) |-> f[SetToSeq(V)[i]]]
<1>1. task[k] # Idle /\ FirstOf(k).do = "GroupAdder" BY DEF GroupAdder, At
<1>2. FirstOf(k) = r /\ r \in Request BY <1>1, HeadOf DEF OfGroup
<1>3. r.do = "GroupAdder" BY <1>1, <1>2
<1>4. FirstOf(k).do \notin Basic \cup {"unfriend", "ungroup", "GroupExiter", "GroupCreater"}
    BY <1>1 DEF Basic
<1>5. V \subseteq User /\ IsFiniteSet(V)
    <2>1. V \subseteq User BY DEF Admins
    <2> HIDE DEF V
    <2> QED BY <2>1, FiniteAssumption, FS_Subset
<1> HIDE DEF V
<1>6. Die \/ Continue(k, <<>>) \/ Continue(k, s)
    <2>1. \A i \in 1 .. Len(SetToSeq(V)) : SetToSeq(V)[i] \in V BY <1>5, AnElement
    <2>2. s = [i \in 1 .. Len(SetToSeq(V)) |->
                  [do |-> "ask", admin |-> SetToSeq(V)[i], by |-> r.by, group |-> r.group]]
        BY <2>1
    <2> HIDE DEF s
    <2> QED BY <1>2, <2>2 DEF GroupAdder, ForEach, V
<1>7. S \subseteq Commands(r) /\ \A c \in S : Quiet(c)
    <2>1. S = {[do |-> "ask", admin |-> a, by |-> r.by, group |-> r.group] : a \in V} OBVIOUS
    <2>2. \A a \in User : [do |-> "ask", admin |-> a, by |-> r.by, group |-> r.group] \in Commands(r)
        BY <1>3 DEF Commands
    <2>3. \A a \in User : Quiet([do |-> "ask", admin |-> a, by |-> r.by, group |-> r.group])
        BY DEF Quiet
    <2> QED BY <1>5, <2>1, <2>2, <2>3
<1>8. s \in Seq(S) /\ ToSet(s) = S
    <2> HIDE DEF f
    <2> QED BY <1>5, EachCommand
<1>9. s \in Seq(Commands(r)) /\ \A c \in ToSet(s) : Quiet(c)
    <2> HIDE DEF s, S
    <2> QED BY <1>7, <1>8
<1> HIDE DEF s
<1> QED BY <1>1, <1>4, <1>6, <1>9, NothingHandled, QuietlyHandled DEF Handled

LEMMA AskAdminHandled ==
    ASSUME RelInv, NEW k \in Worker, AskAdmin(k)
    PROVE  Handled(k)
<1> DEFINE r == task[k].req
           c == FirstOf(k)
           a == Forward(c.admin, <<"group", c.group, c.by>>)
           b == Insert("group_requests", <<c.by, c.admin, c.group>>)
<1>1. task[k] # Idle /\ FirstOf(k).do = "ask" BY DEF AskAdmin, At
<1>2. r \in Request /\ (c = r \/ c \in Commands(r)) BY <1>1, HeadOf
<1>3. c # r BY <1>1, <1>2, RequestTyped DEF ToUser, OfGroup
<1>4. r.do = "GroupAdder" /\ c.by = r.by /\ c.group = r.group /\ c.admin \in User
    <2>1. r.do = "GroupAdder"
          /\ \E x \in User : c = [do |-> "ask", admin |-> x, by |-> r.by, group |-> r.group]
        BY <1>1, <1>2, <1>3, CommandKinds
    <2> QED BY <2>1
<1>5. a \in Commands(r) /\ b \in Commands(r) BY <1>4 DEF Commands
<1>6. Quiet(a) /\ Quiet(b) BY DEF Quiet, Forward, Insert
<1>7. Continue(k, <<a, b>>) BY DEF AskAdmin
<1>8. FirstOf(k).do \notin Basic \cup {"unfriend", "ungroup", "GroupExiter", "GroupCreater"}
    BY <1>1 DEF Basic
<1> HIDE DEF a, b
<1> QED BY <1>1, <1>5, <1>6, <1>7, <1>8, TwoHandled

LEMMA GroupAddResponserHandled ==
    ASSUME RelInv, NEW k \in Worker, GroupAddResponser(k)
    PROVE  Handled(k)
<1> DEFINE r == task[k].req
           m == Delete("group_requests", {r.to} \X User \X {r.group})
           n == [do |-> "notice", group |-> r.group, user |-> r.to]
           x == <<Sadd("group", r.group, r.to), Insert("group_members", <<r.group, r.to, "member">>)>>
<1>1. task[k] # Idle /\ FirstOf(k).do = "GroupAddResponser" BY DEF GroupAddResponser, At
<1>2. FirstOf(k) = r /\ r \in Request BY <1>1, HeadOf DEF ToUser
<1>3. r.do = "GroupAddResponser" BY <1>1, <1>2
<1>4. FirstOf(k).do \notin Basic \cup {"unfriend", "ungroup", "GroupExiter", "GroupCreater"}
    BY <1>1 DEF Basic
<1>5. m \in Commands(r) /\ n \in Commands(r) /\ Quiet(m) /\ Quiet(n)
    BY <1>3 DEF Commands, Quiet, Delete
<1>6. \/ Continue(k, <<>>)
      \/ Continue(k, <<>> \o <<m, n>>)
      \/ Continue(k, x \o <<m, n>>) /\ RoleOf(r.group, r.by) # "none"
    BY <1>2 DEF GroupAddResponser
<1>7. ASSUME Continue(k, <<>> \o <<m, n>>) PROVE Handled(k)
    <2> HIDE DEF m, n
    <2>1. <<>> \o <<m, n>> = <<m, n>> OBVIOUS
    <2>2. Continue(k, <<m, n>>) BY <1>7, <2>1
    <2> QED BY <1>1, <1>4, <1>5, <2>2, TwoHandled
<1>8. ASSUME Continue(k, x \o <<m, n>>), RoleOf(r.group, r.by) # "none" PROVE Handled(k)
    <2>1. Faithful(r, r, x \o <<m, n>>) BY <1>2, <1>3, <1>8, LettingInFaithful
    <2> HIDE DEF x, m, n
    <2> QED BY <1>1, <1>2, <1>8, <2>1, Continues
<1> QED BY <1>1, <1>4, <1>6, <1>7, <1>8, NothingHandled

LEMMA GroupExiterHandled ==
    ASSUME RelInv, NEW k \in Worker, GroupExiter(k)
    PROVE  Handled(k)
<1> DEFINE r == task[k].req
           h == FirstOf(k)
           g == h.group
           u == h.by
           x == <<Srem("group", g, u), Delete("group_members", Member(g, u))>>
           y == <<Del("group", g), Delete("group_members", {g} \X User \X Role),
                  Delete("group_messages", {g} \X User), Delete("groups", {g} \X User)>>
<1>1. task[k] # Idle /\ h.do = "GroupExiter" BY DEF GroupExiter, At
<1>2. r \in Request /\ (h = r \/ h \in Commands(r)) BY <1>1, HeadOf
<1>3. /\ g \in Group /\ u \in User /\ r.do # "GroupCreater"
      /\ Removal(g, u) \subseteq Commands(r) /\ Dissolution(g) \subseteq Commands(r)
    <2>1. CASE h = r
        <3>1. r.do = "GroupExiter" BY <1>1, <2>1
        <3>2. g \in Group /\ u \in User BY <1>2, <2>1, <3>1, RequestTyped DEF OfGroup
        <3>3. Commands(r) = Dissolution(g) \cup Removal(g, u) BY <2>1, <3>1 DEF Commands
        <3> QED BY <3>1, <3>2, <3>3
    <2>2. CASE h \in Commands(r)
        <3>1. r.do = "AccountKiller" /\ \E q \in Group : h = [do |-> "GroupExiter", group |-> q, by |-> r.by]
            BY <1>1, <1>2, <2>2, CommandKinds
        <3>2. g \in Group /\ u = r.by /\ r.by \in User BY <1>2, <3>1, RequestTyped
        <3>3. \A q \in Group : Dissolution(q) \cup Removal(q, r.by) \subseteq Killing(r.by)
            BY DEF Killing
        <3>4. Commands(r) = Killing(r.by) BY <3>1 DEF Commands
        <3> QED BY <3>1, <3>2, <3>3, <3>4
    <2> QED BY <1>2, <2>1, <2>2
<1>4. \/ Die
      \/ Continue(k, x) /\ RoleOf(g, u) # "owner"
      \/ Continue(k, y)
    <2>1. RoleOf(g, u) \in {"none", "member", "admin", "owner"} BY <1>3, HasRole
    <2>2. CASE RoleOf(g, u) = "none" BY <2>2 DEF GroupExiter
    <2>3. CASE RoleOf(g, u) \in {"member", "admin"} BY <2>3 DEF GroupExiter
    <2>4. CASE RoleOf(g, u) = "owner" BY <2>4 DEF GroupExiter
    <2> QED BY <2>1, <2>2, <2>3, <2>4
<1>5. ASSUME Continue(k, x), RoleOf(g, u) # "owner" PROVE Handled(k)
    <2>1. Faithful(r, h, x) BY <1>1, <1>2, <1>3, <1>5, RemovalFaithful
    <2> HIDE DEF x
    <2> QED BY <1>1, <1>5, <2>1, Continues
<1>6. ASSUME Continue(k, y) PROVE Handled(k)
    <2>1. Faithful(r, h, y) BY <1>1, <1>2, <1>3, <1>6, DissolutionFaithful
    <2> HIDE DEF y
    <2> QED BY <1>1, <1>6, <2>1, Continues
<1> QED BY <1>4, <1>5, <1>6 DEF Handled

LEMMA MemberKickerHandled ==
    ASSUME RelInv, NEW k \in Worker, MemberKicker(k)
    PROVE  Handled(k)
<1> DEFINE r == task[k].req
           x == <<Srem("group", r.group, r.to), Delete("group_members", Member(r.group, r.to))>>
<1>1. task[k] # Idle /\ FirstOf(k).do = "MemberKicker" BY DEF MemberKicker, At
<1>2. FirstOf(k) = r /\ r \in Request BY <1>1, HeadOf DEF ToUser
<1>3. r.do = "MemberKicker" BY <1>1, <1>2
<1>4. FirstOf(k).do \notin Basic \cup {"unfriend", "ungroup", "GroupExiter", "GroupCreater"}
    BY <1>1 DEF Basic
<1>5. r.group \in Group /\ r.by \in User /\ r.to \in User BY <1>2, <1>3, RequestTyped DEF ToUser, OfGroup
<1>6. Die \/ Continue(k, <<>>) \/ (Continue(k, x) /\ RoleOf(r.group, r.to) # "owner")
    <2>1. RoleOf(r.group, r.by) = "owner" /\ RoleOf(r.group, r.to) = "owner" => r.to = r.by
        <3>1. ASSUME RoleOf(r.group, r.by) = "owner", RoleOf(r.group, r.to) = "owner" PROVE r.to = r.by
            <4>1. /\ <<r.group, r.by, "owner">> \in mysql.group_members
                  /\ <<r.group, r.to, "owner">> \in mysql.group_members
                BY <1>5, <3>1, HasRole
            <4>2. <<r.group, r.by>> \in mysql.groups /\ <<r.group, r.to>> \in mysql.groups
                BY <4>1 DEF RelInv, Creators
            <4> QED BY <4>2 DEF RelInv, Creators
        <3> QED BY <3>1
    <2> QED BY <1>2, <2>1 DEF MemberKicker
<1>7. ASSUME Continue(k, x), RoleOf(r.group, r.to) # "owner" PROVE Handled(k)
    <2>1. Removal(r.group, r.to) \subseteq Commands(r) BY <1>3 DEF Commands
    <2>2. Faithful(r, r, x) BY <1>2, <1>3, <1>5, <1>7, <2>1, RemovalFaithful
    <2> HIDE DEF x
    <2> QED BY <1>1, <1>2, <1>7, <2>2, Continues
<1> QED BY <1>1, <1>4, <1>6, <1>7, NothingHandled DEF Handled

LEMMA AdminsHandled ==
    ASSUME RelInv, NEW k \in Worker, AdminAdder(k) \/ AdminRemover(k)
    PROVE  Handled(k)
<1> DEFINE r == task[k].req
           role == IF r.do = "AdminAdder" THEN "admin" ELSE "member"
           x == <<SetRole(r.group, r.to, role)>>
<1>1. task[k] # Idle /\ FirstOf(k).do \in {"AdminAdder", "AdminRemover"}
    BY DEF AdminAdder, AdminRemover, ChangeRole, At
<1>2. FirstOf(k) = r /\ r \in Request BY <1>1, HeadOf DEF ToUser
<1>3. r.do \in {"AdminAdder", "AdminRemover"} BY <1>1, <1>2
<1>4. FirstOf(k).do \notin Basic \cup {"unfriend", "ungroup", "GroupExiter", "GroupCreater"}
    BY <1>1 DEF Basic
<1>5. \/ Die
      \/ Continue(k, <<>>)
      \/ Continue(k, x) /\ <<r.group, r.by>> \in mysql.groups /\ r.to # r.by
    BY <1>2 DEF AdminAdder, AdminRemover, ChangeRole, At
<1>6. ASSUME Continue(k, x), <<r.group, r.by>> \in mysql.groups, r.to # r.by PROVE Handled(k)
    <2>1. Faithful(r, r, x) BY <1>2, <1>3, <1>6, RoleFaithful
    <2> HIDE DEF x
    <2> QED BY <1>1, <1>2, <1>6, <2>1, Continues
<1> QED BY <1>1, <1>4, <1>5, <1>6, NothingHandled DEF Handled

LEMMA GroupChatterHandled ==
    ASSUME RelInv, NEW k \in Worker, GroupChatter(k)
    PROVE  Handled(k)
<1> DEFINE r == task[k].req
           a == Insert("group_messages", <<r.group, r.by>>)
<1>1. task[k] # Idle /\ FirstOf(k).do = "GroupChatter" BY DEF GroupChatter, At
<1>2. FirstOf(k) = r /\ r \in Request BY <1>1, HeadOf DEF OfGroup
<1>3. r.do = "GroupChatter" BY <1>1, <1>2
<1>4. FirstOf(k).do \notin Basic \cup {"unfriend", "ungroup", "GroupExiter", "GroupCreater"}
    BY <1>1 DEF Basic
<1>5. a \in Commands(r) /\ Quiet(a) BY <1>3 DEF Commands, Quiet, Insert
<1>6. Continue(k, <<>>) \/ Continue(k, <<a>>) BY <1>2 DEF GroupChatter
<1> HIDE DEF a
<1> QED BY <1>1, <1>4, <1>5, <1>6, NothingHandled, OneHandled

LEMMA AccountKillerHandled ==
    ASSUME RelInv, NEW k \in Worker, AccountKiller(k)
    PROVE  Handled(k)
<1> DEFINE r == task[k].req
           V == Own(r.by)
           x == [i \in 1 .. Len(SetToSeq(V)) |-> Exit(SetToSeq(V)[i], r.by)]
           y == <<Del("blacklist", r.by),
                  Delete("friend_requests", {r.by} \X User), Delete("friend_requests", User \X {r.by}),
                  Delete("group_requests", {r.by} \X User \X Group),
                  Delete("group_requests", User \X {r.by} \X Group),
                  Delete("friends", {r.by} \X User), Delete("friends", User \X {r.by}),
                  Del("friends", r.by),
                  [do |-> "unfriend", by |-> r.by],
                  Delete("group_members", Group \X {r.by} \X Role),
                  [do |-> "ungroup", by |-> r.by],
                  Delete("users", {r.by})>>
<1>1. task[k] # Idle /\ FirstOf(k).do = "AccountKiller" BY DEF AccountKiller, At
<1>2. FirstOf(k) = r /\ r \in Request BY <1>1, HeadOf
<1>3. r.do = "AccountKiller" BY <1>1, <1>2
<1>4. Continue(k, x \o y) BY <1>2 DEF AccountKiller, ForEach, Own, Exit
<1>5. /\ x \in Seq(Commands(r)) /\ ToSet(x) = {Exit(g, r.by) : g \in Own(r.by)}
      /\ \A g, u : <<g, u>> \in mysql.groups /\ u = r.by => \E i \in 1 .. Len(x) : Ends(x[i], g, u)
    BY <1>2, <1>3, ExitsOf
<1>6. y \in Seq(Statements(r.by)) /\ ToSet(y) = Statements(r.by) BY StatementSeq
<1> HIDE DEF x, y
<1>7. Faithful(r, r, x \o y) BY <1>2, <1>3, <1>5, <1>6, KillerFaithful
<1> QED BY <1>1, <1>2, <1>4, <1>7, Continues

LEMMA UnfriendHandled ==
    ASSUME RelInv, NEW k \in Worker, Unfriend(k)
    PROVE  Handled(k)
<1> DEFINE r == task[k].req
           h == FirstOf(k)
           x == [i \in 1 .. Len(SetToSeq(mysql.users)) |-> Srem("friends", SetToSeq(mysql.users)[i], r.by)]
<1>1. task[k] # Idle /\ h.do = "unfriend" BY DEF Unfriend, At
<1>2. r \in Request /\ (h = r \/ h \in Commands(r)) BY <1>1, HeadOf
<1>3. h # r BY <1>1, <1>2, RequestTyped DEF ToUser, OfGroup
<1>4. r.do = "AccountKiller" /\ h = [do |-> "unfriend", by |-> r.by]
    BY <1>1, <1>2, <1>3, CommandKinds
<1>5. Continue(k, x)
    <2>1. h.by = r.by BY <1>4
    <2> QED BY <2>1 DEF Unfriend, ForEach
<1>6. Faithful(r, h, x) BY <1>2, <1>4, UnfriendFaithful
<1> HIDE DEF x
<1> QED BY <1>1, <1>5, <1>6, Continues

LEMMA UngroupHandled ==
    ASSUME RelInv, NEW k \in Worker, Ungroup(k)
    PROVE  Handled(k)
<1> DEFINE r == task[k].req
           h == FirstOf(k)
           x == [i \in 1 .. Len(SetToSeq({q[1] : q \in mysql.groups})) |->
                    Srem("group", SetToSeq({q[1] : q \in mysql.groups})[i], r.by)]
<1>1. task[k] # Idle /\ h.do = "ungroup" BY DEF Ungroup, At
<1>2. r \in Request /\ (h = r \/ h \in Commands(r)) BY <1>1, HeadOf
<1>3. h # r BY <1>1, <1>2, RequestTyped DEF ToUser, OfGroup
<1>4. r.do = "AccountKiller" /\ h = [do |-> "ungroup", by |-> r.by]
    BY <1>1, <1>2, <1>3, CommandKinds
<1>5. Continue(k, x)
    <2>1. h.by = r.by BY <1>4
    <2> QED BY <2>1 DEF Ungroup, ForEach
<1>6. Faithful(r, h, x) BY <1>2, <1>4, UngroupFaithful
<1> HIDE DEF x
<1> QED BY <1>1, <1>5, <1>6, Continues

LEMMA SentHandled ==
    ASSUME RelInv, NEW k \in Worker, DoForward(k) \/ Notice(k)
    PROVE  Handled(k)
<1> DEFINE r == task[k].req
           c == FirstOf(k)
<1>1. task[k] # Idle /\ c.do \in {"forward", "notice"} BY DEF DoForward, Notice, At
<1>2. r \in Request /\ (c = r \/ c \in Commands(r)) /\ k \in Open BY <1>1, HeadOf
<1>3. c # r BY <1>1, <1>2, RequestTyped DEF ToUser, OfGroup
<1>4. Typed(c) BY <1>2, <1>3, CommandTyped
<1>5. c.do \notin Basic \cup {"unfriend", "ungroup", "GroupExiter", "GroupCreater"}
    BY <1>1 DEF Basic
<1>6. Faithful(r, c, <<>>) BY <1>1, <1>5, NothingHandled
<1>7. Become(k, <<>>) /\ UNCHANGED <<mysql, redis, wanted, clash, died>>
    BY DEF DoForward, Notice
<1>8. inbox \in Lists BY DEF RelInv, RelationsTypeOK, Lists
<1>9. inbox' \in Lists
    <2>1. CASE DoForward(k)
        <3>1. c.user \in User /\ c.what \in ({"friend"} \X User) \cup ({"group"} \X Group \X User)
            BY <1>4, <2>1 DEF Typed, DoForward, At
        <3>2. inbox' = inbox \/ inbox' = [inbox EXCEPT ![c.user] = @ \cup {c.what}]
            BY <2>1 DEF DoForward
        <3> QED BY <1>8, <3>1, <3>2 DEF Lists
    <2>2. CASE Notice(k)
        <3>1. inbox' = [u \in User |-> IF u \in Admins(c.group)
                                       THEN inbox[u] \ {<<"group", c.group, c.user>>} ELSE inbox[u]]
            BY <2>2 DEF Notice
        <3> QED BY <1>8, <3>1 DEF Lists
    <2> QED BY <2>1, <2>2
<1> QED BY <1>2, <1>6, <1>7, <1>9 DEF Handled, Unfolds

LEMMA Working ==
    ASSUME RelInv, NEW k \in Worker, Work(k)
    PROVE  Execute(k) \/ Handled(k)
BY FriendAdderHandled, FriendAddResponserHandled, FriendDeleterHandled, BlockersHandled,
   GroupCreaterHandled, GroupAdderHandled, AskAdminHandled, GroupAddResponserHandled,
   GroupExiterHandled, MemberKickerHandled, AdminsHandled, GroupChatterHandled,
   AccountKillerHandled, UnfriendHandled, UngroupHandled, SentHandled
   DEF Work
-----------------------------------------------------------------------------
(* The invariant. *)

LEMMA ExecuteKeeps ==
    ASSUME RelInv, NEW k \in Worker, Execute(k)
    PROVE  RelInv'
<1> DEFINE s == <<>>
<1>1. /\ k \in Open /\ Step(k, s) /\ TaskShape' /\ Shape' /\ ~Fresh(k)
      /\ UNCHANGED <<inbox, wanted, clash, died>>
    BY Executing DEF TaskShape
<1>2. Programs' /\ Clashed' /\ OneCreator'
    <2>1. s \in Seq(Commands(task[k].req)) OBVIOUS
    <2>2. task[k].req.do = "GroupCreater" => IF Fresh(k) THEN s = Creation(task[k].req) ELSE s = <<>>
        BY <1>1
    <2> HIDE DEF s
    <2> QED BY <1>1, <2>1, <2>2, StepTasks, StepMet, StepOneCreator
<1>3. RelationsTypeOK'
    <2>1. \A j \in Open' : task'[j].req \in Request /\ task'[j].todo # <<>> /\ task'[j].alone \in BOOLEAN
        BY <1>2 DEF Programs, Open, Idle
    <2> QED BY <1>1, <2>1 DEF RelInv, RelationsTypeOK, Shape, Open, Sound
<1> QED BY <1>2, <1>3, ExecuteAgrees, ExecuteNothingBefore, ExecuteCreators, ExecuteOwner DEF RelInv

LEMMA UnfoldKeeps ==
    ASSUME RelInv, NEW k \in Worker, Unfolds(k), inbox' \in Lists
    PROVE  RelInv'
<1>1. PICK s : /\ Faithful(task[k].req, FirstOf(k), s) /\ Step(k, s) /\ k \in Open
               /\ s \in Seq(Commands(task[k].req)) /\ TaskShape'
    BY Unfolding DEF TaskShape
<1>2. UNCHANGED <<mysql, redis, wanted, clash, died>> BY DEF Unfolds
<1>3. task[k].req.do = "GroupCreater" => IF Fresh(k) THEN s = Creation(task[k].req) ELSE s = <<>>
    <2>1. task[k].req.do = "GroupCreater" => FirstOf(k) = task[k].req /\ s = Creation(task[k].req)
        BY <1>1 DEF Faithful
    <2>2. task[k].req \in Request /\ (~Fresh(k) => FirstOf(k) \in Commands(task[k].req))
        BY <1>1, FirstCommand DEF RelInv
    <2>3. ~Fresh(k) => FirstOf(k) # task[k].req BY <2>2, NotItself
    <2> QED BY <2>1, <2>3
<1>4. Programs' /\ Clashed' /\ OneCreator' BY <1>1, <1>2, <1>3, StepTasks, StepMet, StepOneCreator
<1>5. RelationsTypeOK'
    <2>1. \A j \in Open' : task'[j].req \in Request /\ task'[j].todo # <<>> /\ task'[j].alone \in BOOLEAN
        BY <1>4 DEF Programs, Open, Idle
    <2> QED BY <1>2, <2>1 DEF RelInv, RelationsTypeOK, Open, Sound, Lists
<1> QED BY <1>4, <1>5, UnfoldAgrees, UnfoldGroups DEF RelInv

\* Nothing that counts has changed.
LEMMA IdleKeeps ==
    ASSUME RelInv, UNCHANGED <<mysql, redis, wanted, task, clash>>, inbox' \in Lists,
           died' \in BOOLEAN
    PROVE  RelInv'
<1>1. RelationsTypeOK' BY DEF RelInv, RelationsTypeOK, Sound, Open, Lists
<1>2. Programs' BY DEF RelInv, Programs, Open, Fresh, Left
<1>3. Clashed' BY DEF RelInv, Clashed, Open
<1>4. Agreement'
    BY DEF RelInv, Agreement, Untouched, Open, Left, Good, Same, Even, CachedAtEnd, StoredAtEnd, Real,
           GroupExists, Stored
<1>5. NothingBefore' /\ OneCreator'
    BY DEF RelInv, NothingBefore, Unborn, OneCreator, Open, Left, Fresh, GroupExists
<1>6. Creators' BY DEF RelInv, Creators, Open, Left
<1>7. OwnerInv' BY DEF RelInv, OwnerInv, Birth, Owned, Gone, NoMembers, Open, Left, Guarded
<1> QED BY <1>1, <1>2, <1>3, <1>4, <1>5, <1>6, <1>7 DEF RelInv

LEMMA RelationsKeep ==
    ASSUME RelInv, [RelationsNext]_relationsVars
    PROVE  RelInv'
<1>1. inbox \in Lists /\ died \in BOOLEAN BY DEF RelInv, RelationsTypeOK, Lists
<1>2. ASSUME NEW k \in Worker, Work(k) PROVE RelInv'
    <2>1. CASE Execute(k) BY <2>1, ExecuteKeeps
    <2>2. CASE Die
        <3>1. inbox' \in Lists /\ UNCHANGED <<mysql, redis, wanted, task, clash>> /\ died' \in BOOLEAN
            BY <1>1, <2>2 DEF Die
        <3> QED BY <3>1, IdleKeeps
    <2>3. CASE Unfolds(k) /\ inbox' \in Lists BY <2>3, UnfoldKeeps
    <2> QED BY <1>2, <2>1, <2>2, <2>3, Working DEF Handled
<1>3. ASSUME NEW k \in Worker, NEW r \in Request, Ask(k, r) PROVE RelInv'
    BY <1>3, AskTasks, AskAgrees, AskGroups DEF RelInv
<1>4. ASSUME NEW u \in User, Login(u) PROVE RelInv'
    <2> DEFINE new == {<<"friend", r[1]>> : r \in {q \in mysql.friend_requests : q[2] = u}}
                        \cup {<<"group", r[3], r[1]>> : r \in {q \in mysql.group_requests : q[2] = u}}
    <2>1. new \subseteq ({"friend"} \X User) \cup ({"group"} \X Group \X User)
        BY DEF RelInv, RelationsTypeOK
    <2>2. inbox' = [inbox EXCEPT ![u] = new] BY <1>4 DEF Login
    <2> HIDE DEF new
    <2>3. inbox' \in Lists BY <1>1, <2>1, <2>2 DEF Lists
    <2>4. UNCHANGED <<mysql, redis, wanted, task, clash>> /\ died' \in BOOLEAN
        BY <1>1, <1>4 DEF Login
    <2> QED BY <2>3, <2>4, IdleKeeps
<1>5. CASE UNCHANGED relationsVars
    <2>1. inbox' \in Lists /\ UNCHANGED <<mysql, redis, wanted, task, clash>> /\ died' \in BOOLEAN
        BY <1>1, <1>5 DEF relationsVars
    <2> QED BY <2>1, IdleKeeps
<1> QED BY <1>2, <1>3, <1>4, <1>5 DEF RelationsNext

LEMMA RelationsBegin ==
    ASSUME RelationsInit
    PROVE  RelInv
<1>1. Open = {} BY DEF RelationsInit, Open
<1>2. RelationsTypeOK
    BY <1>1 DEF RelationsInit, RelationsTypeOK, Sound
<1>3. Programs BY <1>1 DEF Programs, RelationsInit
<1>4. Clashed BY <1>1 DEF Clashed
<1>5. Agreement
    <2>1. /\ mysql.friends = {} /\ mysql.group_members = {} /\ redis.friends = {} /\ redis.group = {}
        BY DEF RelationsInit
    <2>2. ASSUME NEW kind \in Kind, NEW p \in Pairs(kind) PROVE Good({}, kind, p)
        <3>1. \A q : ~CachedAtEnd({}, kind, q) BY <2>1 DEF CachedAtEnd, Adds, Kind
        <3>2. \A q : ~StoredAtEnd({}, kind, q) BY <2>1 DEF StoredAtEnd, Inserts, Stored
        <3> QED BY <3>1, <3>2 DEF Good, Same, Even
    <2> QED BY <1>1, <2>2 DEF Agreement
<1>6. mysql.groups = {} /\ mysql.group_members = {} /\ redis.group = {} BY DEF RelationsInit
<1>7. NothingBefore BY <1>1, <1>6 DEF NothingBefore, GroupExists
<1>8. OneCreator BY <1>1 DEF OneCreator
<1>9. Creators /\ OwnerInv BY <1>1, <1>6 DEF Creators, OwnerInv
<1> QED BY <1>2, <1>3, <1>4, <1>5, <1>7, <1>8, <1>9 DEF RelInv

LEMMA AgreementShows ==
    ASSUME RelInv
    PROVE  CacheAgrees /\ Mutual
<1>1. ASSUME NEW kind \in Kind, NEW p \in Pairs(kind), AtRest({p}), Real(kind, p)
      PROVE  /\ p \in redis[kind] <=> p \in Stored(kind)
             /\ kind = "friends" => (p \in mysql.friends <=> Mirror(p) \in mysql.friends)
    <2>1. p \notin clash /\ Untouched(p)
        <3>1. p \notin clash \cup UNION {Touched(task[k].req) : k \in Open} BY <1>1 DEF AtRest
        <3> QED BY <3>1 DEF Untouched
    <2>2. Good({}, kind, p) BY <1>1, <2>1 DEF RelInv, Agreement
    <2>3. \A q : /\ CachedAtEnd({}, kind, q) <=> q \in redis[kind]
                 /\ StoredAtEnd({}, kind, q) <=> q \in Stored(kind)
        BY DEF CachedAtEnd, StoredAtEnd, Adds, Removes, Inserts, Deletes
    <2>4. kind = "friends" => Stored(kind) = mysql.friends BY DEF Stored
    <2> QED BY <1>1, <2>2, <2>3, <2>4 DEF Good, Same, Even
<1>2. /\ mysql.users \subseteq User
      /\ \A q \in mysql.friends : q[1] \in mysql.users /\ q[2] \in mysql.users
    BY DEF RelInv, RelationsTypeOK, Sound
<1>3. ASSUME NEW u \in mysql.users, NEW v \in mysql.users, AtRest({<<u, v>>})
      PROVE  /\ <<u, v>> \in redis.friends <=> <<u, v>> \in mysql.friends
             /\ <<u, v>> \in mysql.friends <=> <<v, u>> \in mysql.friends
    <2> DEFINE p == <<u, v>>
               kind == "friends"
    <2>1. kind \in Kind /\ p \in Pairs(kind) /\ Real(kind, p) /\ AtRest({p})
        BY <1>2, <1>3 DEF Kind, Pairs, Real
    <2>2. Stored(kind) = mysql.friends /\ Mirror(p) = <<v, u>> BY DEF Stored, Mirror
    <2> HIDE DEF p
    <2>3. /\ p \in redis.friends <=> p \in mysql.friends
          /\ p \in mysql.friends <=> Mirror(p) \in mysql.friends
        BY <1>1, <2>1, <2>2
    <2> QED BY <2>2, <2>3 DEF p
<1>4. ASSUME NEW u \in mysql.users, NEW g \in Group, GroupExists(g), AtRest({<<g, u>>})
      PROVE  <<g, u>> \in redis.group <=> RoleOf(g, u) # "none"
    <2> DEFINE p == <<g, u>>
               kind == "group"
    <2>1. kind \in Kind /\ p \in Pairs(kind) /\ Real(kind, p) /\ AtRest({p})
        BY <1>2, <1>4 DEF Kind, Pairs, Real
    <2>2. p \in Stored(kind) <=> RoleOf(g, u) # "none" BY <1>2, HasRole
    <2> HIDE DEF p
    <2>3. p \in redis.group <=> p \in Stored(kind) BY <1>1, <2>1
    <2> QED BY <2>2, <2>3 DEF p
<1>5. CacheAgrees BY <1>3, <1>4 DEF CacheAgrees
<1>6. Mutual
    <2> SUFFICES ASSUME NEW u \in User, NEW v \in User, AtRest({<<u, v>>})
                 PROVE  <<u, v>> \in mysql.friends <=> <<v, u>> \in mysql.friends
        BY DEF Mutual
    <2>1. CASE u \in mysql.users /\ v \in mysql.users BY <1>3, <2>1
    <2>2. CASE ~(u \in mysql.users /\ v \in mysql.users)
        <3>1. \A a, b : <<a, b>> \in mysql.friends => a \in mysql.users /\ b \in mysql.users
            BY <1>2
        <3> QED BY <2>2, <3>1
    <2> QED BY <2>1, <2>2
<1> QED BY <1>5, <1>6

LEMMA OwnersShow ==
    ASSUME RelInv
    PROVE  OneOwner
<1>1. ASSUME NEW r \in mysql.groups
      PROVE  /\ \A u \in User : RoleOf(r[1], u) = "owner" => u = r[2]
             /\ \A u \in User : RoleOf(r[1], u) # "none" /\ AtRest({r[1]} \X User) =>
                   RoleOf(r[1], r[2]) = "owner"
    <2>1. r[1] \in Group /\ r[2] \in User BY DEF RelInv, RelationsTypeOK
    <2>2. ASSUME NEW u \in User, RoleOf(r[1], u) = "owner" PROVE u = r[2]
        <3>1. <<r[1], u, "owner">> \in mysql.group_members BY <2>1, <2>2, HasRole
        <3>2. PICK m \in mysql.group_members : m = <<r[1], u, "owner">> BY <3>1
        <3>3. m[1] = r[1] /\ m[2] = u /\ m[3] = "owner" BY <3>2
        <3>4. PICK q \in mysql.groups : q = <<r[1], u>> BY <3>2, <3>3 DEF RelInv, Creators
        <3>5. q[1] = r[1] /\ q[2] = u BY <3>4
        <3> QED BY <3>5 DEF RelInv, Creators
    <2>3. ASSUME NEW u \in User, RoleOf(r[1], u) # "none", AtRest({r[1]} \X User)
          PROVE  RoleOf(r[1], r[2]) = "owner"
        <3>1. ({r[1]} \X User) \cap clash = {} BY <2>3 DEF AtRest
        <3>2. ~NoMembers(r[1]) BY <2>1, <2>3, HasRole
        <3>3. Owned(r[1], r[2]) BY <3>1, <3>2 DEF RelInv, OwnerInv, Birth, Gone
        <3> QED BY <2>1, <3>3, HasRole DEF Owned
    <2> QED BY <2>2, <2>3
<1>2. \A r \in mysql.groups : r[2] \in User BY DEF RelInv, RelationsTypeOK
<1> QED BY <1>1, <1>2 DEF OneOwner

LEMMA RelationsKept == RelationsSpec => []RelInv
<1>1. RelationsInit => RelInv BY RelationsBegin
<1>2. RelInv /\ [RelationsNext]_relationsVars => RelInv' BY RelationsKeep
<1> QED BY <1>1, <1>2, PTL DEF RelationsSpec

\* The tables keep their foreign keys, and Redis answers who is a friend and who is
\* a member as MySQL does, for those that exist and wherever no two tasks have worked
\* on one friendship or membership at a time: the handlers of Friend.cc and Group.cc
\* and AccountKiller (Login.cc:139-197) write both, in whatever order, refused by
\* foreign keys or not.
THEOREM CopyAgrees == RelationsSpec => []RelationsInv
<1>1. RelInv => RelationsInv BY AgreementShows DEF RelationsInv, RelInv
<1> QED BY <1>1, RelationsKept, PTL

\* Friendship is mutual where no two tasks have worked on it at a time
\* (Friend.cc:133-137, 178-181; Login.cc:174-175).
THEOREM FriendsAreMutual == RelationsSpec => []Mutual
<1>1. RelInv => Mutual BY AgreementShows
<1> QED BY <1>1, RelationsKept, PTL

\* Nobody but its creator owns a group; and the group has its owner as long as it has
\* members, where nobody was let in while it was dissolved (Group.cc:96-99, 227-303).
THEOREM CreatorsOwn == RelationsSpec => []OneOwner
<1>1. RelInv => OneOwner BY OwnersShow
<1> QED BY <1>1, RelationsKept, PTL
-----------------------------------------------------------------------------
(* The end of an account. *)

\* What AccountKiller deletes before it deletes the user.
Cleanup(u) == {c \in Statements(u) : c.do = "delete" /\ c.table # "users"}

\* AccountKiller that works alone has its last statement before it, and what it
\* has deleted does not come back.
Farewell ==
    \A k \in Open : task[k].alone =>
        /\ Open = {k}
        /\ task[k].req.do = "AccountKiller" /\ ~Fresh(k) =>
              LET u == task[k].req.by IN
              /\ Last(task[k].todo) = Delete("users", {u})
              /\ \A c \in Cleanup(u) : c \in Left(k) \/ mysql[c.table] \cap c.rows = {}

LEMMA LastOne ==
    ASSUME NEW X, NEW s \in Seq(X), NEW t \in Seq(X), t # <<>>
    PROVE  /\ Last(s \o t) = Last(t)
           /\ Tail(t) = <<>> => Last(t) = Head(t)
           /\ Tail(t) # <<>> => Last(Tail(t)) = Last(t)
<1>1. Len(t) \in Nat \ {0} /\ Len(s) \in Nat OBVIOUS
<1>2. Last(s \o t) = Last(t)
    <2>1. Len(s \o t) = Len(s) + Len(t) /\ (s \o t)[Len(s) + Len(t)] = t[Len(t)] BY <1>1
    <2> QED BY <2>1 DEF Last
<1>3. Len(Tail(t)) = Len(t) - 1 /\ Tail(t) \in Seq(X) OBVIOUS
<1>4. ASSUME Tail(t) = <<>> PROVE Last(t) = Head(t)
    <2> DEFINE w == Tail(t)
    <2>1. Len(w) = Len(t) - 1 /\ w = <<>> BY <1>3, <1>4
    <2> HIDE DEF w
    <2>2. Len(w) = 0 BY <2>1
    <2>3. Len(t) = 1 BY <1>1, <2>1, <2>2
    <2> QED BY <2>3 DEF Last
<1>5. ASSUME Tail(t) # <<>> PROVE Last(Tail(t)) = Last(t)
    <2>1. Len(t) - 1 \in 1 .. Len(Tail(t)) BY <1>1, <1>3, <1>5
    <2>2. Tail(t)[Len(t) - 1] = t[Len(t)] BY <1>1, <2>1
    <2> QED BY <1>3, <2>2 DEF Last
<1> QED BY <1>2, <1>4, <1>5

LEMMA CleanupTables ==
    ASSUME NEW u, NEW c \in Cleanup(u)
    PROVE  /\ c.do = "delete" /\ c \in Statements(u)
           /\ c.table \in {"friends", "friend_requests", "group_requests", "group_members"}
BY DEF Cleanup, Statements, Delete, Del

\* Nothing refers to these rows: they go.
LEMMA CleanupRuns ==
    ASSUME Shape, NEW u, NEW c \in Cleanup(u), mysql' = MysqlAfter(c)
    PROVE  mysql'[c.table] \cap c.rows = {}
<1> DEFINE new == [mysql EXCEPT ![c.table] = @ \ c.rows]
<1>1. c.do = "delete" /\ c.table \in {"friends", "friend_requests", "group_requests", "group_members"}
    BY CleanupTables
<1>2. new[c.table] = mysql[c.table] \ c.rows BY <1>1 DEF Shape
<1>3. Sound(new)
    <2>1. CASE c.table = "friends" BY <2>1 DEF Shape, Sound
    <2>2. CASE c.table = "friend_requests" BY <2>2 DEF Shape, Sound
    <2>3. CASE c.table = "group_requests" BY <2>3 DEF Shape, Sound
    <2>4. CASE c.table = "group_members" BY <2>4 DEF Shape, Sound
    <2> QED BY <1>1, <2>1, <2>2, <2>3, <2>4
<1>4. mysql' = new BY <1>1, <1>3 DEF MysqlAfter, Statement
<1> HIDE DEF new
<1> QED BY <1>2, <1>4

\* AccountKiller inserts nothing.
LEMMA OnlyLess ==
    ASSUME Shape, NEW r \in Request, r.do = "AccountKiller", NEW c \in Commands(r), c.do \in Basic,
           mysql' = MysqlAfter(c), NEW table \in Tables
    PROVE  mysql'[table] \subseteq mysql[table]
<1>1. c.do \in {"srem", "delete"}
    <2>1. c \in Killing(r.by) BY DEF Commands
    <2>2. CASE c \in Statements(r.by) BY <2>2 DEF Statements, Basic, Del, Delete
    <2>3. CASE \E g \in Group : c = [do |-> "GroupExiter", group |-> g, by |-> r.by]
        BY <2>3 DEF Basic
    <2>4. CASE \E g \in Group : c \in Dissolution(g) BY <2>4 DEF Dissolution, Del, Delete
    <2>5. CASE \E g \in Group : c \in Removal(g, r.by) BY <2>5 DEF Removal, Srem, Delete
    <2>6. CASE \E v \in User : c = Srem("friends", v, r.by) BY <2>6 DEF Srem
    <2> QED BY <2>1, <2>2, <2>3, <2>4, <2>5, <2>6, KillingCases
<1>2. CASE c.do = "srem" BY <1>2 DEF MysqlAfter
<1>3. CASE c.do = "delete"
    <2>1. c.table \in Tables BY <1>3, CommandTyped DEF Typed
    <2>2. mysql' = mysql \/ mysql' = [mysql EXCEPT ![c.table] = @ \ c.rows]
        BY <1>3 DEF MysqlAfter, Statement
    <2> QED BY <2>1, <2>2 DEF Shape, Tables
<1> QED BY <1>1, <1>2, <1>3

\* The last statement: only a group or a message of the user can be in its way.
LEMMA UserGoes ==
    ASSUME Shape, NEW u \in User, mysql' = MysqlAfter(Delete("users", {u})),
           \A c \in Cleanup(u) : mysql[c.table] \cap c.rows = {}
    PROVE  \/ u \notin mysql'.users
           \/ \E r \in mysql'.group_messages : r[2] = u
           \/ \E r \in mysql'.groups : r[2] = u
<1> DEFINE new == [mysql EXCEPT !.users = @ \ {u}]
<1>1. mysql' = IF Sound(new) THEN new ELSE mysql BY DEF MysqlAfter, Statement, Delete
<1>2. new.users = mysql.users \ {u} BY DEF Shape
<1>3. CASE Sound(new) BY <1>1, <1>2, <1>3
<1>4. CASE ~Sound(new)
    <2>1. /\ mysql.friends \cap ({u} \X User) = {} /\ mysql.friends \cap (User \X {u}) = {}
          /\ mysql.friend_requests \cap ({u} \X User) = {}
          /\ mysql.friend_requests \cap (User \X {u}) = {}
          /\ mysql.group_requests \cap ({u} \X User \X Group) = {}
          /\ mysql.group_requests \cap (User \X {u} \X Group) = {}
          /\ mysql.group_members \cap (Group \X {u} \X Role) = {}
        <3>1. /\ Delete("friends", {u} \X User) \in Cleanup(u)
              /\ Delete("friends", User \X {u}) \in Cleanup(u)
              /\ Delete("friend_requests", {u} \X User) \in Cleanup(u)
              /\ Delete("friend_requests", User \X {u}) \in Cleanup(u)
            BY DEF Cleanup, Statements, Delete
        <3>2. /\ Delete("group_requests", {u} \X User \X Group) \in Cleanup(u)
              /\ Delete("group_requests", User \X {u} \X Group) \in Cleanup(u)
              /\ Delete("group_members", Group \X {u} \X Role) \in Cleanup(u)
            BY DEF Cleanup, Statements, Delete
        <3>3. \A table, rows : /\ Delete(table, rows).table = table
                               /\ Delete(table, rows).rows = rows
            BY DEF Delete
        <3>4. \A table, rows : Delete(table, rows) \in Cleanup(u) => mysql[table] \cap rows = {}
            BY <3>3
        <3> QED BY <3>1, <3>2, <3>4
    <2>2. /\ new.friends = mysql.friends /\ new.friend_requests = mysql.friend_requests
          /\ new.groups = mysql.groups /\ new.group_requests = mysql.group_requests
          /\ new.group_members = mysql.group_members /\ new.group_messages = mysql.group_messages
        BY DEF Shape
    <2>3. mysql' = mysql BY <1>1, <1>4
    <2>4. SUFFICES ASSUME \A r \in mysql.group_messages : r[2] # u, \A r \in mysql.groups : r[2] # u
                   PROVE  FALSE
        BY <2>3
    <2> DEFINE groups == {r[1] : r \in mysql.groups}
    <2> HIDE DEF new, groups
    <2>5. mysql.friends \cup mysql.friend_requests \subseteq new.users \X new.users
        BY <1>2, <2>1 DEF Shape, Sound
    <2>6. mysql.group_requests \subseteq new.users \X new.users \X groups
        BY <1>2, <2>1 DEF Shape, Sound, groups
    <2>7. mysql.group_members \subseteq groups \X new.users \X Role
        BY <1>2, <2>1 DEF Shape, Sound, groups
    <2>8. mysql.group_messages \subseteq groups \X new.users
        BY <1>2, <2>4 DEF Shape, Sound, groups
    <2>9. \A r \in mysql.groups : r[2] \in new.users BY <1>2, <2>4 DEF Shape, Sound
    <2>10. Sound(new) BY <2>2, <2>5, <2>6, <2>7, <2>8, <2>9 DEF Sound, groups
    <2> QED BY <1>4, <2>10
<1> QED BY <1>3, <1>4

\* AccountKiller begins: its statements come in the end.
LEMMA KillerBegins ==
    ASSUME RelInv, NEW k \in Worker, AccountKiller(k)
    PROVE  /\ k \in Open' /\ Open' = Open /\ \A j \in Worker \ {k} : task'[j] = task[j]
           /\ task'[k].req = task[k].req /\ task'[k].alone = task[k].alone
           /\ Statements(task[k].req.by) \subseteq Left(k)'
           /\ Last(task'[k].todo) = Delete("users", {task[k].req.by})
           /\ UNCHANGED <<mysql, redis, wanted, clash, died>>
<1> DEFINE r == task[k].req
           V == Own(r.by)
           x == [i \in 1 .. Len(SetToSeq(V)) |-> Exit(SetToSeq(V)[i], r.by)]
           y == <<Del("blacklist", r.by),
                  Delete("friend_requests", {r.by} \X User), Delete("friend_requests", User \X {r.by}),
                  Delete("group_requests", {r.by} \X User \X Group),
                  Delete("group_requests", User \X {r.by} \X Group),
                  Delete("friends", {r.by} \X User), Delete("friends", User \X {r.by}),
                  Del("friends", r.by),
                  [do |-> "unfriend", by |-> r.by],
                  Delete("group_members", Group \X {r.by} \X Role),
                  [do |-> "ungroup", by |-> r.by],
                  Delete("users", {r.by})>>
           C == Commands(r)
<1>1. task[k] # Idle /\ FirstOf(k).do = "AccountKiller" BY DEF AccountKiller, At
<1>2. k \in Open /\ FirstOf(k) = r /\ r \in Request BY <1>1, HeadOf
<1>3. r.do = "AccountKiller" BY <1>1, <1>2
<1>4. Continue(k, x \o y) BY <1>2 DEF AccountKiller, ForEach, Own, Exit
<1>5. x \in Seq(C) BY <1>2, <1>3, ExitsOf
<1>6. y \in Seq(C) /\ ToSet(y) = Statements(r.by)
    <2>1. y \in Seq(Statements(r.by)) /\ ToSet(y) = Statements(r.by) BY StatementSeq
    <2>2. Statements(r.by) \subseteq C BY <1>3 DEF Killing, Commands
    <2> HIDE DEF y, C
    <2> QED BY <2>1, <2>2
<1>7. Last(y) = Delete("users", {r.by}) /\ y # <<>>
    <2>1. Len(y) = 12 /\ y[12] = Delete("users", {r.by}) OBVIOUS
    <2> HIDE DEF y
    <2>2. y = <<>> => Len(y) = 0 OBVIOUS
    <2>3. Last(y) = y[Len(y)] BY DEF Last
    <2> QED BY <2>1, <2>2, <2>3
<1> HIDE DEF x, y, C
<1>8. /\ x \o y \in Seq(C) /\ x \o y # <<>> /\ ToSet(y) \subseteq ToSet(x \o y)
      /\ Last(x \o y) = Delete("users", {r.by})
    BY <1>5, <1>6, <1>7, BothParts, LastOne
<1>9. Step(k, x \o y)
    <2>1. Programs /\ Become(k, x \o y) BY <1>4 DEF RelInv, Continue
    <2> QED BY <1>2, <1>8, <2>1, Becoming DEF C
<1>10. Tail(task[k].todo) = <<>>
    <2>1. ~Fresh(k) => FirstOf(k) \in Commands(r) BY <1>2, FirstCommand DEF RelInv
    <2>2. Fresh(k) BY <1>2, <2>1, NotItself
    <2> QED BY <1>2, <2>2, FirstCommand DEF RelInv
<1>11. k \in Open'
    <2>1. ToSet(x \o y) # {} BY <1>6, <1>8 DEF Statements
    <2> QED BY <1>9, <2>1 DEF Step
<1>12. task'[k].todo = x \o y /\ Left(k)' = ToSet(x \o y) \cup Rest(k)
    <2>1. task'[k].todo = (x \o y) \o <<>> BY <1>9, <1>10, <1>11 DEF Step
    <2>2. (x \o y) \o <<>> = x \o y BY <1>8
    <2> QED BY <1>9, <1>11, <2>1, <2>2 DEF Step
<1>13. Open' = Open BY <1>2, <1>9, <1>11 DEF Step
<1> QED BY <1>4, <1>6, <1>8, <1>9, <1>11, <1>12, <1>13 DEF Step, Continue

\* Only its own handler takes up a request that is still whole.
LEMMA OnlyItself ==
    ASSUME RelInv, NEW k \in Open, Work(k), Fresh(k), task[k].req.do = "AccountKiller"
    PROVE  AccountKiller(k)
<1>1. FirstOf(k).do = "AccountKiller" BY DEF Fresh, FirstOf
<1> QED BY <1>1 DEF Work, At, Execute, DoForward, Notice, FriendAdder, FriendAddResponser,
       FriendDeleter, FriendBlocker, FriendUnblocker, GroupCreater, GroupAdder, AskAdmin,
       GroupAddResponser, GroupExiter, MemberKicker, AdminAdder, AdminRemover, ChangeRole,
       GroupChatter, Unfriend, Ungroup

\* The handler is at one of the commands before the last.
LEMMA GoingOn ==
    ASSUME RelInv, Farewell, NEW k \in Open, task[k].alone, task[k].req.do = "AccountKiller",
           ~Fresh(k)
    PROVE  LET u == task[k].req.by IN
           /\ Tail(task[k].todo) = <<>> => FirstOf(k) = Delete("users", {u})
           /\ Tail(task[k].todo) # <<>> => Last(Tail(task[k].todo)) = Delete("users", {u})
<1> DEFINE X == Request \cup UNION {Commands(r) : r \in Request}
<1>1. task[k].todo \in Seq(X) /\ task[k].todo # <<>> BY FirstCommand DEF RelInv
<1>2. Last(task[k].todo) = Delete("users", {task[k].req.by}) BY DEF Farewell
<1> HIDE DEF X
<1> QED BY <1>1, <1>2, LastOne DEF FirstOf

LEMMA StepOn ==
    ASSUME RelInv, Farewell, NEW k \in Open, NEW s \in Seq(Commands(task[k].req)), Step(k, s),
           task[k].alone, task[k].req.do = "AccountKiller", ~Fresh(k), k \in Open'
    PROVE  \/ Last(task'[k].todo) = Delete("users", {task[k].req.by})
           \/ FirstOf(k) = Delete("users", {task[k].req.by}) /\ Rest(k) = {}
<1> DEFINE X == Request \cup UNION {Commands(r) : r \in Request}
           t == Tail(task[k].todo)
<1>1. /\ task[k].todo \in Seq(X) /\ task[k].todo # <<>> /\ task[k].req \in Request
    BY FirstCommand DEF RelInv
<1>2. s \in Seq(X) BY <1>1
<1> HIDE DEF X
<1>3. t \in Seq(X) BY <1>1, FirstAndRest
<1>4. task'[k].todo = s \o t BY DEF Step
<1> HIDE DEF t
<1>5. CASE t = <<>> BY <1>5, GoingOn, SetOfTuple DEF t, Rest
<1>6. CASE t # <<>>
    <2>1. Last(s \o t) = Last(t) BY <1>2, <1>3, <1>6, LastOne
    <2> QED BY <1>4, <1>6, <2>1, GoingOn DEF t
<1> QED BY <1>5, <1>6

LEMMA WorkFarewell ==
    ASSUME RelInv, Farewell, NEW k \in Worker, Work(k)
    PROVE  Farewell'
<1> DEFINE u == task[k].req.by
<1>1. CASE Die
    <2>1. UNCHANGED <<task, mysql>> BY <1>1 DEF Die
    <2> QED BY <2>1 DEF Farewell, Open, Fresh, Left
<1>2. CASE Execute(k)
    <2>1. /\ k \in Open /\ task[k].req \in Request /\ FirstOf(k) \in Commands(task[k].req)
          /\ FirstOf(k).do \in Basic /\ Left(k) = {FirstOf(k)} \cup Rest(k)
          /\ ~Fresh(k) /\ mysql' = MysqlAfter(FirstOf(k)) /\ Step(k, <<>>) /\ Shape
          /\ k \in Open' => Left(k)' = Rest(k)
        BY <1>2, Executing
    <2> SUFFICES ASSUME NEW j \in Open', task'[j].alone
                 PROVE  /\ Open' = {j}
                        /\ task'[j].req.do = "AccountKiller" =>
                              /\ Last(task'[j].todo) = Delete("users", {task'[j].req.by})
                              /\ \A c \in Cleanup(task'[j].req.by) :
                                    c \in Left(j)' \/ mysql'[c.table] \cap c.rows = {}
        BY DEF Farewell
    <2>2. j = k /\ Open' = {k} /\ task[k].alone /\ Open = {k} /\ task'[k].req = task[k].req
        <3>1. j \in Open /\ task[j].alone BY <2>1 DEF Step, Open
        <3>2. Open = {j} BY <3>1 DEF Farewell
        <3> QED BY <2>1, <3>1, <3>2 DEF Step
    <2> SUFFICES ASSUME task[k].req.do = "AccountKiller"
                 PROVE  /\ Last(task'[k].todo) = Delete("users", {u})
                        /\ \A c \in Cleanup(u) : c \in Left(k)' \/ mysql'[c.table] \cap c.rows = {}
        BY <2>2
    <2>3. Last(task'[k].todo) = Delete("users", {u})
        <3> DEFINE s == <<>>
        <3>1. s \in Seq(Commands(task[k].req)) /\ Step(k, s) BY <2>1
        <3>2. ToSet(s) = {} BY SetOfTuple
        <3> HIDE DEF s
        <3>3. Rest(k) # {}
            <4>1. Left(k)' = Rest(k) /\ task'[k].todo # <<>> BY <2>1, <2>2 DEF Step
            <4>2. task'[k].todo \in Seq(Request \cup UNION {Commands(r) : r \in Request})
                BY <1>2, <2>2, Executing DEF Open
            <4>3. Head(task'[k].todo) \in ToSet(task'[k].todo) BY <4>1, <4>2, FirstAndRest
            <4> QED BY <4>1, <4>3 DEF Left
        <3> QED BY <2>1, <2>2, <3>1, <3>3, StepOn
    <2>4. ASSUME NEW c \in Cleanup(u) PROVE c \in Left(k)' \/ mysql'[c.table] \cap c.rows = {}
        <3>1. c \in Left(k) \/ mysql[c.table] \cap c.rows = {} BY <2>1, <2>2 DEF Farewell
        <3>2. CASE c = FirstOf(k) BY <2>1, <3>2, CleanupRuns
        <3>3. CASE c \in Rest(k) BY <2>1, <2>2, <3>3
        <3>4. CASE mysql[c.table] \cap c.rows = {}
            <4>1. c.table \in Tables BY CleanupTables DEF Tables
            <4>2. mysql'[c.table] \subseteq mysql[c.table] BY <2>1, <4>1, OnlyLess
            <4> QED BY <3>4, <4>2
        <3> QED BY <2>1, <3>1, <3>2, <3>3, <3>4
    <2> QED BY <2>3, <2>4
<1>3. CASE Unfolds(k)
    <2>1. PICK s : /\ Faithful(task[k].req, FirstOf(k), s) /\ Step(k, s) /\ k \in Open
                   /\ s \in Seq(Commands(task[k].req))
        BY <1>3, Unfolding
    <2>2. mysql' = mysql BY <1>3 DEF Unfolds
    <2>3. FirstOf(k).do \notin Basic BY <2>1 DEF Faithful
    <2> SUFFICES ASSUME NEW j \in Open', task'[j].alone
                 PROVE  /\ Open' = {j}
                        /\ task'[j].req.do = "AccountKiller" =>
                              /\ Last(task'[j].todo) = Delete("users", {task'[j].req.by})
                              /\ \A c \in Cleanup(task'[j].req.by) :
                                    c \in Left(j)' \/ mysql'[c.table] \cap c.rows = {}
        BY DEF Farewell
    <2>4. j = k /\ Open' = {k} /\ task[k].alone /\ Open = {k} /\ task'[k].req = task[k].req
        <3>1. j \in Open /\ task[j].alone BY <2>1 DEF Step, Open
        <3>2. Open = {j} BY <3>1 DEF Farewell
        <3> QED BY <2>1, <3>1, <3>2 DEF Step
    <2> SUFFICES ASSUME task[k].req.do = "AccountKiller"
                 PROVE  /\ Last(task'[k].todo) = Delete("users", {u})
                        /\ \A c \in Cleanup(u) : c \in Left(k)' \/ mysql'[c.table] \cap c.rows = {}
        BY <2>4
    <2>5. CASE Fresh(k)
        <3>1. AccountKiller(k) BY <2>1, <2>5, OnlyItself
        <3> QED BY <3>1, KillerBegins, CleanupTables
    <2>6. CASE ~Fresh(k)
        <3>1. FirstOf(k) # Delete("users", {u}) BY <2>3 DEF Delete, Basic
        <3>2. Last(task'[k].todo) = Delete("users", {u}) BY <2>1, <2>4, <2>6, <3>1, StepOn
        <3>3. Left(k) = {FirstOf(k)} \cup Rest(k) BY <2>1, FirstCommand DEF RelInv
        <3>4. Rest(k) \subseteq Left(k)' BY <2>1, <2>4 DEF Step
        <3>5. \A c \in Cleanup(u) : c # FirstOf(k) BY <2>3, CleanupTables DEF Basic
        <3>6. \A c \in Cleanup(u) : c \in Left(k) \/ mysql[c.table] \cap c.rows = {}
            BY <2>4, <2>6 DEF Farewell
        <3> QED BY <2>2, <3>2, <3>3, <3>4, <3>5, <3>6
    <2> QED BY <2>5, <2>6
<1> QED BY <1>1, <1>2, <1>3, Working DEF Handled

LEMMA AskFarewell ==
    ASSUME RelInv, Farewell, NEW k \in Worker, NEW r \in Request, Ask(k, r)
    PROVE  Farewell'
<1>1. /\ k \notin Open /\ Open' = Open \cup {k} /\ Fresh(k)'
    BY Asking
<1>2. task' = [j \in Worker |->
                  IF j = k THEN [req |-> r, todo |-> <<r>>, alone |-> Open = {}]
                  ELSE IF task[j] = Idle THEN Idle ELSE [task[j] EXCEPT !.alone = FALSE]]
    BY DEF Ask
<1>3. ASSUME Open # {} PROVE ~task'[k].alone
    <2>1. task'[k] = [req |-> r, todo |-> <<r>>, alone |-> FALSE] BY <1>2, <1>3
    <2> QED BY <2>1
<1>4. ASSUME NEW j \in Open PROVE ~task'[j].alone
    <2>1. j # k /\ j \in Worker /\ task[j] # Idle BY <1>1, <1>4 DEF Open
    <2>2. task'[j] = [task[j] EXCEPT !.alone = FALSE] BY <1>2, <2>1
    <2>3. task[j] \in [req : Request, todo : Seq(Request \cup UNION {Commands(q) : q \in Request}),
                       alone : BOOLEAN]
        BY <2>1 DEF RelInv, Programs
    <2> QED BY <2>2, <2>3
<1> QED BY <1>1, <1>3, <1>4 DEF Farewell

LEMMA FarewellKept == RelationsSpec => []Farewell
<1>1. RelationsInit => Farewell BY DEF RelationsInit, Farewell, Open
<1>2. RelInv /\ Farewell /\ [RelationsNext]_relationsVars => Farewell'
    <2> SUFFICES ASSUME RelInv, Farewell, [RelationsNext]_relationsVars PROVE Farewell'
        OBVIOUS
    <2>1. ASSUME UNCHANGED <<task, mysql>> PROVE Farewell'
        BY <2>1 DEF Farewell, Open, Fresh, Left
    <2>2. (\E u \in User : Login(u)) \/ UNCHANGED relationsVars => UNCHANGED <<task, mysql>>
        BY DEF Login, relationsVars
    <2> QED BY <2>1, <2>2, WorkFarewell, AskFarewell DEF RelationsNext
<1> QED BY <1>1, <1>2, RelationsKept, PTL DEF RelationsSpec

\* The task of k ends with this step.
LEMMA KillerEnds ==
    ASSUME RelInv, Farewell, NEW k \in Worker, Work(k), task[k] # Idle, task'[k] = Idle,
           task[k].req.do = "AccountKiller", task[k].alone
    PROVE  \/ task[k].req.by \notin mysql'.users
           \/ \E r \in mysql'.group_messages : r[2] = task[k].req.by
           \/ \E r \in mysql'.groups : r[2] = task[k].req.by
<1> DEFINE u == task[k].req.by
<1>1. k \in Open /\ k \notin Open' BY DEF Open
<1>2. CASE Fresh(k) BY <1>1, <1>2, OnlyItself, KillerBegins
<1>3. CASE ~Fresh(k)
    <2>1. Execute(k) \/ Unfolds(k)
        <3>1. Execute(k) \/ Handled(k) BY Working
        <3>2. ~Die BY DEF Die
        <3> QED BY <3>1, <3>2 DEF Handled
    <2>2. \E s : Step(k, s) BY <2>1, Executing, Unfolding
    <2>3. Rest(k) = {} BY <1>1, <2>2 DEF Step
    <2>4. Tail(task[k].todo) = <<>>
        <3> DEFINE X == Request \cup UNION {Commands(r) : r \in Request}
                   t == Tail(task[k].todo)
        <3>1. task[k].todo \in Seq(X) /\ task[k].todo # <<>> BY <1>1, FirstCommand DEF RelInv
        <3> HIDE DEF X
        <3>2. t \in Seq(X) BY <3>1, FirstAndRest
        <3> HIDE DEF t
        <3>3. t # <<>> => Head(t) \in ToSet(t) BY <3>2, FirstAndRest
        <3> QED BY <2>3, <3>3 DEF Rest, t
    <2>5. FirstOf(k) = Delete("users", {u}) BY <1>1, <1>3, <2>4, GoingOn
    <2>6. FirstOf(k).do \in Basic BY <2>5 DEF Delete, Basic
    <2>7. Execute(k)
        <3>1. Unfolds(k) => FirstOf(k).do \notin Basic BY DEF Unfolds, Faithful
        <3> QED BY <2>1, <2>6, <3>1
    <2>8. /\ mysql' = MysqlAfter(Delete("users", {u})) /\ Shape /\ Left(k) = {Delete("users", {u})}
          /\ task[k].req \in Request
        BY <2>3, <2>5, <2>7, Executing
    <2>9. Delete("users", {u}) \notin Cleanup(u) BY DEF Cleanup, Delete
    <2>10. \A c \in Cleanup(u) : mysql[c.table] \cap c.rows = {}
        BY <1>1, <1>3, <2>8, <2>9 DEF Farewell
    <2>11. u \in User BY <2>8, RequestTyped
    <2> QED BY <2>8, <2>10, <2>11, UserGoes
<1> QED BY <1>2, <1>3

\* AccountKiller, alone at work, ends with the user gone, for any users, groups and
\* requests, unless a stored message of the user or a group that could not be deleted
\* is in its way (Login.cc:139-197).
THEOREM AccountGone == RelationsSpec => Removed
<1> DEFINE Ending ==
        \A k \in Worker :
          (task[k] # Idle /\ task'[k] = Idle /\ task[k].req.do = "AccountKiller" /\ task[k].alone)
          => LET u == task[k].req.by IN
             \/ u \notin mysql'.users
             \/ \E r \in mysql'.group_messages : r[2] = u
             \/ \E r \in mysql'.groups : r[2] = u
<1>1. RelInv /\ Farewell /\ [RelationsNext]_relationsVars => [Ending]_relationsVars
    <2> SUFFICES ASSUME RelInv, Farewell, RelationsNext, NEW k \in Worker,
                        task[k] # Idle, task'[k] = Idle, task[k].req.do = "AccountKiller",
                        task[k].alone
                 PROVE  \/ task[k].req.by \notin mysql'.users
                        \/ \E r \in mysql'.group_messages : r[2] = task[k].req.by
                        \/ \E r \in mysql'.groups : r[2] = task[k].req.by
        OBVIOUS
    <2>1. k \in Open /\ k \notin Open' BY DEF Open
    <2>2. ASSUME NEW j \in Worker, Work(j) PROVE j = k
        <3>1. Execute(j) \/ Handled(j) BY <2>2, Working
        <3>2. ~Die BY DEF Die
        <3>3. \E s : Step(j, s) BY <2>2, <3>1, <3>2, Executing, Unfolding DEF Handled
        <3> QED BY <2>1, <3>3 DEF Step
    <2>3. ASSUME NEW j \in Worker, NEW r \in Request, Ask(j, r) PROVE FALSE
        BY <2>1, <2>3, Asking
    <2>4. ASSUME NEW u \in User, Login(u) PROVE FALSE BY <2>4 DEF Login
    <2> QED BY <2>2, <2>3, <2>4, KillerEnds DEF RelationsNext
<1>2. RelationsSpec => [][Ending]_relationsVars
    BY <1>1, RelationsKept, FarewellKept, PTL DEF RelationsSpec
<1> QED BY <1>2 DEF Removed
=============================================================================
