----------------------------- MODULE ClientProofs -----------------------------
(***************************************************************************)
(* The client.  For any applicants and transfers: an answer that the main  *)
(* thread takes is the answer to its last request, and it reads no list    *)
(* that is being rebuilt, but for lists that come unasked; and the request *)
(* that is answered is the one that was picked, unless one has been        *)
(* removed.                                                                *)
(*                                                                         *)
(* What holds of every program of the main thread is what is kept when one *)
(* is put in front of the rest of another: the answer to a request is      *)
(* waited for at once, between a lock and its unlock no list is asked for, *)
(* and requests are handled in programs of their own.                      *)
(***************************************************************************)
EXTENDS Client, SelectionProofs

\* A request is followed by the wait for its answer, and that by the reset.
PairedAt(s, i) ==
    /\ s[i].op = "send" => i + 1 <= Len(s) /\ s[i + 1] = Op("wait", s[i].arg)
    /\ s[i].op = "wait" /\ s[i].arg # "files" =>
           i + 1 <= Len(s) /\ s[i + 1] = Op("reset", s[i].arg)
    /\ s[i].op = "wait" /\ i > 1 => s[i - 1] = Op("send", s[i].arg)
    /\ s[i].op = "reset" /\ i > 1 => s[i - 1] = Op("wait", s[i].arg)

Paired(s) == \A i \in 1 .. Len(s) : PairedAt(s, i)

\* A program that does not begin in the middle of a request.
Formed(s) ==
    /\ s \in Seq(Instr)
    /\ Paired(s)
    /\ Len(s) >= 1 => s[1].op \notin {"wait", "reset"}

\* What the panel may not do while it has the mutexes.
AsksForList(o) == o.op \in {"send", "wait", "reset"} /\ o.arg \in {"friends", "groups"}

Quiet(s) == \A i \in 1 .. Len(s) : ~AsksForList(s[i]) /\ s[i].op # "lock"

\* The mutex of a kind is going to be released before a list is asked for.
Released(k, s) ==
    \E j \in 1 .. Len(s) :
        s[j] = Op("unlock", k) /\ \A i \in 1 .. Len(s) : i < j => ~AsksForList(s[i])

\* The same of every mutex that is still to be locked.
LocksReleased(s) ==
    \A i \in 1 .. Len(s) :
        s[i].op = "lock" =>
            \E j \in 1 .. Len(s) :
                /\ i < j /\ s[j] = Op("unlock", s[i].arg)
                /\ \A h \in 1 .. Len(s) : i < h /\ h < j => ~AsksForList(s[h])

\* The steps of showHandleFriendRequest and showHandleGroupRequest.
Handles(o) ==
    \/ o.op \in {"show", "pick", "respond"}
    \/ o.op = "prompt" /\ o.arg \in {"answer", "HANDLE_FRIEND_REQUEST", "HANDLE_GROUP_REQUEST"}

Plain(s) == \A i \in 1 .. Len(s) : ~Handles(s[i])

\* What a choice puts in front of the rest, but for those two screens.
Usual(s) == Formed(s) /\ Quiet(s) /\ Plain(s)
-----------------------------------------------------------------------------
(* The invariant. *)

\* AnswersAreOwn, with what it rests on: one request at a time.
Single(w) ==
    /\ InStep(w)
    /\ pending[w] <= 1
    /\ At("reset") /\ Arg = w => ready[w]

OneRequest ==
    /\ Paired(todo)
    /\ \A w \in Waiter \ (unasked \cup {"files"}) : Single(w)

PanelInv ==
    /\ LocksReleased(todo)
    /\ \A k \in Kind : holder[k] = "main" => Released(k, todo)

\* Where the main thread is in the handling of requests of a kind.
Handling(k) ==
    \/ todo = HandleRequests(k)
    \/ todo = Prompt(Requests(k)) /\ picked.kind = k
    \/ /\ \E i \in DOMAIN picked.list : todo = <<Pick(k, i)>> \o Prompt("answer")
       /\ picked.kind = k
    \/ /\ todo = Prompt("answer") \/ todo = <<Op("respond", k)>> \o HandleRequests(k)
       /\ picked.kind = k /\ picked.index \in DOMAIN picked.list

\* What was shown is still the head of the list of requests.
StillShown ==
    LET list == requests[picked.kind] IN
    Len(picked.list) <= Len(list) /\ \A i \in 1 .. Len(picked.list) : picked.list[i] = list[i]

PickInv ==
    /\ Plain(todo) \/ \E k \in Kind : Handling(k)
    /\ removed => picked.kind = "group"
    /\ removed \/ At("show") \/ StillShown

MainInv == TypeOK /\ OneRequest /\ PanelInv /\ PickInv
-----------------------------------------------------------------------------
(* Programs in front of programs. *)

LEMMA InstrFields ==
    ASSUME NEW o \in Instr
    PROVE  /\ o.op = "goto" => o.arg \in State
           /\ o.op = "prompt" => o.arg \in Choice
           /\ o.op = "branch" => o.arg \in {"regErrno", "findErrno", "loginErrno"}
           /\ o.op \in {"send", "wait", "reset"} => o.arg \in Waiter
           /\ o.op \in {"lock", "unlock", "check", "upload", "show", "respond", "pick"} =>
                  o.arg \in Kind
           /\ o.op \in {"goto", "prompt", "branch", "send", "wait", "reset", "lock", "unlock",
                        "check", "upload", "show", "respond", "pick"}
           /\ o.number \in Nat
<1>1. CASE o \in [op : {"goto"}, arg : State, number : {0}]
    <2>1. o.op = "goto" /\ o.arg \in State /\ o.number = 0 BY <1>1
    <2> QED BY <2>1
<1>2. CASE o \in [op : {"prompt"}, arg : Choice, number : {0}]
    <2>1. o.op = "prompt" /\ o.arg \in Choice /\ o.number = 0 BY <1>2
    <2> QED BY <2>1
<1>3. CASE o \in [op : {"branch"}, arg : {"regErrno", "findErrno", "loginErrno"}, number : {0}]
    <2>1. o.op = "branch" /\ o.arg \in {"regErrno", "findErrno", "loginErrno"} /\ o.number = 0
        BY <1>3
    <2> QED BY <2>1
<1>4. CASE o \in [op : {"send", "wait", "reset"}, arg : Waiter, number : {0}]
    <2>1. o.op \in {"send", "wait", "reset"} /\ o.arg \in Waiter /\ o.number = 0 BY <1>4
    <2> QED BY <2>1
<1>5. CASE o \in [op : {"lock", "unlock", "check", "upload", "show", "respond"},
                  arg : Kind, number : {0}]
    <2>1. /\ o.op \in {"lock", "unlock", "check", "upload", "show", "respond"}
          /\ o.arg \in Kind /\ o.number = 0
        BY <1>5
    <2> QED BY <2>1
<1>6. CASE o \in [op : {"pick"}, arg : Kind, number : Nat]
    <2>1. o.op = "pick" /\ o.arg \in Kind /\ o.number \in Nat BY <1>6
    <2> QED BY <2>1
<1> QED BY <1>1, <1>2, <1>3, <1>4, <1>5, <1>6 DEF Instr

\* The entries of a program in front of another.
LEMMA Entries ==
    ASSUME NEW s \in Seq(Instr), NEW t \in Seq(Instr)
    PROVE  /\ s \o t \in Seq(Instr) /\ Len(s \o t) = Len(s) + Len(t)
           /\ \A i \in 1 .. Len(s) : (s \o t)[i] = s[i]
           /\ \A i \in 1 .. Len(t) : (s \o t)[Len(s) + i] = t[i]
           /\ \A i \in Len(s) + 1 .. Len(s) + Len(t) : (s \o t)[i] = t[i - Len(s)]
           /\ Len(s) \in Nat /\ Len(t) \in Nat
BY ConcatProperties, LenProperties

LEMMA PlainConcat ==
    ASSUME NEW s \in Seq(Instr), NEW t \in Seq(Instr), Plain(s), Plain(t)
    PROVE  Plain(s \o t)
<1>1. PICK c : c = s \o t OBVIOUS
<1> QED BY <1>1, Entries DEF Plain

LEMMA QuietConcat ==
    ASSUME NEW s \in Seq(Instr), NEW t \in Seq(Instr), Quiet(s), Quiet(t)
    PROVE  Quiet(s \o t)
<1>1. PICK c : c = s \o t OBVIOUS
<1> QED BY <1>1, Entries DEF Quiet

LEMMA FormedConcat ==
    ASSUME NEW s, NEW t, Formed(s), Formed(t)
    PROVE  Formed(s \o t)
<1>1. PICK c : c = s \o t OBVIOUS
<1>2. s \in Seq(Instr) /\ t \in Seq(Instr) BY DEF Formed
<1>3. /\ c \in Seq(Instr) /\ Len(c) = Len(s) + Len(t)
      /\ \A i \in 1 .. Len(s) : c[i] = s[i]
      /\ \A i \in Len(s) + 1 .. Len(s) + Len(t) : c[i] = t[i - Len(s)]
      /\ Len(s) \in Nat /\ Len(t) \in Nat
    BY <1>1, <1>2, Entries
<1>4. ASSUME NEW i \in 1 .. Len(s) PROVE PairedAt(c, i)
    <2>1. PairedAt(s, i) BY <1>4 DEF Formed, Paired
    <2>2. c[i] = s[i] /\ (i + 1 <= Len(s) => c[i + 1] = s[i + 1]) BY <1>3, <1>4
    <2>3. i \in Int /\ (i > 1 => c[i - 1] = s[i - 1]) BY <1>3, <1>4
    <2> QED BY <1>3, <1>4, <2>1, <2>2, <2>3 DEF PairedAt
<1>5. ASSUME NEW i \in Len(s) + 1 .. Len(s) + Len(t) PROVE PairedAt(c, i)
    <2>1. PICK j : j = i - Len(s) OBVIOUS
    <2>2. j \in 1 .. Len(t) /\ i = Len(s) + j BY <1>3, <1>5, <2>1
    <2>3. PairedAt(t, j) BY <2>2 DEF Formed, Paired
    <2>4. c[i] = t[j] BY <1>3, <1>5, <2>1
    <2>5. j + 1 <= Len(t) => c[i + 1] = t[j + 1]
        <3>1. j + 1 <= Len(t) => i + 1 \in Len(s) + 1 .. Len(s) + Len(t) BY <1>3, <2>2
        <3>2. (i + 1) - Len(s) = j + 1 BY <1>3, <2>2
        <3> QED BY <1>3, <3>1, <3>2
    <2>6. j > 1 => c[i - 1] = t[j - 1]
        <3>1. j > 1 => i - 1 \in Len(s) + 1 .. Len(s) + Len(t) BY <1>3, <2>2
        <3>2. (i - 1) - Len(s) = j - 1 BY <1>3, <2>2
        <3> QED BY <1>3, <3>1, <3>2
    <2>7. j = 1 => t[j].op \notin {"wait", "reset"} BY <1>3, <2>2 DEF Formed
    <2>8. c[i].op = "send" => i + 1 <= Len(c) /\ c[i + 1] = Op("wait", c[i].arg)
        BY <1>3, <2>2, <2>3, <2>4, <2>5 DEF PairedAt
    <2>9. c[i].op = "wait" /\ c[i].arg # "files" =>
              i + 1 <= Len(c) /\ c[i + 1] = Op("reset", c[i].arg)
        BY <1>3, <2>2, <2>3, <2>4, <2>5 DEF PairedAt
    <2>10. /\ c[i].op = "wait" => c[i - 1] = Op("send", c[i].arg)
           /\ c[i].op = "reset" => c[i - 1] = Op("wait", c[i].arg)
        BY <2>2, <2>3, <2>4, <2>6, <2>7 DEF PairedAt
    <2> QED BY <2>8, <2>9, <2>10 DEF PairedAt
<1>6. Paired(c)
    <2> SUFFICES ASSUME NEW i \in 1 .. Len(c) PROVE PairedAt(c, i) BY DEF Paired
    <2>1. i \in 1 .. Len(s) \/ i \in Len(s) + 1 .. Len(s) + Len(t) BY <1>3
    <2> QED BY <1>4, <1>5, <2>1
<1>7. Len(c) >= 1 => c[1].op \notin {"wait", "reset"}
    <2>1. CASE Len(s) >= 1 BY <1>3, <2>1 DEF Formed
    <2>2. CASE Len(s) = 0 BY <1>3, <2>2 DEF Formed
    <2> QED BY <1>3, <2>1, <2>2
<1> QED BY <1>1, <1>3, <1>6, <1>7 DEF Formed

LEMMA UsualConcat ==
    ASSUME NEW s, NEW t, Usual(s), Usual(t)
    PROVE  Usual(s \o t)
BY FormedConcat, QuietConcat, PlainConcat DEF Usual, Formed

\* The first step is done.
LEMMA TailKeeps ==
    ASSUME NEW s \in Seq(Instr), s # <<>>
    PROVE  /\ Head(s) \in Instr /\ Head(s) = s[1] /\ Len(s) \in Nat \ {0}
           /\ Tail(s) \in Seq(Instr) /\ Len(Tail(s)) = Len(s) - 1
           /\ \A i \in 1 .. Len(s) - 1 : Tail(s)[i] = s[i + 1]
           /\ Tail(s) # <<>> => Head(Tail(s)) = s[2] /\ Len(s) >= 2
           /\ Plain(s) => Plain(Tail(s))
           /\ Paired(s) => Paired(Tail(s))
           /\ LocksReleased(s) => LocksReleased(Tail(s))
<1>1. PICK u : u = Tail(s) OBVIOUS
<1>2. /\ Head(s) \in Instr /\ Head(s) = s[1] /\ Len(s) \in Nat \ {0}
      /\ u \in Seq(Instr) /\ Len(u) = Len(s) - 1
      /\ \A i \in 1 .. Len(s) - 1 : u[i] = s[i + 1]
      /\ u # <<>> => Head(u) = s[2] /\ Len(s) >= 2
    BY <1>1
<1>3. Plain(s) => Plain(u) BY <1>2 DEF Plain
<1>4. ASSUME Paired(s) PROVE Paired(u)
    <2> SUFFICES ASSUME NEW i \in 1 .. Len(u) PROVE PairedAt(u, i) BY DEF Paired
    <2>1. PairedAt(s, i + 1) BY <1>2, <1>4 DEF Paired
    <2>2. u[i] = s[i + 1] BY <1>2
    <2>3. i + 1 <= Len(u) => u[i + 1] = s[(i + 1) + 1] BY <1>2
    <2>4. i > 1 => u[i - 1] = s[(i + 1) - 1]
        <3>1. i > 1 => i - 1 \in 1 .. Len(s) - 1 BY <1>2
        <3>2. (i - 1) + 1 = (i + 1) - 1 BY <1>2
        <3> QED BY <1>2, <3>1, <3>2
    <2> QED BY <1>2, <2>1, <2>2, <2>3, <2>4 DEF PairedAt
<1>5. ASSUME LocksReleased(s) PROVE LocksReleased(u)
    <2> SUFFICES ASSUME NEW i \in 1 .. Len(u), u[i].op = "lock"
                 PROVE  \E j \in 1 .. Len(u) :
                            /\ i < j /\ u[j] = Op("unlock", u[i].arg)
                            /\ \A h \in 1 .. Len(u) : i < h /\ h < j => ~AsksForList(u[h])
        BY DEF LocksReleased
    <2>1. u[i] = s[i + 1] /\ i + 1 \in 1 .. Len(s) BY <1>2
    <2>2. PICK j \in 1 .. Len(s) :
            /\ i + 1 < j /\ s[j] = Op("unlock", u[i].arg)
            /\ \A h \in 1 .. Len(s) : i + 1 < h /\ h < j => ~AsksForList(s[h])
        BY <1>5, <2>1 DEF LocksReleased
    <2>3. j - 1 \in 1 .. Len(u) /\ i < j - 1 /\ (j - 1) + 1 = j BY <1>2, <2>2
    <2>4. u[j - 1] = Op("unlock", u[i].arg) BY <1>2, <2>2, <2>3
    <2>5. ASSUME NEW h \in 1 .. Len(u), i < h, h < j - 1 PROVE ~AsksForList(u[h])
        <3>1. h + 1 \in 1 .. Len(s) /\ i + 1 < h + 1 /\ h + 1 < j BY <1>2, <2>2, <2>5
        <3> QED BY <1>2, <2>2, <3>1
    <2> QED BY <2>3, <2>4, <2>5
<1> QED BY <1>1, <1>2, <1>3, <1>4, <1>5

\* The rest of a program begins no request in the middle, unless a request is its head.
LEMMA TailFormed ==
    ASSUME NEW s \in Seq(Instr), s # <<>>, Paired(s), s[1].op \notin {"send", "wait"}
    PROVE  Formed(Tail(s))
<1>1. PICK u : u = Tail(s) OBVIOUS
<1>2. /\ Len(s) \in Nat \ {0} /\ u \in Seq(Instr) /\ Len(u) = Len(s) - 1
      /\ \A i \in 1 .. Len(s) - 1 : u[i] = s[i + 1]
    BY <1>1, TailKeeps
<1>3. ASSUME Len(u) >= 1 PROVE u[1].op \notin {"wait", "reset"}
    <2>1. u[1] = s[2] /\ 2 \in 1 .. Len(s) BY <1>2, <1>3
    <2>2. PairedAt(s, 2) BY <2>1 DEF Paired
    <2>3. s[2].op = "wait" => s[1].op = "send" BY <2>2 DEF PairedAt, Op
    <2>4. s[2].op = "reset" => s[1].op = "wait" BY <2>2 DEF PairedAt, Op
    <2> QED BY <2>1, <2>3, <2>4
<1>4. Paired(u) BY <1>1, TailKeeps
<1> QED BY <1>1, <1>2, <1>3, <1>4 DEF Formed

LEMMA TailReleases ==
    ASSUME NEW s \in Seq(Instr), s # <<>>, NEW k, Released(k, s), s[1] # Op("unlock", k)
    PROVE  Released(k, Tail(s))
<1>1. PICK u : u = Tail(s) OBVIOUS
<1>2. /\ Len(s) \in Nat \ {0} /\ u \in Seq(Instr) /\ Len(u) = Len(s) - 1
      /\ \A i \in 1 .. Len(s) - 1 : u[i] = s[i + 1]
    BY <1>1, TailKeeps
<1>3. PICK j \in 1 .. Len(s) :
        s[j] = Op("unlock", k) /\ \A i \in 1 .. Len(s) : i < j => ~AsksForList(s[i])
    BY DEF Released
<1>4. j # 1 BY <1>3
<1>5. j - 1 \in 1 .. Len(u) /\ (j - 1) + 1 = j BY <1>2, <1>3, <1>4
<1>6. u[j - 1] = Op("unlock", k) BY <1>2, <1>3, <1>5
<1>7. ASSUME NEW i \in 1 .. Len(u), i < j - 1 PROVE ~AsksForList(u[i])
    <2>1. i + 1 \in 1 .. Len(s) /\ i + 1 < j BY <1>2, <1>3, <1>7
    <2> QED BY <1>2, <1>3, <2>1
<1>8. Released(k, u) BY <1>5, <1>6, <1>7 DEF Released
<1> QED BY <1>1, <1>8

\* A quiet program in front changes nothing for the mutexes.
LEMMA QuietInFront ==
    ASSUME NEW s \in Seq(Instr), NEW t \in Seq(Instr), Quiet(s)
    PROVE  /\ LocksReleased(t) => LocksReleased(s \o t)
           /\ \A k \in Kind : Released(k, t) => Released(k, s \o t)
<1>1. PICK c : c = s \o t OBVIOUS
<1>2. PICK n : n = Len(s) OBVIOUS
<1>3. /\ c \in Seq(Instr) /\ Len(c) = n + Len(t) /\ n \in Nat /\ Len(t) \in Nat
      /\ \A i \in 1 .. n : c[i] = s[i]
      /\ \A i \in n + 1 .. n + Len(t) : c[i] = t[i - n]
      /\ \A i \in 1 .. Len(t) : c[n + i] = t[i]
    BY <1>1, <1>2, Entries
<1>4. \A i \in 1 .. n : ~AsksForList(c[i]) /\ c[i].op # "lock" BY <1>2, <1>3 DEF Quiet
<1>5. ASSUME LocksReleased(t) PROVE LocksReleased(c)
    <2> SUFFICES ASSUME NEW i \in 1 .. Len(c), c[i].op = "lock"
                 PROVE  \E j \in 1 .. Len(c) :
                            /\ i < j /\ c[j] = Op("unlock", c[i].arg)
                            /\ \A h \in 1 .. Len(c) : i < h /\ h < j => ~AsksForList(c[h])
        BY DEF LocksReleased
    <2>1. i \in n + 1 .. n + Len(t) BY <1>3, <1>4
    <2>2. PICK m : m = i - n OBVIOUS
    <2>3. m \in 1 .. Len(t) /\ i = n + m /\ c[i] = t[m] BY <1>3, <2>1, <2>2
    <2>4. PICK j \in 1 .. Len(t) :
            /\ m < j /\ t[j] = Op("unlock", c[i].arg)
            /\ \A h \in 1 .. Len(t) : m < h /\ h < j => ~AsksForList(t[h])
        BY <1>5, <2>3 DEF LocksReleased
    <2>5. n + j \in 1 .. Len(c) /\ i < n + j /\ c[n + j] = Op("unlock", c[i].arg)
        BY <1>3, <2>3, <2>4
    <2>6. ASSUME NEW h \in 1 .. Len(c), i < h, h < n + j PROVE ~AsksForList(c[h])
        <3>1. h \in n + 1 .. n + Len(t) BY <1>3, <2>1, <2>4, <2>6
        <3>2. c[h] = t[h - n] BY <1>3, <3>1
        <3>3. PICK g : g = h - n OBVIOUS
        <3>4. g \in 1 .. Len(t) /\ m < g /\ g < j BY <1>3, <2>3, <2>4, <2>6, <3>1, <3>3
        <3>5. ~AsksForList(t[g]) BY <2>4, <3>4
        <3> QED BY <3>2, <3>3, <3>5
    <2> QED BY <2>5, <2>6
<1>6. ASSUME NEW k \in Kind, Released(k, t) PROVE Released(k, c)
    <2>1. PICK j \in 1 .. Len(t) :
            t[j] = Op("unlock", k) /\ \A i \in 1 .. Len(t) : i < j => ~AsksForList(t[i])
        BY <1>6 DEF Released
    <2>2. n + j \in 1 .. Len(c) /\ c[n + j] = Op("unlock", k) BY <1>3, <2>1
    <2>3. ASSUME NEW i \in 1 .. Len(c), i < n + j PROVE ~AsksForList(c[i])
        <3>1. CASE i \in 1 .. n BY <1>4, <3>1
        <3>2. CASE i \in n + 1 .. n + Len(t)
            <4>1. PICK g : g = i - n OBVIOUS
            <4>2. g \in 1 .. Len(t) /\ g < j /\ c[i] = t[g] BY <1>3, <2>1, <2>3, <3>2, <4>1
            <4> QED BY <2>1, <4>2
        <3> QED BY <1>3, <3>1, <3>2
    <2> QED BY <2>2, <2>3 DEF Released
<1> QED BY <1>1, <1>5, <1>6
-----------------------------------------------------------------------------
(* The programs of the screens. *)

LEMMA NoSteps == Usual(<<>>)
<1>1. PICK s : s = <<>> OBVIOUS
<1>2. s \in Seq(Instr) /\ Len(s) = 0 BY <1>1
<1> QED BY <1>1, <1>2 DEF Usual, Formed, Paired, Quiet, Plain

\* One step that is not part of a request.
LEMMA OneStepFormed ==
    ASSUME NEW o \in Instr, o.op \notin {"send", "wait", "reset"}
    PROVE  Formed(<<o>>) /\ (Plain(<<o>>) <=> ~Handles(o)) /\ <<o>> \in Seq(Instr)
<1>1. PICK s : s = <<o>> OBVIOUS
<1>2. s \in Seq(Instr) /\ Len(s) = 1 /\ s[1] = o BY <1>1
<1>3. Paired(s)
    <2> SUFFICES ASSUME NEW i \in 1 .. Len(s) PROVE PairedAt(s, i) BY DEF Paired
    <2>1. s[i] = o BY <1>2
    <2> QED BY <2>1 DEF PairedAt
<1>4. Formed(s) BY <1>2, <1>3 DEF Formed
<1>5. Plain(s) <=> ~Handles(o) BY <1>2 DEF Plain
<1> QED BY <1>1, <1>2, <1>4, <1>5

LEMMA OneStep ==
    ASSUME NEW o \in Instr, o.op \notin {"send", "wait", "reset", "lock"}, ~Handles(o)
    PROVE  Usual(<<o>>)
<1>1. PICK s : s = <<o>> OBVIOUS
<1>2. s \in Seq(Instr) /\ Len(s) = 1 /\ s[1] = o BY <1>1
<1>3. Quiet(s) BY <1>2 DEF Quiet, AsksForList
<1> QED BY <1>1, <1>3, OneStepFormed DEF Usual

LEMMA GotoUsual ==
    ASSUME NEW s \in State
    PROVE  Usual(Goto(s))
<1>1. PICK o : o = Op("goto", s) OBVIOUS
<1>2. o \in Instr /\ o.op = "goto" BY <1>1 DEF Op, Instr
<1>3. Usual(<<o>>) BY <1>2, OneStep DEF Handles
<1> QED BY <1>1, <1>3 DEF Goto

LEMMA PromptUsual ==
    ASSUME NEW c \in Choice \ {"answer", "HANDLE_FRIEND_REQUEST", "HANDLE_GROUP_REQUEST"}
    PROVE  Usual(Prompt(c))
<1>1. PICK o : o = Op("prompt", c) OBVIOUS
<1>2. o \in Instr /\ o.op = "prompt" /\ o.arg = c BY <1>1 DEF Op, Instr
<1>3. Usual(<<o>>) BY <1>2, OneStep DEF Handles
<1> QED BY <1>1, <1>3 DEF Prompt

LEMMA BranchUsual ==
    ASSUME NEW c \in {"regErrno", "findErrno", "loginErrno"}
    PROVE  Usual(Branch(c))
<1>1. PICK o : o = Op("branch", c) OBVIOUS
<1>2. o \in Instr /\ o.op = "branch" BY <1>1 DEF Op, Instr
<1>3. Usual(<<o>>) BY <1>2, OneStep DEF Handles
<1> QED BY <1>1, <1>3 DEF Branch

LEMMA LookUsual ==
    ASSUME NEW name \in {"check", "upload"}, NEW k \in Kind
    PROVE  Usual(<<Op(name, k)>>)
<1>1. PICK o : o = Op(name, k) OBVIOUS
<1>2. o \in Instr /\ o.op = name BY <1>1 DEF Op, Instr
<1>3. Usual(<<o>>) BY <1>2, OneStep DEF Handles
<1> QED BY <1>1, <1>3

LEMMA RequestFormed ==
    ASSUME NEW w \in Waiter
    PROVE  /\ Formed(Request(w)) /\ Plain(Request(w)) /\ Request(w) \in Seq(Instr)
           /\ Len(Request(w)) = 3 /\ \A i \in 1 .. 3 : Request(w)[i].op # "lock"
           /\ w \notin {"friends", "groups"} => Quiet(Request(w))
<1>1. PICK s : s = Request(w) OBVIOUS
<1>2. PICK a : a = Op("send", w) OBVIOUS
<1>3. PICK b : b = Op("wait", w) OBVIOUS
<1>4. PICK d : d = Op("reset", w) OBVIOUS
<1>5. /\ a \in Instr /\ a.op = "send" /\ a.arg = w /\ b \in Instr /\ b.op = "wait" /\ b.arg = w
      /\ d \in Instr /\ d.op = "reset" /\ d.arg = w
    BY <1>2, <1>3, <1>4 DEF Op, Instr
<1>6. s = <<a, b, d>> BY <1>1, <1>2, <1>3, <1>4 DEF Request
<1>7. s \in Seq(Instr) /\ Len(s) = 3 /\ s[1] = a /\ s[2] = b /\ s[3] = d BY <1>5, <1>6
<1>8. Paired(s)
    <2> SUFFICES ASSUME NEW i \in 1 .. Len(s) PROVE PairedAt(s, i) BY DEF Paired
    <2>1. CASE i = 1 BY <1>3, <1>5, <1>7, <2>1 DEF PairedAt
    <2>2. CASE i = 2 BY <1>2, <1>4, <1>5, <1>7, <2>2 DEF PairedAt
    <2>3. CASE i = 3 BY <1>3, <1>5, <1>7, <2>3 DEF PairedAt
    <2> QED BY <1>7, <2>1, <2>2, <2>3
<1>9. Formed(s) BY <1>5, <1>7, <1>8 DEF Formed
<1>10. Plain(s) BY <1>5, <1>7 DEF Plain, Handles
<1>11. \A i \in 1 .. 3 : s[i].op # "lock" BY <1>5, <1>7
<1>12. w \notin {"friends", "groups"} => Quiet(s) BY <1>5, <1>7, <1>11 DEF Quiet, AsksForList
<1> QED BY <1>1, <1>7, <1>9, <1>10, <1>11, <1>12

LEMMA GetFilesUsual == Usual(GetFiles)
<1>1. PICK s : s = GetFiles OBVIOUS
<1>2. PICK a : a = Op("send", "files") OBVIOUS
<1>3. PICK b : b = Op("wait", "files") OBVIOUS
<1>4. /\ a \in Instr /\ a.op = "send" /\ a.arg = "files"
      /\ b \in Instr /\ b.op = "wait" /\ b.arg = "files"
    BY <1>2, <1>3 DEF Op, Instr, Waiter, ListWaiter
<1>5. s = <<a, b>> BY <1>1, <1>2, <1>3 DEF GetFiles
<1>6. s \in Seq(Instr) /\ Len(s) = 2 /\ s[1] = a /\ s[2] = b BY <1>4, <1>5
<1>7. Paired(s)
    <2> SUFFICES ASSUME NEW i \in 1 .. Len(s) PROVE PairedAt(s, i) BY DEF Paired
    <2>1. CASE i = 1 BY <1>3, <1>4, <1>6, <2>1 DEF PairedAt
    <2>2. CASE i = 2 BY <1>2, <1>4, <1>6, <2>2 DEF PairedAt
    <2> QED BY <1>6, <2>1, <2>2
<1>8. Formed(s) BY <1>4, <1>6, <1>7 DEF Formed
<1>9. Plain(s) BY <1>4, <1>6 DEF Plain, Handles
<1>10. Quiet(s) BY <1>4, <1>6 DEF Quiet, AsksForList
<1> QED BY <1>1, <1>8, <1>9, <1>10 DEF Usual

\* What a choice puts in front of the rest, but for the handling of requests.
LEMMA ChoicesUsual ==
    ASSUME NEW c \in Choice \ {"answer", "HANDLE_FRIEND_REQUEST", "HANDLE_GROUP_REQUEST"},
           NEW prog \in Choices(c)
    PROVE  Usual(prog)
<1> USE NoSteps
<1>1. \A s \in State : Usual(Goto(s)) BY GotoUsual
<1>2. \A d \in {"regCode", "findCode", "password", "CHAT_FRIEND", "CHAT_GROUP"} : Usual(Prompt(d))
    BY PromptUsual DEF Choice
<1>3. \A d \in {"regErrno", "findErrno", "loginErrno"} : Usual(Branch(d)) BY BranchUsual
<1>4. \A w \in Waiter \ {"friends", "groups"} : Usual(Request(w)) BY RequestFormed DEF Usual
<1>5. \A d \in {"check", "upload"}, k \in Kind : Usual(<<Op(d, k)>>) BY LookUsual
<1>6. /\ "LOGINING" \in State /\ "REGISTERING" \in State /\ "FIND_PASSWORD" \in State
      /\ "LOG_OR_REG" \in State /\ "CHAT_PANEL" \in State /\ "ADD_FRIEND" \in State
      /\ "CREATE_GROUP" \in State /\ "ADD_GROUP" \in State /\ "DESTROY_ACCOUNT" \in State
      /\ "MAIN_MENU" \in State /\ "HANDLE_FRIEND_REQUEST" \in State
      /\ "HANDLE_GROUP_REQUEST" \in State /\ "CHAT_FRIEND" \in State /\ "CHAT_GROUP" \in State
      /\ "GROUP_PANEL" \in State /\ "SHOW_MEMBERS" \in State /\ "DESTORY_GROUP" \in State
      /\ "LOG_HISTORY" \in State /\ "FILE_FRIEND" \in State /\ "FILE_GROUP" \in State
      /\ "FRIEND_PANEL" \in State
    BY DEF State
<1>7. \A w \in {"reg", "login", "find", "addFriend", "addGroup", "block", "unblock", "members"} :
        Usual(Request(w))
    BY <1>4 DEF Waiter, ListWaiter
<1>8. /\ Usual(Request("reg") \o Branch("regErrno")) /\ Usual(Request("find") \o Branch("findErrno"))
      /\ Usual(Request("login") \o Branch("loginErrno"))
    BY <1>3, <1>7, UsualConcat
<1>9. /\ Usual(Request("addFriend") \o Goto("MAIN_MENU"))
      /\ Usual(Request("addGroup") \o Goto("MAIN_MENU"))
      /\ Usual(Request("members") \o Goto("CHAT_GROUP"))
      /\ Usual(Request("block") \o Goto("CHAT_FRIEND"))
      /\ Usual(Request("unblock") \o Goto("CHAT_FRIEND"))
    BY <1>1, <1>6, <1>7, UsualConcat
<1>10. ASSUME NEW k \in Kind, prog \in ChatLine(k) PROVE Usual(prog)
    <2>1. /\ Chat(k) \in {"CHAT_FRIEND", "CHAT_GROUP"} /\ Chat(k) \in State
          /\ Files(k) \in State /\ Panel(k) \in State
        BY <1>6 DEF Chat, Files, Panel
    <2>2. /\ Usual(Goto("CHAT_PANEL")) /\ Usual(Goto("LOG_HISTORY")) /\ Usual(Prompt(Chat(k)))
          /\ Usual(Goto(Chat(k))) /\ Usual(Goto(Files(k))) /\ Usual(Goto(Panel(k)))
          /\ Usual(<<Op("check", k)>>)
        BY <1>1, <1>2, <1>5, <1>6, <2>1
    <2>3. /\ Usual(Goto("LOG_HISTORY") \o Prompt(Chat(k))) /\ Usual(Goto(Chat(k)) \o Prompt(Chat(k)))
          /\ Usual(<<Op("check", k)>> \o Prompt(Chat(k))) /\ Usual(<<Op("check", k)>> \o Goto(Chat(k)))
        BY <2>2, UsualConcat
    <2>4. Usual((<<Op("check", k)>> \o Goto(Chat(k))) \o Prompt(Chat(k)))
        BY <2>2, <2>3, UsualConcat
    <2> QED BY <1>10, <2>2, <2>3, <2>4 DEF ChatLine
<1>11. ASSUME NEW k \in Kind, prog \in FilePanel(k) PROVE Usual(prog)
    <2>1. Chat(k) \in State BY <1>6 DEF Chat
    <2> QED BY <1>1, <1>5, <1>11, <2>1 DEF FilePanel
<1>12. CASE c \in {"LOG_OR_REG", "MAIN_MENU", "CREATE_GROUP", "DESTROY_ACCOUNT", "SHOW_MEMBERS",
                   "DESTORY_GROUP", "GROUP_PANEL"}
    BY <1>1, <1>6, <1>12
    DEF Choices, ShowLogOrReg, ShowMainMenu, ShowCreateGroup, ShowDestroyAccount,
        ShowGroupMembers, ShowDestroyGroup, GroupPanel
<1>13. CASE c \in {"REGISTERING", "regCode", "regErrno", "FIND_PASSWORD", "findCode", "findErrno",
                   "LOGINING", "password", "loginErrno"}
    BY <1>1, <1>2, <1>6, <1>8, <1>13
    DEF Choices, ShowRegister, RegisterCode, RegisterErrno, ShowFindPassword, FindPasswordCode,
        FindErrno, ShowLogin, LoginPassword, LoginErrno
<1>14. CASE c \in {"ADD_FRIEND", "ADD_GROUP", "CHAT_PANEL", "FRIEND_PANEL"}
    BY <1>1, <1>6, <1>9, <1>14
    DEF Choices, ShowAddFriend, ShowAddGroup, ChatPanelChoice, FriendPanel
<1>15. CASE c \in {"FILE_FRIEND", "FILE_GROUP"} BY <1>11, <1>15 DEF Choices, Kind
<1>16. CASE c \in {"CHAT_FRIEND", "CHAT_GROUP"} BY <1>10, <1>16 DEF Choices, Kind
<1> QED BY <1>12, <1>13, <1>14, <1>15, <1>16 DEF Choice

\* Two steps that are not parts of a request.
LEMMA TwoStepsFormed ==
    ASSUME NEW a \in Instr, NEW b \in Instr, a.op \notin {"send", "wait", "reset"},
           b.op \notin {"send", "wait", "reset"}
    PROVE  Formed(<<a, b>>) /\ (Plain(<<a, b>>) <=> ~Handles(a) /\ ~Handles(b))
<1>1. PICK s : s = <<a, b>> OBVIOUS
<1>2. s \in Seq(Instr) /\ Len(s) = 2 /\ s[1] = a /\ s[2] = b BY <1>1
<1>3. Paired(s)
    <2> SUFFICES ASSUME NEW i \in 1 .. Len(s) PROVE PairedAt(s, i) BY DEF Paired
    <2>1. s[i] = a \/ s[i] = b BY <1>2
    <2> QED BY <2>1 DEF PairedAt
<1>4. Formed(s) BY <1>2, <1>3 DEF Formed
<1>5. Plain(s) <=> ~Handles(a) /\ ~Handles(b) BY <1>2 DEF Plain
<1> QED BY <1>1, <1>4, <1>5

\* A program in front of another, of known lengths.
LEMMA EntriesAre ==
    ASSUME NEW s \in Seq(Instr), NEW t \in Seq(Instr)
    PROVE  /\ s \o t \in Seq(Instr) /\ Len(s \o t) = Len(s) + Len(t)
           /\ \A i \in 1 .. Len(s) : (s \o t)[i] = s[i]
           /\ \A i \in 1 .. Len(t) : (s \o t)[Len(s) + i] = t[i]
BY Entries

LEMMA BothFormed ==
    ASSUME NEW s, NEW t, Formed(s), Formed(t), Plain(s), Plain(t)
    PROVE  Formed(s \o t) /\ Plain(s \o t)
BY FormedConcat, PlainConcat DEF Formed

LEMMA QuietReleases ==
    ASSUME NEW s, Quiet(s)
    PROVE  LocksReleased(s)
BY DEF Quiet, LocksReleased

\* The panel asks for both lists before it locks them, and releases them in the end.
LEMMA PanelShown == Formed(ShowChatPanel) /\ Plain(ShowChatPanel) /\ LocksReleased(ShowChatPanel)
<1>1. PICK f : f = Request("friends") OBVIOUS
<1>2. PICK g : g = Request("groups") OBVIOUS
<1>3. PICK p : p = Op("prompt", "CHAT_PANEL") OBVIOUS
<1>4. PICK lf : lf = Op("lock", "friend") OBVIOUS
<1>5. PICK lg : lg = Op("lock", "group") OBVIOUS
<1>6. PICK uf : uf = Op("unlock", "friend") OBVIOUS
<1>7. PICK ug : ug = Op("unlock", "group") OBVIOUS
<1>8. /\ p \in Instr /\ p.op = "prompt" /\ p.arg = "CHAT_PANEL"
      /\ lf \in Instr /\ lf.op = "lock" /\ lf.arg = "friend"
      /\ lg \in Instr /\ lg.op = "lock" /\ lg.arg = "group"
      /\ uf \in Instr /\ uf.op = "unlock" /\ ug \in Instr /\ ug.op = "unlock"
    BY <1>3, <1>4, <1>5, <1>6, <1>7 DEF Op, Instr, Kind, Choice
<1>9. /\ Formed(f) /\ Plain(f) /\ f \in Seq(Instr) /\ Len(f) = 3
      /\ \A i \in 1 .. 3 : f[i].op # "lock"
      /\ Formed(g) /\ Plain(g) /\ g \in Seq(Instr) /\ Len(g) = 3
      /\ \A i \in 1 .. 3 : g[i].op # "lock"
    BY <1>1, <1>2, RequestFormed DEF Waiter, ListWaiter
<1>10. PICK l : l = <<lf, lg>> OBVIOUS
<1>11. PICK u : u = <<ug, uf>> OBVIOUS
<1>12. PICK q : q = <<p>> OBVIOUS
<1>13. /\ Formed(l) /\ Plain(l) /\ Formed(u) /\ Plain(u) /\ Formed(q) /\ Plain(q)
    BY <1>8, <1>10, <1>11, <1>12, TwoStepsFormed, OneStepFormed DEF Handles
<1>14. /\ l \in Seq(Instr) /\ Len(l) = 2 /\ l[1] = lf /\ l[2] = lg
       /\ u \in Seq(Instr) /\ Len(u) = 2 /\ u[1] = ug /\ u[2] = uf
       /\ q \in Seq(Instr) /\ Len(q) = 1 /\ q[1] = p
    BY <1>8, <1>10, <1>11, <1>12
<1>15. PICK b : b = f \o g OBVIOUS
<1>16. PICK c : c = b \o l OBVIOUS
<1>17. PICK d : d = c \o q OBVIOUS
<1>18. PICK e : e = d \o u OBVIOUS
<1>19. /\ b \in Seq(Instr) /\ Len(b) = 6 /\ Formed(b) /\ Plain(b)
       /\ \A i \in 1 .. 6 : b[i].op # "lock"
    <2>1. /\ f \o g \in Seq(Instr) /\ Len(f \o g) = Len(f) + Len(g)
          /\ \A i \in 1 .. Len(f) : (f \o g)[i] = f[i]
          /\ \A i \in 1 .. Len(g) : (f \o g)[Len(f) + i] = g[i]
        BY <1>9, EntriesAre
    <2>2. /\ b \in Seq(Instr) /\ Len(b) = 6
          /\ \A i \in 1 .. 3 : b[i] = f[i] /\ b[3 + i] = g[i]
        BY <1>9, <1>15, <2>1
    <2>3. ASSUME NEW i \in 4 .. 6 PROVE b[i].op # "lock"
        <3>1. PICK j : j = i - 3 OBVIOUS
        <3>2. j \in 1 .. 3 /\ i = 3 + j BY <3>1
        <3> QED BY <1>9, <2>2, <3>2
    <2>4. \A i \in 1 .. 6 : i \in 1 .. 3 \/ i \in 4 .. 6 OBVIOUS
    <2>5. \A i \in 1 .. 6 : b[i].op # "lock" BY <1>9, <2>2, <2>3, <2>4
    <2>6. Formed(f \o g) /\ Plain(f \o g) BY <1>9, BothFormed
    <2> QED BY <1>15, <2>2, <2>5, <2>6
<1>20. /\ c \in Seq(Instr) /\ Len(c) = 8 /\ Formed(c) /\ Plain(c)
       /\ \A i \in 1 .. 6 : c[i].op # "lock"
       /\ c[7] = lf /\ c[8] = lg
    <2>1. /\ b \o l \in Seq(Instr) /\ Len(b \o l) = Len(b) + Len(l)
          /\ \A i \in 1 .. Len(b) : (b \o l)[i] = b[i]
          /\ \A i \in 1 .. Len(l) : (b \o l)[Len(b) + i] = l[i]
        BY <1>14, <1>19, EntriesAre
    <2>2. Len(b) = 6 /\ Len(l) = 2 BY <1>14, <1>19
    <2>3. /\ c \in Seq(Instr) /\ Len(c) = 8
          /\ \A i \in 1 .. 6 : c[i] = b[i]
          /\ \A i \in 1 .. 2 : c[6 + i] = l[i]
        <3>1. c \in Seq(Instr) /\ Len(c) = 8 BY <1>16, <2>1, <2>2
        <3>2. \A i \in 1 .. 6 : c[i] = b[i] BY <1>16, <2>1, <2>2
        <3>3. \A i \in 1 .. 2 : c[6 + i] = l[i] BY <1>16, <2>1, <2>2
        <3> QED BY <3>1, <3>2, <3>3
    <2>4. c[7] = lf /\ c[8] = lg
        BY <1>14, <2>3
    <2>5. Formed(b \o l) /\ Plain(b \o l) BY <1>13, <1>19, BothFormed
    <2>6. Formed(c) /\ Plain(c) BY <1>16, <2>5
    <2>7. \A i \in 1 .. 6 : c[i].op # "lock" BY <1>19, <2>3
    <2> QED BY <2>3, <2>4, <2>6, <2>7
<1>21. /\ d \in Seq(Instr) /\ Len(d) = 9 /\ Formed(d) /\ Plain(d)
       /\ \A i \in 1 .. 6 : d[i].op # "lock"
       /\ d[7] = lf /\ d[8] = lg /\ d[9] = p
    <2>1. /\ c \o q \in Seq(Instr) /\ Len(c \o q) = Len(c) + Len(q)
          /\ \A i \in 1 .. Len(c) : (c \o q)[i] = c[i]
          /\ \A i \in 1 .. Len(q) : (c \o q)[Len(c) + i] = q[i]
        BY <1>14, <1>20, EntriesAre
    <2>2. Len(c) = 8 /\ Len(q) = 1 BY <1>14, <1>20
    <2>3. /\ d \in Seq(Instr) /\ Len(d) = 9
          /\ \A i \in 1 .. 8 : d[i] = c[i]
          /\ \A i \in 1 .. 1 : d[8 + i] = q[i]
        <3>1. d \in Seq(Instr) /\ Len(d) = 9 BY <1>17, <2>1, <2>2
        <3>2. \A i \in 1 .. 8 : d[i] = c[i] BY <1>17, <2>1, <2>2
        <3>3. \A i \in 1 .. 1 : d[8 + i] = q[i] BY <1>17, <2>1, <2>2
        <3> QED BY <3>1, <3>2, <3>3
    <2>4. d[9] = p
        BY <1>14, <2>3
    <2>5. Formed(c \o q) /\ Plain(c \o q) BY <1>13, <1>20, BothFormed
    <2>6. Formed(d) /\ Plain(d) BY <1>17, <2>5
    <2>7. \A i \in 1 .. 6 : d[i].op # "lock" BY <1>20, <2>3
    <2>8. d[7] = lf /\ d[8] = lg BY <1>20, <2>3
    <2> QED BY <2>3, <2>4, <2>6, <2>7, <2>8
<1>22. /\ e \in Seq(Instr) /\ Len(e) = 11 /\ Formed(e) /\ Plain(e)
       /\ \A i \in 1 .. 6 : e[i].op # "lock"
       /\ e[7] = lf /\ e[8] = lg /\ e[9] = p /\ e[10] = ug /\ e[11] = uf
    <2>1. /\ d \o u \in Seq(Instr) /\ Len(d \o u) = Len(d) + Len(u)
          /\ \A i \in 1 .. Len(d) : (d \o u)[i] = d[i]
          /\ \A i \in 1 .. Len(u) : (d \o u)[Len(d) + i] = u[i]
        BY <1>14, <1>21, EntriesAre
    <2>2. Len(d) = 9 /\ Len(u) = 2 BY <1>14, <1>21
    <2>3. /\ e \in Seq(Instr) /\ Len(e) = 11
          /\ \A i \in 1 .. 9 : e[i] = d[i]
          /\ \A i \in 1 .. 2 : e[9 + i] = u[i]
        <3>1. e \in Seq(Instr) /\ Len(e) = 11 BY <1>18, <2>1, <2>2
        <3>2. \A i \in 1 .. 9 : e[i] = d[i] BY <1>18, <2>1, <2>2
        <3>3. \A i \in 1 .. 2 : e[9 + i] = u[i] BY <1>18, <2>1, <2>2
        <3> QED BY <3>1, <3>2, <3>3
    <2>4. e[10] = ug /\ e[11] = uf
        BY <1>14, <2>3
    <2>5. Formed(d \o u) /\ Plain(d \o u) BY <1>13, <1>21, BothFormed
    <2>6. Formed(e) /\ Plain(e) BY <1>18, <2>5
    <2>7. \A i \in 1 .. 6 : e[i].op # "lock" BY <1>21, <2>3
    <2>8. e[7] = lf /\ e[8] = lg /\ e[9] = p BY <1>21, <2>3
    <2> QED BY <2>3, <2>4, <2>6, <2>7, <2>8
<1>23. LocksReleased(e)
    <2> SUFFICES ASSUME NEW i \in 1 .. Len(e), e[i].op = "lock"
                 PROVE  \E j \in 1 .. Len(e) :
                            /\ i < j /\ e[j] = Op("unlock", e[i].arg)
                            /\ \A h \in 1 .. Len(e) : i < h /\ h < j => ~AsksForList(e[h])
        BY DEF LocksReleased
    <2>1. ~AsksForList(e[8]) /\ ~AsksForList(e[9]) /\ ~AsksForList(e[10])
        BY <1>8, <1>22 DEF AsksForList
    <2>2. i = 7 \/ i = 8 BY <1>8, <1>22
    <2>3. CASE i = 7
        <3>1. 11 \in 1 .. Len(e) /\ i < 11 /\ e[11] = Op("unlock", e[i].arg)
            BY <1>6, <1>8, <1>22, <2>3
        <3>2. \A h \in 1 .. Len(e) : i < h /\ h < 11 => h = 8 \/ h = 9 \/ h = 10 BY <1>22, <2>3
        <3> QED BY <2>1, <3>1, <3>2
    <2>4. CASE i = 8
        <3>1. 10 \in 1 .. Len(e) /\ i < 10 /\ e[10] = Op("unlock", e[i].arg)
            BY <1>7, <1>8, <1>22, <2>4
        <3>2. \A h \in 1 .. Len(e) : i < h /\ h < 10 => h = 9 BY <1>22, <2>4
        <3> QED BY <2>1, <3>1, <3>2
    <2> QED BY <2>2, <2>3, <2>4
<1>24. b \o l = c /\ c \o q = d /\ d \o u = e BY <1>16, <1>17, <1>18
<1>25. ShowChatPanel = e
    BY <1>1, <1>2, <1>3, <1>4, <1>5, <1>6, <1>7, <1>10, <1>11, <1>12, <1>15, <1>24
    DEF ShowChatPanel, Prompt
<1> QED BY <1>22, <1>23, <1>25

\* The screen of a state.
LEMMA ScreenFormed ==
    ASSUME NEW s \in State
    PROVE  /\ Formed(Screen(s)) /\ LocksReleased(Screen(s))
           /\ Plain(Screen(s)) \/ \E k \in Kind : Screen(s) = HandleRequests(k)
<1> DEFINE Shown(prog) == Formed(prog) /\ LocksReleased(prog) /\ Plain(prog)
<1>1. \A prog : Usual(prog) => Shown(prog) BY QuietReleases DEF Usual
<1>2. CASE s = "CHAT_PANEL" BY <1>2, PanelShown DEF Screen
<1>3. CASE s = "SHOW_MEMBERS"
    <2>1. Usual(Request("members")) BY RequestFormed DEF Usual, Waiter, ListWaiter
    <2>2. Usual(Prompt(s)) BY <1>3, PromptUsual DEF Choice
    <2>3. Screen(s) = Request("members") \o Prompt(s) BY <1>3 DEF Screen
    <2>4. Usual(Screen(s)) BY <2>1, <2>2, <2>3, UsualConcat
    <2> QED BY <1>1, <2>4
<1>4. CASE s \in {"FILE_FRIEND", "FILE_GROUP"}
    <2>1. Usual(Prompt(s)) BY <1>4, PromptUsual DEF Choice
    <2>2. Screen(s) = GetFiles \o Prompt(s) BY <1>4 DEF Screen
    <2>3. Usual(Screen(s)) BY <2>1, <2>2, GetFilesUsual, UsualConcat
    <2> QED BY <1>1, <2>3
<1>5. ASSUME NEW k \in Kind, Screen(s) = HandleRequests(k)
      PROVE  Formed(Screen(s)) /\ LocksReleased(Screen(s))
    <2>1. PICK a : a = Op("show", k) OBVIOUS
    <2>2. PICK b : b = Op("prompt", Requests(k)) OBVIOUS
    <2>3. /\ a \in Instr /\ a.op = "show" /\ b \in Instr /\ b.op = "prompt"
        BY <2>1, <2>2 DEF Op, Instr, Requests, Choice
    <2>4. HandleRequests(k) = <<a>> \o <<b>> BY <2>1, <2>2 DEF HandleRequests, Prompt
    <2>5. Formed(<<a>>) /\ Formed(<<b>>) BY <2>3, OneStepFormed
    <2>6. Quiet(<<a>>) /\ Quiet(<<b>>) BY <2>3 DEF Quiet, AsksForList
    <2>7. Quiet(<<a>> \o <<b>>) BY <2>5, <2>6, QuietConcat DEF Formed
    <2>8. Formed(<<a>> \o <<b>>) BY <2>5, FormedConcat
    <2> QED BY <1>5, <2>4, <2>7, <2>8, QuietReleases
<1>6. CASE s = "HANDLE_FRIEND_REQUEST"
    <2>1. Screen(s) = HandleRequests("friend") /\ "friend" \in Kind BY <1>6 DEF Screen, Kind
    <2> QED BY <1>5, <2>1
<1>7. CASE s = "HANDLE_GROUP_REQUEST"
    <2>1. Screen(s) = HandleRequests("group") /\ "group" \in Kind BY <1>7 DEF Screen, Kind
    <2> QED BY <1>5, <2>1
<1>8. CASE s = "LOG_HISTORY" BY <1>1, <1>8, NoSteps DEF Screen
<1>9. CASE s \notin {"CHAT_PANEL", "SHOW_MEMBERS", "FILE_FRIEND", "FILE_GROUP", "LOG_HISTORY",
                     "HANDLE_FRIEND_REQUEST", "HANDLE_GROUP_REQUEST"}
    <2>1. s \in Choice \ {"answer", "HANDLE_FRIEND_REQUEST", "HANDLE_GROUP_REQUEST"}
        BY <1>9 DEF State, Choice
    <2>2. Screen(s) = Prompt(s) BY <1>9 DEF Screen
    <2> QED BY <1>1, <2>1, <2>2, PromptUsual
<1> QED BY <1>2, <1>3, <1>4, <1>6, <1>7, <1>8, <1>9
-----------------------------------------------------------------------------
(* The steps.  First what several of them do to the program and what rests *)
(* on it.                                                                  *)

LEMMA Initially == Init => MainInv
<1> SUFFICES ASSUME Init PROVE MainInv OBVIOUS
<1> USE DEF Init
<1>1. TypeOK
    <2>1. state \in State BY DEF State
    <2>2. todo \in Seq(Instr) BY NoSteps DEF Usual, Formed
    <2>3. ready \in [Waiter -> BOOLEAN] BY Zenon
    <2>4. pending \in [Waiter -> 0..MaxPending] BY ClientAssumption
    <2>5. filling \in ListWaiter \cup {NoWaiter} OBVIOUS
    <2>6. holder \in [Kind -> {"nobody", "main", "transfer"}] OBVIOUS
    <2>7. transfer \in [Transfer -> {"none", "running", "looking"}] OBVIOUS
    <2>8. /\ requests \in [Kind -> Seq(Applicant)]
          /\ Len(requests["friend"]) + Len(requests["group"]) <= MaxRequests
        BY ClientAssumption DEF Kind
    <2>9. picked \in [kind : Kind, list : Seq(Applicant), index : Nat] BY DEF NoPick, Kind
    <2>10. removed \in BOOLEAN /\ online \in BOOLEAN BY Zenon
    <2>11. unasked \subseteq PushedList OBVIOUS
    <2> QED
        BY <2>1, <2>2, <2>3, <2>4, <2>5, <2>6, <2>7, <2>8, <2>9, <2>10, <2>11, Zenon DEF TypeOK
<1>2. OneRequest
    <2>1. Paired(todo) BY NoSteps DEF Usual, Formed
    <2>2. \A w \in Waiter : filling # w BY DEF NoWaiter, Waiter, ListWaiter
    <2>3. \A w \in Waiter : Single(w) BY <2>2 DEF Single, InStep, At
    <2> QED BY <2>1, <2>3 DEF OneRequest
<1>3. PanelInv
    <2>1. LocksReleased(todo) BY NoSteps, QuietReleases DEF Usual
    <2> QED BY <2>1 DEF PanelInv
<1>4. PickInv
    <2>1. Plain(todo) BY NoSteps DEF Usual
    <2>2. StillShown BY DEF StillShown, NoPick, Kind
    <2>3. ~removed OBVIOUS
    <2> QED BY <2>1, <2>2, <2>3 DEF PickInv
<1> QED BY <1>1, <1>2, <1>3, <1>4 DEF MainInv

\* No answer is waited for, before and after.
LEMMA NoRequest ==
    ASSUME MainInv, Formed(todo'), UNCHANGED <<ready, answerVars>>,
           ~At("wait"), ~At("reset")
    PROVE  OneRequest'
<1>1. PICK t : t = todo' OBVIOUS
<1>2. Formed(t) BY <1>1
<1>3. t # <<>> => Head(t) = t[1] /\ Len(t) >= 1 BY <1>2 DEF Formed
<1>4. t # <<>> => Head(t).op \notin {"wait", "reset"} BY <1>2, <1>3 DEF Formed
<1>5. ~At("wait")' /\ ~At("reset")' BY <1>1, <1>4 DEF At
<1>6. Paired(t) BY <1>2 DEF Formed
<1>7. ASSUME NEW w \in Waiter \ (unasked \cup {"files"}) PROVE Single(w)'
    <2>1. Single(w) BY DEF MainInv, OneRequest
    <2>2. UNCHANGED <<ready[w], pending[w], filling, online>> BY DEF answerVars
    <2> QED BY <1>5, <2>1, <2>2 DEF Single, InStep
<1> QED BY <1>1, <1>6, <1>7 DEF OneRequest, answerVars

\* The first step of the main thread is done.
LEMMA FirstStep ==
    ASSUME MainInv, todo # <<>>, todo' = Tail(todo)
    PROVE  /\ Head(todo) \in Instr /\ Head(todo) = todo[1] /\ Arg = todo[1].arg
           /\ Len(todo) \in Nat \ {0} /\ 1 \in 1 .. Len(todo)
           /\ todo' \in Seq(Instr) /\ Paired(todo') /\ LocksReleased(todo')
           /\ Plain(todo) => Plain(todo')
           /\ todo' # <<>> => Head(todo') = todo[2] /\ 2 \in 1 .. Len(todo)
           /\ todo[1].op \notin {"send", "wait"} => Formed(todo')
           /\ \A k \in Kind : Released(k, todo) /\ todo[1] # Op("unlock", k) =>
                  Released(k, todo')
<1>1. todo \in Seq(Instr) /\ Paired(todo) /\ LocksReleased(todo)
    BY DEF MainInv, TypeOK, OneRequest, PanelInv
<1>2. PICK s : s = todo OBVIOUS
<1>3. PICK u : u = todo' OBVIOUS
<1>4. s \in Seq(Instr) /\ s # <<>> /\ Paired(s) /\ LocksReleased(s) /\ u = Tail(s)
    BY <1>1, <1>2, <1>3
<1>5. /\ Head(s) \in Instr /\ Head(s) = s[1] /\ Len(s) \in Nat \ {0}
      /\ u \in Seq(Instr) /\ Paired(u) /\ LocksReleased(u) /\ (Plain(s) => Plain(u))
      /\ (u # <<>> => Head(u) = s[2] /\ Len(s) >= 2)
    BY <1>4, TailKeeps
<1>6. s[1].op \notin {"send", "wait"} => Formed(u) BY <1>4, TailFormed
<1>7. \A k \in Kind : Released(k, s) /\ s[1] # Op("unlock", k) => Released(k, u)
    BY <1>4, TailReleases
<1> QED BY <1>2, <1>3, <1>5, <1>6, <1>7 DEF Arg

\* Steps that are neither a request's nor a lock's.
LEMMA OtherStep ==
    ASSUME MainInv, todo # <<>>, todo' = Tail(todo),
           Head(todo).op \in {"goto", "check", "upload", "show", "pick", "respond"},
           UNCHANGED <<ready, answerVars, holder>>
    PROVE  /\ OneRequest' /\ PanelInv' /\ todo' \in Seq(Instr)
           /\ Head(todo) \in Instr /\ Head(todo) = todo[1] /\ Arg = todo[1].arg
           /\ Plain(todo) => Plain(todo')
<1>1. /\ Head(todo) \in Instr /\ Head(todo) = todo[1] /\ Arg = todo[1].arg
      /\ todo' \in Seq(Instr) /\ LocksReleased(todo') /\ (Plain(todo) => Plain(todo'))
      /\ Formed(todo')
      /\ \A k \in Kind : Released(k, todo) /\ todo[1] # Op("unlock", k) => Released(k, todo')
    BY FirstStep
<1>2. ~At("wait") /\ ~At("reset") BY DEF At
<1>3. OneRequest' BY <1>1, <1>2, NoRequest
<1>4. \A k \in Kind : todo[1] # Op("unlock", k)
    <2>1. \A k \in Kind : Op("unlock", k).op = "unlock" BY DEF Op
    <2>2. todo[1].op # "unlock" BY <1>1
    <2> QED BY <2>1, <2>2
<1>5. \A k \in Kind : holder[k]' = "main" => Released(k, todo')
    BY <1>1, <1>4 DEF MainInv, PanelInv
<1>6. PanelInv' BY <1>1, <1>5 DEF PanelInv
<1> QED BY <1>1, <1>3, <1>6

\* The other threads change neither the program nor what is picked.
LEMMA SameProgram ==
    ASSUME MainInv, UNCHANGED todo
    PROVE  /\ (\A k \in Kind : holder'[k] = "main" => holder[k] = "main") => PanelInv'
           /\ UNCHANGED <<requests, picked, removed>> => PickInv'
           /\ UNCHANGED <<ready, answerVars>> => OneRequest'
<1>1. (\A k \in Kind : holder'[k] = "main" => holder[k] = "main") => PanelInv'
    BY DEF MainInv, PanelInv
<1>2. UNCHANGED <<requests, picked, removed>> => PickInv'
    BY DEF MainInv, PickInv, Handling, StillShown, At
<1>3. UNCHANGED <<ready, answerVars>> => OneRequest'
    BY DEF MainInv, OneRequest, Single, InStep, At, Arg, answerVars
<1> QED BY <1>1, <1>2, <1>3

\* While no requests are handled, they may change as they like.
LEMMA PlainStep ==
    ASSUME MainInv, Plain(todo), Plain(todo'), UNCHANGED <<requests, picked, removed>>,
           todo # <<>>, Head(todo) = todo[1], 1 \in 1 .. Len(todo)
    PROVE  PickInv'
<1>1. ~At("show") BY DEF At, Plain, Handles
<1>2. (removed => picked.kind = "group") /\ (removed \/ StillShown)
    BY <1>1 DEF MainInv, PickInv
<1>3. (removed => picked.kind = "group")' /\ (removed \/ StillShown)'
    BY <1>2 DEF StillShown
<1> QED BY <1>3 DEF PickInv

\* One step in front of a program.
LEMMA InFront ==
    ASSUME NEW o \in Instr, NEW t \in Seq(Instr)
    PROVE  /\ <<o>> \o t \in Seq(Instr) /\ <<o>> \o t # <<>>
           /\ Head(<<o>> \o t) = o /\ Tail(<<o>> \o t) = t
<1>1. PICK s : s = <<o>> OBVIOUS
<1>2. s \in Seq(Instr) /\ Len(s) = 1 /\ s[1] = o BY <1>1
<1>3. PICK c : c = s \o t OBVIOUS
<1>4. /\ c \in Seq(Instr) /\ Len(c) = 1 + Len(t) /\ Len(t) \in Nat
      /\ c[1] = o /\ \A i \in 1 .. Len(t) : c[1 + i] = t[i]
    <2>1. /\ s \o t \in Seq(Instr) /\ Len(s \o t) = Len(s) + Len(t) /\ Len(t) \in Nat
          /\ \A i \in 1 .. Len(s) : (s \o t)[i] = s[i]
          /\ \A i \in 1 .. Len(t) : (s \o t)[Len(s) + i] = t[i]
        BY <1>2, Entries
    <2> QED BY <1>2, <1>3, <2>1
<1>5. c # <<>> /\ Head(c) = o BY <1>4
<1>6. PICK u : u = Tail(c) OBVIOUS
<1>7. u \in Seq(Instr) /\ Len(u) = Len(t) /\ \A i \in 1 .. Len(t) : u[i] = c[i + 1]
    BY <1>4, <1>5, <1>6, TailKeeps
<1>8. \A i \in 1 .. Len(u) : u[i] = t[i] BY <1>4, <1>7
<1>9. u = t BY <1>7, <1>8, SeqEqual
<1> QED BY <1>1, <1>3, <1>4, <1>5, <1>6, <1>9

\* In the handling of requests of a kind, the program is one of these.
LEMMA HandlingSteps ==
    ASSUME NEW k \in Kind
    PROVE  /\ Op("show", k) \in Instr /\ Op("prompt", Requests(k)) \in Instr
           /\ Op("prompt", "answer") \in Instr /\ Op("respond", k) \in Instr
           /\ HandleRequests(k) \in Seq(Instr) /\ HandleRequests(k) # <<>>
           /\ Head(HandleRequests(k)) = Op("show", k)
           /\ Tail(HandleRequests(k)) = Prompt(Requests(k))
           /\ Head(Prompt(Requests(k))) = Op("prompt", Requests(k))
           /\ Tail(Prompt(Requests(k))) = <<>> /\ Prompt(Requests(k)) # <<>>
           /\ Head(Prompt("answer")) = Op("prompt", "answer")
           /\ Tail(Prompt("answer")) = <<>> /\ Prompt("answer") # <<>>
           /\ Head(<<Op("respond", k)>> \o HandleRequests(k)) = Op("respond", k)
           /\ Tail(<<Op("respond", k)>> \o HandleRequests(k)) = HandleRequests(k)
           /\ <<Op("respond", k)>> \o HandleRequests(k) \in Seq(Instr)
           /\ <<Op("respond", k)>> \o HandleRequests(k) # <<>>
<1>1. PICK a : a = Op("show", k) OBVIOUS
<1>2. PICK b : b = Op("prompt", Requests(k)) OBVIOUS
<1>3. PICK c : c = Op("prompt", "answer") OBVIOUS
<1>4. PICK d : d = Op("respond", k) OBVIOUS
<1>5. a \in Instr /\ b \in Instr /\ c \in Instr /\ d \in Instr
    BY <1>1, <1>2, <1>3, <1>4 DEF Op, Instr, Requests, Choice
<1>6. Prompt(Requests(k)) = <<b>> /\ Prompt("answer") = <<c>> BY <1>2, <1>3 DEF Prompt
<1>7. /\ Head(<<b>>) = b /\ Tail(<<b>>) = <<>> /\ <<b>> # <<>> /\ <<b>> \in Seq(Instr)
      /\ Head(<<c>>) = c /\ Tail(<<c>>) = <<>> /\ <<c>> # <<>>
    BY <1>5
<1>8. PICK h : h = HandleRequests(k) OBVIOUS
<1>9. h = <<a>> \o <<b>> BY <1>1, <1>6, <1>8 DEF HandleRequests
<1>10. h \in Seq(Instr) /\ h # <<>> /\ Head(h) = a /\ Tail(h) = <<b>>
    BY <1>5, <1>7, <1>9, InFront
<1>11. /\ <<d>> \o h \in Seq(Instr) /\ <<d>> \o h # <<>> /\ Head(<<d>> \o h) = d
       /\ Tail(<<d>> \o h) = h
    BY <1>5, <1>10, InFront
<1> QED BY <1>1, <1>2, <1>3, <1>4, <1>5, <1>6, <1>7, <1>8, <1>10, <1>11

LEMMA PickSteps ==
    ASSUME NEW k \in Kind, NEW i \in Nat
    PROVE  /\ Pick(k, i) \in Instr /\ <<Pick(k, i)>> \o Prompt("answer") \in Seq(Instr)
           /\ <<Pick(k, i)>> \o Prompt("answer") # <<>>
           /\ Head(<<Pick(k, i)>> \o Prompt("answer")) = Pick(k, i)
           /\ Tail(<<Pick(k, i)>> \o Prompt("answer")) = Prompt("answer")
<1>1. PICK e : e = Pick(k, i) OBVIOUS
<1>2. PICK c : c = Op("prompt", "answer") OBVIOUS
<1>3. e \in Instr /\ c \in Instr BY <1>1, <1>2, HandlingSteps DEF Pick, Instr
<1>4. <<c>> \in Seq(Instr) BY <1>3
<1>5. /\ <<e>> \o <<c>> \in Seq(Instr) /\ <<e>> \o <<c>> # <<>>
      /\ Head(<<e>> \o <<c>>) = e /\ Tail(<<e>> \o <<c>>) = <<c>>
    BY <1>3, <1>4, InFront
<1> QED BY <1>1, <1>2, <1>3, <1>5 DEF Prompt

LEMMA HandlersQuiet ==
    ASSUME NEW o \in Instr, o.op \in {"show", "pick", "respond", "prompt"}
    PROVE  Formed(<<o>>) /\ Quiet(<<o>>)
<1>1. PICK s : s = <<o>> OBVIOUS
<1>2. s \in Seq(Instr) /\ Len(s) = 1 /\ s[1] = o BY <1>1
<1>3. Quiet(s) BY <1>2 DEF Quiet, AsksForList
<1> QED BY <1>1, <1>3, OneStepFormed

LEMMA HandlingQuiet ==
    ASSUME NEW k \in Kind
    PROVE  /\ Formed(HandleRequests(k)) /\ Quiet(HandleRequests(k))
           /\ Formed(<<Op("respond", k)>> \o HandleRequests(k))
           /\ Quiet(<<Op("respond", k)>> \o HandleRequests(k))
           /\ \A i \in Nat : /\ Formed(<<Pick(k, i)>> \o Prompt("answer"))
                             /\ Quiet(<<Pick(k, i)>> \o Prompt("answer"))
<1>1. PICK a : a = Op("show", k) OBVIOUS
<1>2. PICK b : b = Op("prompt", Requests(k)) OBVIOUS
<1>3. PICK c : c = Op("prompt", "answer") OBVIOUS
<1>4. PICK d : d = Op("respond", k) OBVIOUS
<1>5. a \in Instr /\ b \in Instr /\ c \in Instr /\ d \in Instr
    BY <1>1, <1>2, <1>3, <1>4, HandlingSteps
<1>6. a.op = "show" /\ b.op = "prompt" /\ c.op = "prompt" /\ d.op = "respond"
    BY <1>1, <1>2, <1>3, <1>4 DEF Op
<1>7. \A o \in {a, b, c, d} : Formed(<<o>>) /\ Quiet(<<o>>) BY <1>5, <1>6, HandlersQuiet
<1>8. \A s, t : Formed(s) /\ Quiet(s) /\ Formed(t) /\ Quiet(t) =>
                    Formed(s \o t) /\ Quiet(s \o t)
    BY FormedConcat, QuietConcat DEF Formed
<1>9. PICK h : h = HandleRequests(k) OBVIOUS
<1>10. h = <<a>> \o <<b>> BY <1>1, <1>2, <1>9 DEF HandleRequests, Prompt
<1>11. Formed(h) /\ Quiet(h) BY <1>7, <1>8, <1>10
<1>12. Formed(<<d>> \o h) /\ Quiet(<<d>> \o h) BY <1>7, <1>8, <1>11
<1>13. ASSUME NEW i \in Nat
       PROVE  /\ Formed(<<Pick(k, i)>> \o Prompt("answer"))
              /\ Quiet(<<Pick(k, i)>> \o Prompt("answer"))
    <2>1. PICK e : e = Pick(k, i) OBVIOUS
    <2>2. e \in Instr /\ e.op = "pick" BY <2>1, PickSteps DEF Pick
    <2>3. Formed(<<e>>) /\ Quiet(<<e>>) BY <2>2, HandlersQuiet
    <2>4. Formed(<<e>> \o <<c>>) /\ Quiet(<<e>> \o <<c>>) BY <1>7, <1>8, <2>3
    <2> QED BY <1>3, <2>1, <2>4 DEF Prompt
<1> QED BY <1>4, <1>9, <1>11, <1>12, <1>13

\* Where the main thread is in the handling of requests, by its next step.
LEMMA HandlingAt ==
    ASSUME MainInv, NEW k \in Kind, Handling(k)
    PROVE  /\ todo # <<>> /\ Handles(Head(todo))
           /\ Head(todo).op \in {"show", "prompt", "pick", "respond"}
           /\ Head(todo).op = "show" =>
                  todo = HandleRequests(k) /\ Arg = k
           /\ Head(todo).op = "pick" =>
                  /\ picked.kind = k /\ Arg = k /\ Tail(todo) = Prompt("answer")
                  /\ Head(todo).number \in DOMAIN picked.list
           /\ Head(todo).op = "respond" =>
                  /\ Arg = k /\ picked.kind = k /\ picked.index \in DOMAIN picked.list
                  /\ Tail(todo) = HandleRequests(k)
           /\ Head(todo).op = "prompt" =>
                  /\ picked.kind = k /\ Tail(todo) = <<>>
                  /\ \/ Arg = Requests(k)
                     \/ Arg = "answer" /\ picked.index \in DOMAIN picked.list
<1>1. \A n, a : Op(n, a).op = n /\ Op(n, a).arg = a BY DEF Op
<1>2. \A i : Pick(k, i).op = "pick" /\ Pick(k, i).arg = k /\ Pick(k, i).number = i BY DEF Pick
<1>3. Requests(k) \in {"HANDLE_FRIEND_REQUEST", "HANDLE_GROUP_REQUEST"} BY DEF Requests
<1>4. CASE todo = HandleRequests(k)
    <2>1. todo # <<>> /\ Head(todo) = Op("show", k) BY <1>4, HandlingSteps
    <2>2. Head(todo).op = "show" /\ Arg = k BY <1>1, <2>1 DEF Arg
    <2> QED BY <1>4, <2>1, <2>2 DEF Handles
<1>5. CASE todo = Prompt(Requests(k)) /\ picked.kind = k
    <2>1. todo # <<>> /\ Head(todo) = Op("prompt", Requests(k)) /\ Tail(todo) = <<>>
        BY <1>5, HandlingSteps
    <2>2. Head(todo).op = "prompt" /\ Arg = Requests(k) /\ Head(todo).arg = Requests(k)
        BY <1>1, <2>1 DEF Arg
    <2> QED BY <1>3, <1>5, <2>1, <2>2 DEF Handles
<1>6. CASE /\ \E i \in DOMAIN picked.list : todo = <<Pick(k, i)>> \o Prompt("answer")
           /\ picked.kind = k
    <2>1. PICK i \in DOMAIN picked.list : todo = <<Pick(k, i)>> \o Prompt("answer") BY <1>6
    <2>2. picked.list \in Seq(Applicant) BY DEF MainInv, TypeOK
    <2>3. i \in Nat BY <2>2, LenProperties
    <2>4. todo # <<>> /\ Head(todo) = Pick(k, i) /\ Tail(todo) = Prompt("answer")
        BY <2>1, <2>3, PickSteps
    <2>5. Head(todo).op = "pick" /\ Arg = k /\ Head(todo).number = i BY <1>2, <2>4 DEF Arg
    <2> QED BY <1>6, <2>4, <2>5 DEF Handles
<1>7. CASE /\ todo = Prompt("answer")
           /\ picked.kind = k /\ picked.index \in DOMAIN picked.list
    <2>1. todo # <<>> /\ Head(todo) = Op("prompt", "answer") /\ Tail(todo) = <<>>
        BY <1>7, HandlingSteps
    <2>2. Head(todo).op = "prompt" /\ Arg = "answer" /\ Head(todo).arg = "answer"
        BY <1>1, <2>1 DEF Arg
    <2> QED BY <1>7, <2>1, <2>2 DEF Handles
<1>8. CASE /\ todo = <<Op("respond", k)>> \o HandleRequests(k)
           /\ picked.kind = k /\ picked.index \in DOMAIN picked.list
    <2>1. todo # <<>> /\ Head(todo) = Op("respond", k) /\ Tail(todo) = HandleRequests(k)
        BY <1>8, HandlingSteps
    <2>2. Head(todo).op = "respond" /\ Arg = k BY <1>1, <2>1 DEF Arg
    <2> QED BY <1>8, <2>1, <2>2 DEF Handles
<1> QED BY <1>4, <1>5, <1>6, <1>7, <1>8 DEF Handling

\* By its next step, the main thread handles requests or does not.
LEMMA PlainOrHandling ==
    ASSUME MainInv, todo # <<>>
    PROVE  /\ ~Handles(Head(todo)) => Plain(todo)
           /\ Handles(Head(todo)) => \E k \in Kind : Handling(k)
<1>1. ~Handles(Head(todo)) => Plain(todo) BY HandlingAt DEF MainInv, PickInv
<1>2. Plain(todo) => ~Handles(Head(todo))
    <2>1. PICK s : s = todo OBVIOUS
    <2>2. s \in Seq(Instr) /\ s # <<>> BY <2>1 DEF MainInv, TypeOK
    <2>3. Head(s) = s[1] /\ 1 \in 1 .. Len(s) BY <2>2
    <2> QED BY <2>1, <2>3 DEF Plain
<1> QED BY <1>1, <1>2 DEF MainInv, PickInv
-----------------------------------------------------------------------------
(* The main thread. *)

LEMMA MainLoopKeeps ==
    ASSUME MainInv, MainLoop
    PROVE  MainInv'
<1> USE DEF MainLoop
<1>1. PICK t : t = Screen(state) OBVIOUS
<1>2. state \in State BY DEF MainInv, TypeOK
<1>3. /\ Formed(t) /\ LocksReleased(t)
      /\ Plain(t) \/ \E k \in Kind : t = HandleRequests(k)
    BY <1>1, <1>2, ScreenFormed
<1>4. todo' = t /\ picked' = NoPick /\ removed' = FALSE BY <1>1
<1>5. TypeOK'
    <2>1. todo' \in Seq(Instr) BY <1>3, <1>4 DEF Formed
    <2>2. picked' \in [kind : Kind, list : Seq(Applicant), index : Nat]
        BY <1>4 DEF NoPick, Kind
    <2>3. removed' \in BOOLEAN BY <1>4
    <2>4. TypeOK BY DEF MainInv
    <2> QED BY <2>1, <2>2, <2>3, <2>4 DEF TypeOK, answerVars
<1>6. OneRequest' BY <1>3, <1>4, NoRequest DEF At
<1>7. PanelInv'
    <2>1. \A k \in Kind : ~Released(k, <<>>) BY DEF Released
    <2>2. \A k \in Kind : holder[k] # "main" BY <2>1 DEF MainInv, PanelInv
    <2> QED BY <1>3, <1>4, <2>2 DEF PanelInv
<1>8. PickInv'
    <2>1. Plain(todo') \/ \E k \in Kind : Handling(k)' BY <1>3, <1>4 DEF Handling
    <2>2. StillShown'
        <3>1. requests'["friend"] \in Seq(Applicant) BY DEF MainInv, TypeOK, Kind
        <3> QED BY <1>4, <3>1 DEF StillShown, NoPick
    <2> QED BY <1>4, <2>1, <2>2 DEF PickInv
<1> QED BY <1>5, <1>6, <1>7, <1>8 DEF MainInv

\* What a choice puts in front, when it has the form of a choice.
LEMMA ChosenKeeps ==
    ASSUME MainInv, todo # <<>>, Head(todo).op \in {"prompt", "branch"},
           NEW prog, Formed(prog), Quiet(prog), todo' = prog \o Tail(todo),
           UNCHANGED <<state, ready, answerVars, holder, transfer, requests, picked, removed>>
    PROVE  TypeOK' /\ OneRequest' /\ PanelInv'
<1>1. PICK s : s = todo OBVIOUS
<1>2. PICK u : u = Tail(todo) OBVIOUS
<1>3. PICK t : t = todo' OBVIOUS
<1>4. s \in Seq(Instr) /\ Paired(s) /\ LocksReleased(s) /\ s # <<>> /\ u = Tail(s)
    BY <1>1, <1>2 DEF MainInv, TypeOK, OneRequest, PanelInv
<1>5. u \in Seq(Instr) /\ LocksReleased(u) /\ Head(s) = s[1] BY <1>4, TailKeeps
<1>6. s[1].op \in {"prompt", "branch"} BY <1>1, <1>5
<1>7. Formed(u) BY <1>4, <1>6, TailFormed
<1>8. Formed(t) BY <1>2, <1>3, <1>7, FormedConcat
<1>9. \A k \in Kind : Released(k, s) => Released(k, u)
    <2>1. \A k \in Kind : Op("unlock", k).op = "unlock" BY DEF Op
    <2>2. \A k \in Kind : s[1] # Op("unlock", k) BY <1>6, <2>1
    <2> QED BY <1>4, <2>2, TailReleases
<1>10. LocksReleased(t) /\ \A k \in Kind : Released(k, s) => Released(k, t)
    <2>1. prog \in Seq(Instr) BY DEF Formed
    <2>2. LocksReleased(prog \o u) /\ \A k \in Kind : Released(k, u) => Released(k, prog \o u)
        BY <1>5, <2>1, QuietInFront
    <2> QED BY <1>2, <1>3, <1>9, <2>2
<1>11. TypeOK' BY <1>3, <1>8 DEF MainInv, TypeOK, Formed, answerVars
<1>12. ~At("wait") /\ ~At("reset") BY DEF At
<1>13. OneRequest' BY <1>3, <1>8, <1>12, NoRequest
<1>14. PanelInv' BY <1>1, <1>3, <1>10 DEF MainInv, PanelInv
<1> QED BY <1>11, <1>13, <1>14

LEMMA ChooseKeeps ==
    ASSUME MainInv, NEW op \in {"prompt", "branch"}, Choose(op)
    PROVE  MainInv'
<1>1. todo # <<>> /\ Head(todo).op = op BY DEF Choose, At
<1>2. PICK prog \in Choices(Arg) : todo' = prog \o Tail(todo) BY DEF Choose
<1>3. UNCHANGED <<state, ready, answerVars, holder, transfer, requests, picked, removed>>
    BY DEF Choose
<1>4. Head(todo) \in Instr /\ Tail(todo) \in Seq(Instr) /\ Arg = Head(todo).arg
      /\ (Plain(todo) => Plain(Tail(todo))) /\ todo \in Seq(Instr)
    BY <1>1, TailKeeps DEF MainInv, TypeOK, Arg
<1>5. ~At("show") BY <1>1 DEF At
<1>6. (removed => picked.kind = "group") /\ (removed \/ StillShown)
    BY <1>5 DEF MainInv, PickInv
<1>7. (removed => picked.kind = "group")' /\ (removed \/ StillShown)'
    BY <1>3, <1>6 DEF StillShown
<1>8. CASE ~Handles(Head(todo))
    <2>1. Arg \in Choice \ {"answer", "HANDLE_FRIEND_REQUEST", "HANDLE_GROUP_REQUEST"}
        <3>1. CASE op = "prompt" BY <1>1, <1>4, <1>8, <3>1, InstrFields DEF Handles
        <3>2. CASE op = "branch"
            <4>1. Arg \in {"regErrno", "findErrno", "loginErrno"} BY <1>1, <1>4, <3>2, InstrFields
            <4> QED BY <4>1 DEF Choice
        <3> QED BY <3>1, <3>2
    <2>2. Usual(prog) BY <1>2, <2>1, ChoicesUsual
    <2>3. Plain(todo) BY <1>1, <1>8, PlainOrHandling
    <2>4. prog \in Seq(Instr) /\ Formed(prog) /\ Quiet(prog) /\ Plain(prog)
        BY <2>2 DEF Usual, Formed
    <2>5. Plain(todo') BY <1>2, <1>4, <2>3, <2>4, PlainConcat
    <2>6. PickInv' BY <1>7, <2>5 DEF PickInv
    <2>7. TypeOK' /\ OneRequest' /\ PanelInv' BY <1>1, <1>2, <1>3, <2>4, ChosenKeeps
    <2> QED BY <2>6, <2>7 DEF MainInv
<1>9. CASE Handles(Head(todo))
    <2>1. PICK k \in Kind : Handling(k) BY <1>1, <1>9, PlainOrHandling
    <2>2. op = "prompt" BY <1>1, <2>1, HandlingAt
    <2>3. /\ picked.kind = k /\ Tail(todo) = <<>>
          /\ Arg = Requests(k) \/ (Arg = "answer" /\ picked.index \in DOMAIN picked.list)
        BY <1>1, <2>1, <2>2, HandlingAt
    <2> DEFINE Next1(p) ==
            \/ Usual(p)
            \/ p = HandleRequests(k)
            \/ \E i \in DOMAIN picked.list : p = <<Pick(k, i)>> \o Prompt("answer")
            \/ p = <<Op("respond", k)>> \o HandleRequests(k) /\ picked.index \in DOMAIN picked.list
    <2>4. Next1(prog)
        <3>1. CASE Arg = Requests(k)
            <4>1. Choices(Arg) = PickRequest(k) BY <3>1 DEF Choices, Requests, Kind
            <4>2. \/ prog = Goto("CHAT_PANEL") \/ prog = <<>> \/ prog = HandleRequests(k)
                  \/ \E i \in DOMAIN picked.list : prog = <<Pick(k, i)>> \o Prompt("answer")
                BY <1>2, <4>1 DEF PickRequest
            <4>3. Usual(Goto("CHAT_PANEL")) BY GotoUsual DEF State
            <4> QED BY <4>2, <4>3, NoSteps
        <3>2. CASE Arg = "answer" /\ picked.index \in DOMAIN picked.list
            <4>1. Choices(Arg) = RequestAnswer(k) BY <2>3, <3>2 DEF Choices
            <4>2. Requests(k) \in State BY DEF Requests, State
            <4>3. \/ prog = Goto(Requests(k)) \/ prog = HandleRequests(k)
                  \/ prog = <<Op("respond", k)>> \o HandleRequests(k)
                BY <1>2, <4>1 DEF RequestAnswer
            <4>4. Usual(Goto(Requests(k))) BY <4>2, GotoUsual
            <4> QED BY <3>2, <4>3, <4>4
        <3> QED BY <2>3, <3>1, <3>2
    <2>5. Formed(prog) /\ Quiet(prog)
        <3>1. CASE Usual(prog) BY <3>1 DEF Usual
        <3>2. CASE \E i \in DOMAIN picked.list : prog = <<Pick(k, i)>> \o Prompt("answer")
            <4>1. picked.list \in Seq(Applicant) BY DEF MainInv, TypeOK
            <4>2. \A i \in DOMAIN picked.list : i \in Nat BY <4>1, LenProperties
            <4> QED BY <3>2, <4>2, HandlingQuiet
        <3> QED BY <2>4, <3>1, <3>2, HandlingQuiet
    <2>6. todo' = prog
        <3>1. prog \in Seq(Instr) BY <2>5 DEF Formed
        <3> QED BY <1>2, <2>3, <3>1, ConcatEmptySeq
    <2>7. Plain(todo') \/ Handling(k)'
        <3>1. Usual(prog) => Plain(prog) BY DEF Usual
        <3>2. picked'.kind = k /\ picked' = picked BY <1>3, <2>3
        <3> QED BY <2>4, <2>6, <3>1, <3>2 DEF Handling
    <2>8. PickInv' BY <1>7, <2>7 DEF PickInv
    <2>9. TypeOK' /\ OneRequest' /\ PanelInv' BY <1>1, <1>2, <1>3, <2>5, ChosenKeeps
    <2> QED BY <2>8, <2>9 DEF MainInv
<1> QED BY <1>8, <1>9

\* Steps that leave the requests and what is picked alone.
LEMMA PlainFirst ==
    ASSUME MainInv, todo # <<>>, ~Handles(Head(todo)), todo' = Tail(todo),
           UNCHANGED <<requests, picked, removed>>
    PROVE  PickInv'
<1>1. Plain(todo) BY PlainOrHandling
<1>2. Plain(todo') /\ Head(todo) = todo[1] /\ 1 \in 1 .. Len(todo) BY <1>1, FirstStep
<1> QED BY <1>1, <1>2, PlainStep

LEMMA GotoKeeps ==
    ASSUME MainInv, GotoState
    PROVE  MainInv'
<1> USE DEF GotoState
<1>1. todo # <<>> /\ Head(todo).op = "goto" BY DEF At
<1>2. OneRequest' /\ PanelInv' /\ todo' \in Seq(Instr) /\ Head(todo) \in Instr BY <1>1, OtherStep
<1>3. PickInv' BY <1>1, PlainFirst DEF Handles
<1>4. state' \in State BY <1>1, <1>2, InstrFields DEF Arg
<1>5. TypeOK' BY <1>2, <1>4 DEF MainInv, TypeOK, answerVars
<1> QED BY <1>2, <1>3, <1>5 DEF MainInv

LEMMA CheckKeeps ==
    ASSUME MainInv, CheckList
    PROVE  MainInv'
<1> USE DEF CheckList
<1>1. todo # <<>> /\ Head(todo).op = "check" BY DEF At
<1>2. OneRequest' /\ PanelInv' /\ todo' \in Seq(Instr) BY <1>1, OtherStep
<1>3. PickInv' BY <1>1, PlainFirst DEF Handles
<1>4. TypeOK' BY <1>2 DEF MainInv, TypeOK, answerVars
<1> QED BY <1>2, <1>3, <1>4 DEF MainInv

LEMMA UploadKeeps ==
    ASSUME MainInv, UploadFile
    PROVE  MainInv'
<1> USE DEF UploadFile
<1>1. todo # <<>> /\ Head(todo).op = "upload" BY DEF At
<1>2. OneRequest' /\ PanelInv' /\ todo' \in Seq(Instr) /\ Head(todo) \in Instr BY <1>1, OtherStep
<1>3. PickInv' BY <1>1, PlainFirst DEF Handles
<1>4. transfer' \in [Transfer -> {"none", "running", "looking"}]
    <2>1. transfer \in [Transfer -> {"none", "running", "looking"}]
        BY DEF MainInv, TypeOK
    <2>2. CASE UNCHANGED transfer BY <2>1, <2>2
    <2>3. CASE \E t \in Transfer :
                 transfer' = [transfer EXCEPT ![t] = "running"]
        BY <2>1, <2>3
    <2> QED BY <2>2, <2>3
<1>5. TypeOK' BY <1>2, <1>4 DEF MainInv, TypeOK, answerVars
<1> QED BY <1>2, <1>3, <1>5 DEF MainInv

LEMMA LockKeeps ==
    ASSUME MainInv, LockList
    PROVE  MainInv'
<1> USE DEF LockList
<1>1. todo # <<>> /\ Head(todo).op = "lock" BY DEF At
<1>2. /\ Head(todo) \in Instr /\ Head(todo) = todo[1] /\ Arg = todo[1].arg
      /\ Len(todo) \in Nat \ {0} /\ 1 \in 1 .. Len(todo)
      /\ todo' \in Seq(Instr) /\ LocksReleased(todo') /\ Formed(todo')
      /\ \A k \in Kind : Released(k, todo) /\ todo[1] # Op("unlock", k) => Released(k, todo')
    BY <1>1, FirstStep
<1>3. Arg \in Kind BY <1>1, <1>2, InstrFields DEF Arg
<1>4. PickInv' BY <1>1, PlainFirst DEF Handles
<1>5. ~At("wait") /\ ~At("reset") BY <1>1 DEF At
<1>6. OneRequest' BY <1>2, <1>5, NoRequest
<1>7. Released(Arg, todo')
    <2>1. PICK s : s = todo OBVIOUS
    <2>2. PICK u : u = todo' OBVIOUS
    <2>3. s \in Seq(Instr) /\ s # <<>> /\ u = Tail(s) /\ LocksReleased(s)
        BY <1>1, <2>1, <2>2 DEF MainInv, TypeOK, PanelInv
    <2>4. s[1].op = "lock" /\ Arg = s[1].arg /\ 1 \in 1 .. Len(s) /\ Len(s) \in Nat
        BY <1>1, <1>2, <2>1
    <2>5. PICK j \in 1 .. Len(s) :
            /\ 1 < j /\ s[j] = Op("unlock", Arg)
            /\ \A h \in 1 .. Len(s) : 1 < h /\ h < j => ~AsksForList(s[h])
        BY <2>3, <2>4 DEF LocksReleased
    <2>6. Len(u) = Len(s) - 1 /\ \A i \in 1 .. Len(s) - 1 : u[i] = s[i + 1]
        BY <2>3, TailKeeps
    <2>7. j - 1 \in 1 .. Len(u) /\ (j - 1) + 1 = j BY <2>4, <2>5, <2>6
    <2>8. u[j - 1] = Op("unlock", Arg) BY <2>5, <2>6, <2>7
    <2>9. ASSUME NEW i \in 1 .. Len(u), i < j - 1 PROVE ~AsksForList(u[i])
        <3>1. i + 1 \in 1 .. Len(s) /\ 1 < i + 1 /\ i + 1 < j BY <2>4, <2>5, <2>6, <2>9
        <3> QED BY <2>4, <2>5, <2>6, <3>1
    <2>10. Released(Arg, u) BY <2>7, <2>8, <2>9 DEF Released
    <2> QED BY <2>2, <2>10
<1>8. PanelInv'
    <2>1. \A k \in Kind : Op("unlock", k).op = "unlock" BY DEF Op
    <2>2. \A k \in Kind : todo[1] # Op("unlock", k) BY <1>1, <1>2, <2>1
    <2>3. ASSUME NEW k \in Kind, holder'[k] = "main" PROVE Released(k, todo')
        <3>1. CASE k = Arg BY <1>7, <3>1
        <3>2. CASE k # Arg
            <4>1. holder[k] = "main" BY <2>3, <3>2 DEF MainInv, TypeOK
            <4> QED BY <1>2, <2>2, <4>1 DEF MainInv, PanelInv
        <3> QED BY <3>1, <3>2
    <2> QED BY <1>2, <2>3 DEF PanelInv
<1>9. holder' \in [Kind -> {"nobody", "main", "transfer"}] BY <1>3 DEF MainInv, TypeOK
<1>10. TypeOK' BY <1>2, <1>9 DEF MainInv, TypeOK, answerVars
<1> QED BY <1>4, <1>6, <1>8, <1>10 DEF MainInv

LEMMA UnlockKeeps ==
    ASSUME MainInv, UnlockList
    PROVE  MainInv'
<1> USE DEF UnlockList
<1>1. todo # <<>> /\ Head(todo).op = "unlock" BY DEF At
<1>2. /\ Head(todo) \in Instr /\ Head(todo) = todo[1] /\ Arg = todo[1].arg
      /\ todo' \in Seq(Instr) /\ LocksReleased(todo') /\ Formed(todo')
      /\ \A k \in Kind : Released(k, todo) /\ todo[1] # Op("unlock", k) => Released(k, todo')
    BY <1>1, FirstStep
<1>3. Arg \in Kind BY <1>1, <1>2, InstrFields DEF Arg
<1>4. PickInv' BY <1>1, PlainFirst DEF Handles
<1>5. ~At("wait") /\ ~At("reset") BY <1>1 DEF At
<1>6. OneRequest' BY <1>2, <1>5, NoRequest
<1>7. PanelInv'
    <2>1. \A k \in Kind : Op("unlock", k).arg = k BY DEF Op
    <2>2. ASSUME NEW k \in Kind, holder'[k] = "main" PROVE Released(k, todo')
        <3>1. holder \in [Kind -> {"nobody", "main", "transfer"}] BY DEF MainInv, TypeOK
        <3>2. k # Arg /\ holder[k] = "main" BY <1>3, <2>2, <3>1
        <3>3. todo[1] # Op("unlock", k) BY <1>2, <2>1, <3>2
        <3> QED BY <1>2, <3>2, <3>3 DEF MainInv, PanelInv
    <2> QED BY <1>2, <2>2 DEF PanelInv
<1>8. holder' \in [Kind -> {"nobody", "main", "transfer"}] BY <1>3 DEF MainInv, TypeOK
<1>9. TypeOK' BY <1>2, <1>8 DEF MainInv, TypeOK, answerVars
<1> QED BY <1>4, <1>6, <1>7, <1>9 DEF MainInv

\* The steps of a request.
LEMMA AskKeeps ==
    ASSUME MainInv, Ask
    PROVE  MainInv'
<1>1. /\ todo # <<>> /\ todo' = Tail(todo) /\ Head(todo).op \in {"send", "wait", "reset"}
      /\ UNCHANGED <<state, online, filling, holder, transfer, requests, picked, removed>>
    BY DEF Ask, At
<1>2. /\ Head(todo) \in Instr /\ Head(todo) = todo[1] /\ Arg = todo[1].arg
      /\ 1 \in 1 .. Len(todo) /\ todo' \in Seq(Instr) /\ Paired(todo') /\ LocksReleased(todo')
      /\ todo' # <<>> => Head(todo') = todo[2] /\ 2 \in 1 .. Len(todo)
      /\ \A k \in Kind : Released(k, todo) /\ todo[1] # Op("unlock", k) => Released(k, todo')
    BY <1>1, FirstStep
<1>3. PICK w : w = Arg OBVIOUS
<1>4. w \in Waiter BY <1>1, <1>2, <1>3, InstrFields
<1>5. PICK t : t = todo' OBVIOUS
<1>6. PairedAt(todo, 1) /\ (t # <<>> => PairedAt(todo, 2))
    BY <1>2, <1>5 DEF MainInv, OneRequest, Paired
<1>7. /\ ready \in [Waiter -> BOOLEAN] /\ pending \in [Waiter -> 0..MaxPending]
      /\ unasked \subseteq PushedList /\ MaxPending \in Nat
    BY ClientAssumption DEF MainInv, TypeOK
<1>8. \A v \in Waiter \ (unasked \cup {"files"}) :
        /\ ready[v] => ~(pending[v] > 0) /\ filling # v
        /\ filling = v => ~(pending[v] > 0)
        /\ pending[v] > 0 \/ filling = v \/ ready[v] =>
               Head(todo).op \in {"wait", "reset"} /\ v = w
        /\ pending[v] <= 1
        /\ Head(todo).op = "reset" /\ v = w => ready[v]
    BY <1>1, <1>3 DEF MainInv, OneRequest, Single, InStep, At
<1>10. PickInv' BY <1>1, PlainFirst DEF Handles
<1>11. PanelInv'
    <2>1. \A k \in Kind : Op("unlock", k).op = "unlock" BY DEF Op
    <2>2. \A k \in Kind : todo[1] # Op("unlock", k) BY <1>1, <1>2, <2>1
    <2> QED BY <1>1, <1>2, <2>2 DEF MainInv, PanelInv
<1>12. \A n, a : Op(n, a).op = n /\ Op(n, a).arg = a BY DEF Op
<1> DEFINE Fine(next) ==
        /\ ready' \in [Waiter -> BOOLEAN] /\ pending' \in [Waiter -> 0..MaxPending]
        /\ unasked' \subseteq PushedList
        /\ \A v \in Waiter \ (unasked' \cup {"files"}) :
             /\ ready'[v] => ~(pending'[v] > 0) /\ filling # v
             /\ filling = v => ~(pending'[v] > 0)
             /\ pending'[v] > 0 \/ filling = v \/ ready'[v] => next /\ v = w
             /\ next /\ v = w => pending'[v] > 0 \/ ready'[v]
             /\ pending'[v] <= 1
<1>13. CASE Head(todo).op = "send"
    <2>1. /\ pending[w] < MaxPending /\ pending' = [pending EXCEPT ![w] = @ + 1]
          /\ UNCHANGED <<ready, unasked>>
        BY <1>3, <1>13 DEF Ask, At
    <2>2. t # <<>> /\ Head(t) = Op("wait", w)
        <3>1. todo[2] = Op("wait", w) /\ 2 <= Len(todo) BY <1>2, <1>3, <1>6, <1>13 DEF PairedAt
        <3>2. todo \in Seq(Instr) BY DEF MainInv, TypeOK
        <3>3. Len(t) = Len(todo) - 1 /\ Len(todo) \in Nat BY <1>1, <1>5, <3>2, TailKeeps
        <3>4. t # <<>> BY <3>1, <3>3
        <3> QED BY <1>2, <1>5, <3>1, <3>4
    <2>3. Fine(TRUE)
        <3>1. pending' \in [Waiter -> 0..MaxPending] BY <1>4, <1>7, <2>1
        <3>2. ASSUME NEW v \in Waiter \ (unasked \cup {"files"})
              PROVE  /\ ~ready'[v] /\ filling # v /\ pending'[v] <= 1
                     /\ pending'[v] > 0 <=> v = w
            <4>1. ~ready[v] /\ filling # v /\ ~(pending[v] > 0) /\ pending[v] \in Nat
                BY <1>7, <1>8, <1>13
            <4>2. pending'[v] = IF v = w THEN pending[v] + 1 ELSE pending[v]
                BY <1>4, <1>7, <2>1
            <4> QED BY <2>1, <4>1, <4>2
        <3> QED BY <1>7, <2>1, <3>1, <3>2
    <2>4. At("wait")' /\ ~At("reset")' /\ Arg' = w BY <1>5, <1>12, <2>2 DEF At, Arg
    <2>5. OneRequest' BY <1>1, <1>2, <2>3, <2>4 DEF OneRequest, Single, InStep
    <2>6. TypeOK' BY <1>1, <1>2, <2>3 DEF MainInv, TypeOK
    <2> QED BY <1>10, <1>11, <2>5, <2>6 DEF MainInv
<1>14. CASE Head(todo).op = "wait"
    <2>1. ready[w] /\ UNCHANGED <<pending, ready, unasked>> BY <1>3, <1>14 DEF Ask, At
    <2>2. w # "files" => t # <<>> /\ Head(t) = Op("reset", w)
        <3>1. w # "files" => todo[2] = Op("reset", w) /\ 2 <= Len(todo)
            BY <1>2, <1>3, <1>6, <1>14 DEF PairedAt
        <3>2. todo \in Seq(Instr) BY DEF MainInv, TypeOK
        <3>3. Len(t) = Len(todo) - 1 /\ Len(todo) \in Nat BY <1>1, <1>5, <3>2, TailKeeps
        <3>4. w # "files" => t # <<>> BY <3>1, <3>3
        <3> QED BY <1>2, <1>5, <3>1, <3>4
    <2>3. w = "files" /\ t # <<>> =>
            Head(t).op # "wait" /\ (Head(t).op = "reset" => Head(t).arg = "files")
        <3>1. t # <<>> => Head(t) = todo[2] /\ PairedAt(todo, 2) BY <1>2, <1>5, <1>6
        <3>2. todo[1].op = "wait" /\ todo[1].arg = w BY <1>2, <1>3, <1>14
        <3>3. t # <<>> /\ Head(t).op = "wait" => todo[1] = Op("send", Head(t).arg)
            BY <3>1 DEF PairedAt
        <3>4. t # <<>> /\ Head(t).op = "reset" => todo[1] = Op("wait", Head(t).arg)
            BY <3>1 DEF PairedAt
        <3> QED BY <1>12, <3>2, <3>3, <3>4
    <2>4. Fine(TRUE) BY <1>7, <1>8, <1>14, <2>1
    <2>5. CASE w # "files"
        <3>1. At("reset")' /\ ~At("wait")' /\ Arg' = w BY <1>5, <1>12, <2>2, <2>5 DEF At, Arg
        <3>2. OneRequest' BY <1>1, <1>2, <2>1, <2>4, <3>1 DEF OneRequest, Single, InStep
        <3> QED BY <1>1, <1>2, <1>10, <1>11, <2>4, <3>2 DEF MainInv, TypeOK
    <2>6. CASE w = "files"
        <3>1. ~At("wait")' /\ (At("reset")' => Arg' = "files") BY <1>5, <2>3, <2>6 DEF At, Arg
        <3>2. OneRequest' BY <1>1, <1>2, <2>1, <2>4, <2>6, <3>1 DEF OneRequest, Single, InStep
        <3> QED BY <1>1, <1>2, <1>10, <1>11, <2>4, <3>2 DEF MainInv, TypeOK
    <2> QED BY <2>5, <2>6
<1>15. CASE Head(todo).op = "reset"
    <2>1. /\ ready' = [ready EXCEPT ![w] = FALSE] /\ UNCHANGED pending
          /\ unasked' = IF pending[w] = 0 /\ filling # w THEN unasked \ {w} ELSE unasked
        BY <1>3, <1>15 DEF Ask, At
    <2>2. t # <<>> => Head(t).op \notin {"wait", "reset"}
        <3>1. t # <<>> => Head(t) = todo[2] /\ PairedAt(todo, 2) BY <1>2, <1>5, <1>6
        <3>2. todo[1].op = "reset" BY <1>2, <1>15
        <3>3. t # <<>> /\ Head(t).op = "wait" => todo[1] = Op("send", Head(t).arg)
            BY <3>1 DEF PairedAt
        <3>4. t # <<>> /\ Head(t).op = "reset" => todo[1] = Op("wait", Head(t).arg)
            BY <3>1 DEF PairedAt
        <3> QED BY <1>12, <3>2, <3>3, <3>4
    <2>3. Fine(FALSE)
        <3>1. ready' \in [Waiter -> BOOLEAN] BY <1>4, <1>7, <2>1
        <3>2. unasked' \subseteq PushedList BY <1>7, <2>1
        <3>3. ASSUME NEW v \in Waiter \ (unasked' \cup {"files"})
              PROVE  ~ready'[v] /\ filling # v /\ pending[v] <= 1 /\ ~(pending[v] > 0)
            <4>1. pending[v] \in Nat BY <1>7
            <4>2. CASE v = w
                <5>1. v \notin unasked => ~(pending[v] > 0) /\ filling # v
                    BY <1>8, <1>15, <4>2
                <5>2. v \in unasked => pending[v] = 0 /\ filling # v BY <2>1, <4>2
                <5> QED BY <1>4, <1>7, <2>1, <4>1, <4>2, <5>1, <5>2
            <4>3. CASE v # w
                <5>1. v \notin unasked BY <2>1, <4>3
                <5>2. ~(pending[v] > 0) /\ filling # v /\ ~ready[v] BY <1>8, <4>3, <5>1
                <5> QED BY <1>7, <2>1, <4>1, <4>3, <5>2
            <4> QED BY <4>2, <4>3
        <3> QED BY <1>7, <2>1, <3>1, <3>2, <3>3
    <2>4. ~At("wait")' /\ ~At("reset")' BY <1>5, <2>2 DEF At
    <2>5. OneRequest' BY <1>1, <1>2, <2>3, <2>4 DEF OneRequest, Single, InStep
    <2>6. TypeOK' BY <1>1, <1>2, <2>3 DEF MainInv, TypeOK
    <2> QED BY <1>10, <1>11, <2>5, <2>6 DEF MainInv
<1> QED BY <1>1, <1>13, <1>14, <1>15

\* What is shown, and the number that is picked.
LEMMA ShowOrPickKeeps ==
    ASSUME MainInv, ShowOrPickRequest
    PROVE  MainInv'
<1> USE DEF ShowOrPickRequest
<1>1. todo # <<>> /\ Head(todo).op \in {"show", "pick"} BY DEF At
<1>2. OneRequest' /\ PanelInv' /\ todo' \in Seq(Instr) /\ Head(todo) \in Instr BY <1>1, OtherStep
<1>3. PICK k \in Kind : Handling(k) BY <1>1, PlainOrHandling DEF Handles
<1>4. /\ requests \in [Kind -> Seq(Applicant)]
      /\ picked \in [kind : Kind, list : Seq(Applicant), index : Nat]
      /\ removed \in BOOLEAN
    BY DEF MainInv, TypeOK
<1>5. CASE Head(todo).op = "show"
    <2>1. Arg = k /\ todo = HandleRequests(k) BY <1>3, <1>5, HandlingAt
    <2>2. picked' = [kind |-> k, list |-> requests[k], index |-> 0] /\ removed' = FALSE
        BY <1>5, <2>1 DEF At
    <2>3. picked' \in [kind : Kind, list : Seq(Applicant), index : Nat] BY <1>4, <2>2
    <2>4. todo' = Prompt(Requests(k)) BY <2>1, HandlingSteps
    <2>5. picked'.kind = k /\ picked'.list = requests'[k] BY <2>2
    <2>6. Handling(k)' BY <2>4, <2>5 DEF Handling
    <2>7. requests[k] \in Seq(Applicant) BY <1>4
    <2>8. StillShown' BY <2>5, <2>7, LenProperties DEF StillShown
    <2>9. PickInv' BY <2>2, <2>6, <2>8 DEF PickInv
    <2>10. TypeOK' BY <1>2, <2>2, <2>3 DEF MainInv, TypeOK, answerVars
    <2> QED BY <1>2, <2>9, <2>10 DEF MainInv
<1>6. CASE Head(todo).op = "pick"
    <2>1. /\ picked.kind = k /\ Tail(todo) = Prompt("answer")
          /\ Head(todo).number \in DOMAIN picked.list
        BY <1>3, <1>6, HandlingAt
    <2>2. picked' = [picked EXCEPT !.index = Head(todo).number] /\ UNCHANGED removed
        BY <1>6 DEF At
    <2>3. Head(todo).number \in Nat BY <1>2, InstrFields
    <2>4. /\ picked' \in [kind : Kind, list : Seq(Applicant), index : Nat]
          /\ picked'.kind = k /\ picked'.list = picked.list /\ picked'.index = Head(todo).number
        BY <1>4, <2>1, <2>2, <2>3
    <2>5. Handling(k)' BY <2>1, <2>4 DEF Handling
    <2>6. (removed => picked.kind = "group") /\ (removed \/ StillShown)
        BY <1>6 DEF MainInv, PickInv, At
    <2>7. (removed' => picked'.kind = "group") /\ (removed' \/ StillShown')
        BY <2>1, <2>2, <2>4, <2>6 DEF StillShown
    <2>8. PickInv' BY <2>5, <2>7 DEF PickInv
    <2>9. TypeOK' BY <1>2, <1>4, <2>2, <2>4 DEF MainInv, TypeOK, answerVars
    <2> QED BY <1>2, <2>8, <2>9 DEF MainInv
<1> QED BY <1>1, <1>5, <1>6

\* The list without an applicant's requests is no longer than it was.
LEMMA WithoutIsShorter ==
    ASSUME NEW list \in Seq(Applicant), NEW a
    PROVE  Without(list, a) \in Seq(Applicant) /\ Len(Without(list, a)) <= Len(list)
<1>1. {i \in DOMAIN list : list[i] # a} \in SUBSET DOMAIN list OBVIOUS
<1> QED BY <1>1, SelectedIsSequence DEF Without

LEMMA BothLists ==
    \A a, b, c, d, m \in Nat :
        /\ a <= c /\ b <= d /\ c + d <= m => a + b <= m
        /\ a = c + 1 /\ b = d /\ c + d < m => a + b <= m
        /\ a = c /\ b = d + 1 /\ c + d < m => a + b <= m
OBVIOUS

LEMMA RequestsWithout ==
    ASSUME TypeOK, NEW k \in Kind, NEW a, requests' = [requests EXCEPT ![k] = Without(@, a)]
    PROVE  /\ requests' \in [Kind -> Seq(Applicant)]
           /\ Len(requests'["friend"]) + Len(requests'["group"]) <= MaxRequests
<1>1. /\ requests \in [Kind -> Seq(Applicant)]
      /\ Len(requests["friend"]) + Len(requests["group"]) <= MaxRequests
    BY DEF TypeOK
<1>2. PICK new : new = Without(requests[k], a) OBVIOUS
<1>3. new \in Seq(Applicant) /\ Len(new) <= Len(requests[k]) BY <1>1, <1>2, WithoutIsShorter
<1>4. requests' = [requests EXCEPT ![k] = new] BY <1>2
<1>5. requests' \in [Kind -> Seq(Applicant)] BY <1>1, <1>3, <1>4
<1>6. \A j \in Kind : Len(requests'[j]) <= Len(requests[j]) /\ Len(requests[j]) \in Nat
                      /\ Len(requests'[j]) \in Nat
    <2>1. ASSUME NEW j \in Kind
          PROVE  /\ Len(requests'[j]) <= Len(requests[j])
                 /\ Len(requests[j]) \in Nat /\ Len(requests'[j]) \in Nat
        <3>1. requests'[j] = IF j = k THEN new ELSE requests[j] BY <1>1, <1>4
        <3>2. Len(requests[j]) \in Nat /\ Len(new) \in Nat BY <1>1, <1>3, LenProperties
        <3> QED BY <1>3, <3>1, <3>2
    <2> QED BY <2>1
<1>7. /\ Len(requests'["friend"]) <= Len(requests["friend"])
      /\ Len(requests'["group"]) <= Len(requests["group"])
      /\ Len(requests["friend"]) \in Nat /\ Len(requests["group"]) \in Nat
      /\ Len(requests'["friend"]) \in Nat /\ Len(requests'["group"]) \in Nat
    BY <1>6 DEF Kind
<1>8. Len(requests["friend"]) + Len(requests["group"]) <= MaxRequests /\ MaxRequests \in Nat
    BY <1>1, ClientAssumption
<1>9. Len(requests'["friend"]) + Len(requests'["group"]) <= MaxRequests
    BY ONLY <1>7, <1>8, BothLists
<1> QED BY <1>5, <1>9

LEMMA RespondKeeps ==
    ASSUME MainInv, Respond
    PROVE  MainInv'
<1>1. /\ todo # <<>> /\ Head(todo).op = "respond" /\ todo' = Tail(todo)
      /\ UNCHANGED <<state, ready, answerVars, holder, transfer, picked, removed>>
    BY DEF Respond, At
<1>2. OneRequest' /\ PanelInv' /\ todo' \in Seq(Instr) BY <1>1, OtherStep
<1>3. PICK k \in Kind : Handling(k) BY <1>1, PlainOrHandling DEF Handles
<1>4. Arg = k /\ picked.kind = k /\ Tail(todo) = HandleRequests(k) BY <1>1, <1>3, HandlingAt
<1>5. PICK a \in Applicant : requests' = [requests EXCEPT ![k] = Without(@, a)]
    BY <1>4 DEF Respond
<1>6. /\ requests' \in [Kind -> Seq(Applicant)]
      /\ Len(requests'["friend"]) + Len(requests'["group"]) <= MaxRequests
    BY <1>5, RequestsWithout DEF MainInv
<1>7. PickInv'
    <2>1. Handling(k)' BY <1>1, <1>4 DEF Handling
    <2>2. At("show")'
        <3>1. todo' = HandleRequests(k) BY <1>1, <1>4
        <3>2. todo' # <<>> /\ Head(todo') = Op("show", k) BY <3>1, HandlingSteps
        <3> QED BY <3>2 DEF At, Op
    <2>3. removed' => picked'.kind = "group" BY <1>1 DEF MainInv, PickInv
    <2> QED BY <2>1, <2>2, <2>3 DEF PickInv
<1>8. TypeOK' BY <1>1, <1>2, <1>6 DEF MainInv, TypeOK, answerVars
<1> QED BY <1>2, <1>7, <1>8 DEF MainInv
-----------------------------------------------------------------------------
(* The loop thread and the transfers. *)

\* What happens to the requests and the lists when the main thread takes no step.
LEMMA ThreadStep ==
    ASSUME MainInv, UNCHANGED <<state, todo, holder, transfer, requests, picked, removed>>,
           ready' \in [Waiter -> BOOLEAN], pending' \in [Waiter -> 0..MaxPending],
           online' \in BOOLEAN, filling' \in ListWaiter \cup {NoWaiter},
           unasked' \subseteq PushedList, unasked \subseteq unasked',
           \A v \in Waiter \ (unasked' \cup {"files"}) :
              /\ ready'[v] => ~(pending'[v] > 0) /\ filling' # v
              /\ filling' = v => ~(pending'[v] > 0)
              /\ pending'[v] > 0 \/ filling' = v \/ ready'[v] =>
                     pending[v] > 0 \/ filling = v \/ ready[v]
              /\ pending[v] > 0 \/ filling = v \/ ready[v] =>
                     pending'[v] > 0 \/ filling' = v \/ ready'[v] \/ (v \in PushedList /\ ~online')
              /\ ready[v] => ready'[v]
              /\ pending'[v] <= 1
              /\ v \in PushedList /\ ~online /\ online' =>
                     ~((At("wait") \/ At("reset")) /\ Arg = v)
    PROVE  MainInv'
<1>1. PanelInv' /\ PickInv' BY SameProgram
<1>2. TypeOK' BY DEF MainInv, TypeOK
<1>3. At("wait")' = At("wait") /\ At("reset")' = At("reset") /\ Arg' = Arg BY DEF At, Arg
<1>4. ASSUME NEW v \in Waiter \ (unasked' \cup {"files"}) PROVE Single(v)'
    <2>1. Single(v) BY DEF MainInv, OneRequest
    <2>2. \/ pending[v] > 0 \/ filling = v \/ ready[v] \/ (v \in PushedList /\ ~online)
          \/ ~((At("wait") \/ At("reset")) /\ Arg = v)
        BY <2>1 DEF Single, InStep
    <2> QED BY <1>3, <2>1, <2>2 DEF Single, InStep
<1>5. OneRequest' BY <1>4 DEF MainInv, OneRequest
<1> QED BY <1>1, <1>2, <1>5 DEF MainInv

\* Of a waiter that is in step.
LEMMA Waits ==
    ASSUME MainInv, NEW v \in Waiter \ (unasked \cup {"files"})
    PROVE  /\ ready[v] => ~(pending[v] > 0) /\ filling # v
           /\ filling = v => ~(pending[v] > 0)
           /\ pending[v] <= 1 /\ pending[v] \in 0..MaxPending /\ MaxPending \in Nat
BY ClientAssumption DEF MainInv, TypeOK, OneRequest, Single, InStep

\* What is known of the answers in a state.
LEMMA AnswerTypes ==
    ASSUME MainInv
    PROVE  /\ ready \in [Waiter -> BOOLEAN] /\ pending \in [Waiter -> 0..MaxPending]
           /\ online \in BOOLEAN /\ filling \in ListWaiter \cup {NoWaiter}
           /\ unasked \subseteq PushedList /\ MaxPending \in Nat
           /\ ListWaiter \subseteq Waiter /\ PushedList \subseteq ListWaiter
           /\ NoWaiter \notin Waiter
BY ClientAssumption
DEF MainInv, TypeOK, NoWaiter, Waiter, ListWaiter, PushedList

\* An answer is taken from an open request: it notifies, is a list, or never comes.
LEMMA TakenKeeps ==
    ASSUME MainInv, NEW w \in Waiter, pending[w] > 0,
           pending' = [pending EXCEPT ![w] = @ - 1],
           UNCHANGED <<state, todo, online, unasked, holder, transfer, requests, picked, removed>>,
           \/ ready' = [ready EXCEPT ![w] = TRUE] /\ filling' = filling
           \/ ready' = ready /\ filling = NoWaiter /\ filling' = w /\ w \in ListWaiter
           \/ ready' = ready /\ filling' = filling /\ w \in PushedList /\ ~online
    PROVE  MainInv'
<1>1. /\ ready \in [Waiter -> BOOLEAN] /\ pending \in [Waiter -> 0..MaxPending]
      /\ online \in BOOLEAN /\ filling \in ListWaiter \cup {NoWaiter}
      /\ unasked \subseteq PushedList /\ MaxPending \in Nat /\ NoWaiter \notin Waiter
    BY AnswerTypes
<1>2. /\ ready' \in [Waiter -> BOOLEAN] /\ pending' \in [Waiter -> 0..MaxPending]
      /\ filling' \in ListWaiter \cup {NoWaiter}
    <2>1. ready' \in [Waiter -> BOOLEAN] BY <1>1
    <2>2. pending' \in [Waiter -> 0..MaxPending] BY <1>1
    <2> QED BY <1>1, <2>1, <2>2
<1>3. ASSUME NEW v \in Waiter \ (unasked \cup {"files"})
      PROVE  /\ ready'[v] => ~(pending'[v] > 0) /\ filling' # v
             /\ filling' = v => ~(pending'[v] > 0)
             /\ pending'[v] > 0 \/ filling' = v \/ ready'[v] =>
                    pending[v] > 0 \/ filling = v \/ ready[v]
             /\ pending[v] > 0 \/ filling = v \/ ready[v] =>
                    pending'[v] > 0 \/ filling' = v \/ ready'[v] \/ (v \in PushedList /\ ~online)
             /\ ready[v] => ready'[v]
             /\ pending'[v] <= 1
    <2>1. /\ ready[v] => ~(pending[v] > 0) /\ filling # v
          /\ filling = v => ~(pending[v] > 0)
          /\ pending[v] <= 1 /\ pending[v] \in Nat
        BY Waits
    <2>2. CASE v = w
        <3>1. pending'[v] = 0 BY <1>1, <2>1, <2>2
        <3>2. ~ready[v] /\ filling # v BY <2>1, <2>2
        <3>3. ready'[v] => filling' # v BY <1>1, <2>2, <3>2
        <3>4. filling' = v \/ ready'[v] \/ (v \in PushedList /\ ~online) BY <1>1, <2>2
        <3> QED BY <2>2, <3>1, <3>2, <3>3, <3>4
    <2>3. CASE v # w
        <3>1. pending'[v] = pending[v] /\ ready'[v] = ready[v] BY <1>1, <2>3
        <3>2. filling' = v <=> filling = v BY <1>1, <2>3
        <3> QED BY <2>1, <3>1, <3>2
    <2> QED BY <2>2, <2>3
<1> QED BY <1>1, <1>2, <1>3, ThreadStep

LEMMA AnswerKeeps ==
    ASSUME MainInv, NEW w \in Waiter, ClearList(w) \/ NotifyWaiter(w) \/ IgnoreRequest(w)
    PROVE  MainInv'
<1>1. CASE ClearList(w) BY <1>1, TakenKeeps DEF ClearList
<1>2. CASE NotifyWaiter(w) BY <1>2, TakenKeeps DEF NotifyWaiter
<1>3. CASE IgnoreRequest(w) BY <1>3, TakenKeeps DEF IgnoreRequest
<1> QED BY <1>1, <1>2, <1>3

\* A list that is sent unasked puts its waiter out of step.
LEMMA PushKeeps ==
    ASSUME MainInv, NEW w \in Waiter, ClearPushedList(w)
    PROVE  MainInv'
<1>1. /\ ready \in [Waiter -> BOOLEAN] /\ pending \in [Waiter -> 0..MaxPending]
      /\ online \in BOOLEAN /\ unasked \subseteq PushedList
      /\ PushedList \subseteq ListWaiter /\ NoWaiter \notin Waiter
    BY AnswerTypes
<1>2. /\ filling = NoWaiter /\ filling' = w /\ w \in PushedList /\ unasked' = unasked \cup {w}
      /\ UNCHANGED <<state, todo, ready, online, pending, holder, transfer, requests, picked,
                     removed>>
    BY DEF ClearPushedList
<1>3. \A v \in Waiter \ (unasked' \cup {"files"}) :
        /\ v \in Waiter \ (unasked \cup {"files"})
        /\ filling' # v /\ filling # v
    BY <1>1, <1>2
<1>4. \A v \in Waiter \ (unasked \cup {"files"}) :
        (ready[v] => ~(pending[v] > 0)) /\ pending[v] <= 1
    BY Waits
<1> QED BY <1>1, <1>2, <1>3, <1>4, ThreadStep

LEMMA FillKeeps ==
    ASSUME MainInv, FillList
    PROVE  MainInv'
<1>1. /\ ready \in [Waiter -> BOOLEAN] /\ pending \in [Waiter -> 0..MaxPending]
      /\ online \in BOOLEAN /\ filling \in ListWaiter \cup {NoWaiter}
      /\ unasked \subseteq PushedList /\ NoWaiter \notin Waiter /\ ListWaiter \subseteq Waiter
    BY AnswerTypes
<1>2. /\ filling # NoWaiter /\ filling' = NoWaiter /\ ready' = [ready EXCEPT ![filling] = TRUE]
      /\ UNCHANGED <<state, todo, online, pending, unasked, holder, transfer, requests, picked,
                     removed>>
    BY DEF FillList
<1>3. ready' \in [Waiter -> BOOLEAN] BY <1>1, <1>2
<1>4. ASSUME NEW v \in Waiter \ (unasked \cup {"files"})
      PROVE  /\ ready'[v] => ~(pending[v] > 0)
             /\ ready'[v] <=> (filling = v \/ ready[v])
             /\ pending[v] <= 1 /\ filling' # v
    <2>1. ready'[v] <=> (filling = v \/ ready[v]) BY <1>1, <1>2
    <2> QED BY <1>1, <1>2, <2>1, Waits
<1> QED BY <1>1, <1>2, <1>3, <1>4, ThreadStep

\* The user goes into the table while the client waits for the answer to its login.
LEMMA OnlineKeeps ==
    ASSUME MainInv, GoOnline \/ GoOffline
    PROVE  MainInv'
<1>1. /\ ready \in [Waiter -> BOOLEAN] /\ pending \in [Waiter -> 0..MaxPending]
      /\ filling \in ListWaiter \cup {NoWaiter} /\ unasked \subseteq PushedList
    BY AnswerTypes
<1>2. /\ UNCHANGED <<state, todo, ready, pending, filling, unasked, holder, transfer,
                     requests, picked, removed>>
      /\ online' \in BOOLEAN
      /\ online' => pending["login"] > 0
    BY DEF GoOnline, GoOffline
<1>3. "login" \in Waiter \ (unasked \cup {"files"}) /\ "login" \notin PushedList
    BY <1>1 DEF Waiter, PushedList
<1>4. pending["login"] > 0 => (At("wait") \/ At("reset")) /\ Arg = "login"
    BY <1>3 DEF MainInv, OneRequest, Single, InStep
<1>5. \A v \in PushedList : online' => ~((At("wait") \/ At("reset")) /\ Arg = v)
    BY <1>2, <1>3, <1>4
<1>6. \A v \in Waiter \ (unasked \cup {"files"}) :
        /\ ready[v] => ~(pending[v] > 0) /\ filling # v
        /\ filling = v => ~(pending[v] > 0)
        /\ pending[v] <= 1
    BY Waits
<1> QED BY <1>1, <1>2, <1>5, <1>6, ThreadStep

\* A new request comes behind those that are shown.
LEMMA HandleRequestKeeps ==
    ASSUME MainInv, NEW k \in Kind, NEW a \in Applicant, HandleRequest(k, a)
    PROVE  MainInv'
<1> USE DEF HandleRequest
<1>1. /\ UNCHANGED <<state, todo, ready, answerVars, holder, transfer, picked, removed>>
      /\ requests' = [requests EXCEPT ![k] = Append(@, a)]
      /\ Len(requests["friend"]) + Len(requests["group"]) < MaxRequests
    OBVIOUS
<1>2. PanelInv' /\ OneRequest' BY SameProgram
<1>3. /\ requests \in [Kind -> Seq(Applicant)]
      /\ picked.kind \in Kind /\ picked.list \in Seq(Applicant) /\ MaxRequests \in Nat
    BY ClientAssumption DEF MainInv, TypeOK
<1>4. PICK list : list = requests[k] OBVIOUS
<1>5. PICK new : new = Append(list, a) OBVIOUS
<1>6. /\ list \in Seq(Applicant) /\ new \in Seq(Applicant) /\ Len(new) = Len(list) + 1
      /\ Len(list) \in Nat /\ \A i \in 1 .. Len(list) : new[i] = list[i]
    BY <1>1, <1>3, <1>4, <1>5
<1>7. requests' = [requests EXCEPT ![k] = new] BY <1>1, <1>4, <1>5
<1>8. /\ requests' \in [Kind -> Seq(Applicant)]
      /\ Len(requests'["friend"]) + Len(requests'["group"]) <= MaxRequests
    <2>1. requests' \in [Kind -> Seq(Applicant)] BY <1>3, <1>6, <1>7
    <2>2. Len(requests["friend"]) \in Nat /\ Len(requests["group"]) \in Nat
        BY <1>3, LenProperties DEF Kind
    <2>3. /\ Len(requests["friend"]) + Len(requests["group"]) < MaxRequests
          /\ MaxRequests \in Nat
        BY <1>1, <1>3
    <2>4. CASE k = "friend"
        <3>1. /\ Len(requests'["friend"]) = Len(requests["friend"]) + 1
              /\ Len(requests'["group"]) = Len(requests["group"])
              /\ Len(requests'["friend"]) \in Nat
            BY <1>3, <1>4, <1>6, <1>7, <2>2, <2>4 DEF Kind
        <3>2. Len(requests'["friend"]) + Len(requests'["group"]) <= MaxRequests
            BY ONLY <2>2, <2>3, <3>1, BothLists
        <3> QED BY <2>1, <3>2
    <2>5. CASE k = "group"
        <3>1. /\ Len(requests'["group"]) = Len(requests["group"]) + 1
              /\ Len(requests'["friend"]) = Len(requests["friend"])
              /\ Len(requests'["group"]) \in Nat
            BY <1>3, <1>4, <1>6, <1>7, <2>2, <2>5 DEF Kind
        <3>2. Len(requests'["friend"]) + Len(requests'["group"]) <= MaxRequests
            BY ONLY <2>2, <2>3, <3>1, BothLists
        <3> QED BY <2>1, <3>2
    <2>6. k = "friend" \/ k = "group" BY DEF Kind
    <2> QED BY <2>4, <2>5, <2>6
<1>9. TypeOK'
    <2>1. TypeOK BY DEF MainInv
    <2> QED BY ONLY <1>1, <1>8, <2>1 DEF TypeOK, answerVars
<1>10. StillShown => StillShown'
    <2>1. CASE picked.kind = k
        <3>1. requests'[picked.kind] = new /\ requests[picked.kind] = list
            BY <1>3, <1>4, <1>7, <2>1
        <3>2. Len(picked.list) \in Nat BY <1>3, LenProperties
        <3>3. picked' = picked BY <1>1
        <3> QED BY <1>6, <3>1, <3>2, <3>3 DEF StillShown
    <2>2. CASE picked.kind # k
        <3>1. requests'[picked.kind] = requests[picked.kind] BY <1>3, <1>7, <2>2
        <3>2. picked' = picked BY <1>1
        <3> QED BY <3>1, <3>2 DEF StillShown
    <2> QED BY <2>1, <2>2
<1>11. PickInv'
    <2>1. PickInv BY DEF MainInv
    <2>2. Plain(todo)' \/ \E j \in Kind : Handling(j)' BY <1>1, <2>1 DEF PickInv, Handling
    <2>3. removed' => picked'.kind = "group" BY <1>1, <2>1 DEF PickInv
    <2>4. removed' \/ At("show")' \/ StillShown' BY <1>1, <1>10, <2>1 DEF PickInv, At
    <2> QED BY <2>2, <2>3, <2>4 DEF PickInv
<1> QED BY <1>2, <1>9, <1>11 DEF MainInv

\* Only requests for a place in a group are removed.
LEMMA RemoveKeeps ==
    ASSUME MainInv, NEW a \in Applicant, HandleGroupRequestRemove(a)
    PROVE  MainInv'
<1> USE DEF HandleGroupRequestRemove
<1>1. /\ UNCHANGED <<state, todo, ready, answerVars, holder, transfer, picked>>
      /\ requests' = [requests EXCEPT !["group"] = Without(@, a)]
      /\ removed' = (picked.kind = "group")
    OBVIOUS
<1>2. PanelInv' /\ OneRequest' BY SameProgram
<1>3. "group" \in Kind BY DEF Kind
<1>4. /\ requests' \in [Kind -> Seq(Applicant)]
      /\ Len(requests'["friend"]) + Len(requests'["group"]) <= MaxRequests
    BY <1>1, <1>3, RequestsWithout DEF MainInv
<1>5. removed' \in BOOLEAN BY ONLY <1>1, Zenon
<1>6. TypeOK' BY <1>1, <1>4, <1>5 DEF MainInv, TypeOK, answerVars
<1>7. PickInv'
    <2>1. PickInv /\ picked.kind \in Kind /\ requests \in [Kind -> Seq(Applicant)]
        BY DEF MainInv, TypeOK
    <2>2. Plain(todo)' \/ \E j \in Kind : Handling(j)'
        <3>1. Plain(todo) \/ \E j \in Kind : Handling(j) BY <2>1 DEF PickInv
        <3>2. todo' = todo /\ picked' = picked BY ONLY <1>1
        <3>3. \A j \in Kind : Handling(j) => Handling(j)' BY ONLY <3>2 DEF Handling
        <3> QED BY <3>1, <3>2, <3>3
    <2>3. removed' => picked'.kind = "group" BY <1>1
    <2>4. ASSUME picked.kind # "group" PROVE At("show")' \/ StillShown'
        <3>1. requests'[picked.kind] = requests[picked.kind] BY <1>1, <2>1, <2>4
        <3>2. ~removed BY <2>1, <2>4 DEF PickInv
        <3>3. At("show") \/ StillShown BY <2>1, <3>2 DEF PickInv
        <3>4. StillShown => StillShown' BY <1>1, <3>1 DEF StillShown
        <3>5. At("show") => At("show")' BY <1>1 DEF At
        <3> QED BY <3>3, <3>4, <3>5
    <2> QED BY <1>1, <2>2, <2>3, <2>4 DEF PickInv
<1> QED BY <1>2, <1>6, <1>7 DEF MainInv

LEMMA AnnounceKeeps ==
    ASSUME MainInv, NEW t \in Transfer, AnnounceLook(t) \/ AnnounceEnd(t)
    PROVE  MainInv'
<1>1. UNCHANGED <<state, todo, ready, answerVars, requests, picked, removed>>
    BY DEF AnnounceLook, AnnounceEnd
<1>2. /\ transfer \in [Transfer -> {"none", "running", "looking"}]
      /\ holder \in [Kind -> {"nobody", "main", "transfer"}]
    BY DEF MainInv, TypeOK
<1>3. PICK k : k = PeerKind[t] OBVIOUS
<1>4. k \in Kind BY <1>3, ClientAssumption
<1>5. /\ holder' \in [Kind -> {"nobody", "main", "transfer"}]
      /\ \A j \in Kind : holder'[j] = "main" => holder[j] = "main"
      /\ transfer' \in [Transfer -> {"none", "running", "looking"}]
    <2>1. CASE AnnounceLook(t)
        <3>1. /\ holder' = [holder EXCEPT ![k] = "transfer"]
              /\ transfer' = [transfer EXCEPT ![t] = "looking"]
            BY <1>3, <2>1 DEF AnnounceLook
        <3> QED BY <1>2, <1>4, <3>1
    <2>2. CASE AnnounceEnd(t)
        <3>1. /\ holder' = [holder EXCEPT ![k] = "nobody"]
              /\ transfer' = [transfer EXCEPT ![t] = "none"]
            BY <1>3, <2>2 DEF AnnounceEnd
        <3> QED BY <1>2, <1>4, <3>1
    <2> QED BY <2>1, <2>2
<1>6. PanelInv' /\ PickInv' /\ OneRequest' BY <1>1, <1>5, SameProgram
<1>7. TypeOK' BY <1>1, <1>5 DEF MainInv, TypeOK, answerVars
<1> QED BY <1>6, <1>7 DEF MainInv
-----------------------------------------------------------------------------
(* The theorems. *)

LEMMA MainInvInductive == MainInv /\ [Next]_vars => MainInv'
<1> SUFFICES ASSUME MainInv, [Next]_vars PROVE MainInv' OBVIOUS
<1>1. CASE MainStep \/ Choose("prompt")
    BY <1>1, MainLoopKeeps, ChooseKeeps, GotoKeeps, AskKeeps, LockKeeps, UnlockKeeps,
       CheckKeeps, UploadKeeps, ShowOrPickKeeps, RespondKeeps
    DEF MainStep
<1>2. CASE AnswerStep \/ FillList \/ (\E w \in Waiter : ClearPushedList(w)) \/ GoOnline \/ GoOffline
    BY <1>2, AnswerKeeps, FillKeeps, PushKeeps, OnlineKeeps DEF AnswerStep
<1>3. CASE \/ \E k \in Kind : \E a \in Asking[k] : HandleRequest(k, a)
           \/ \E a \in Applicant : HandleGroupRequestRemove(a)
    <2>1. \A k \in Kind : Asking[k] \subseteq Applicant BY ClientAssumption
    <2> QED BY <1>3, <2>1, RemoveKeeps, HandleRequestKeeps
<1>4. CASE \E t \in Transfer : AnnounceLook(t) \/ AnnounceEnd(t) BY <1>4, AnnounceKeeps
<1>5. CASE UNCHANGED vars
    <2>1. PanelInv' /\ PickInv' /\ OneRequest' BY <1>5, SameProgram DEF vars
    <2>2. TypeOK' BY <1>5 DEF vars, MainInv, TypeOK, answerVars
    <2> QED BY <2>1, <2>2 DEF MainInv
<1> QED BY <1>1, <1>2, <1>3, <1>4, <1>5 DEF Next

\* The lists are asked for before their mutexes are taken, and their answers awaited.
LEMMA WholeLists == MainInv => PanelReadsWhole
<1> SUFFICES ASSUME MainInv, NEW k \in Kind, Reads(k), filling = List(k), List(k) \notin unasked
             PROVE  FALSE
    BY DEF PanelReadsWhole
<1>1. todo \in Seq(Instr) BY DEF MainInv, TypeOK
<1>2. List(k) \in {"friends", "groups"} /\ List(k) \in Waiter \ (unasked \cup {"files"})
    BY DEF List, Waiter, ListWaiter
<1>3. (At("wait") \/ At("reset")) /\ Arg = List(k)
    BY <1>2 DEF MainInv, OneRequest, Single, InStep
<1>4. holder[k] = "main" /\ Released(k, todo)
    BY <1>3 DEF Reads, At, MainInv, PanelInv
<1>5. PICK s : s = todo OBVIOUS
<1>6. s \in Seq(Instr) /\ s # <<>> /\ Released(k, s) BY <1>1, <1>3, <1>4, <1>5 DEF At
<1>7. Head(s) = s[1] /\ 1 \in 1 .. Len(s) BY <1>6
<1>8. s[1].op \in {"wait", "reset"} /\ s[1].arg = List(k) BY <1>3, <1>5, <1>7 DEF At, Arg
<1>9. PICK j \in 1 .. Len(s) :
        s[j] = Op("unlock", k) /\ \A i \in 1 .. Len(s) : i < j => ~AsksForList(s[i])
    BY <1>6 DEF Released
<1>10. AsksForList(s[1]) BY <1>2, <1>8 DEF AsksForList
<1>11. j = 1 BY <1>7, <1>9, <1>10
<1> QED BY <1>8, <1>9, <1>11 DEF Op

\* The screens, the answers and the lists of the client (Controller.cc, base.h:60-86):
\* an answer that is taken is the answer to the last request, and the main thread reads
\* no list that is being rebuilt, but for lists that have come unasked.
THEOREM ClientSafe == Spec => []ClientInv
<1>1. MainInv => ClientInv BY WholeLists DEF MainInv, OneRequest, Single, AnswersAreOwn, ClientInv
<1> QED BY <1>1, Initially, MainInvInductive, PTL DEF Spec

\* The request that is answered is the one that was picked from the list, unless one
\* has been removed since (Controller.cc:735-766, 800-820).
THEOREM PickedRight == Spec => []PickedIsAnswered
<1>1. ASSUME MainInv PROVE PickedIsAnswered
    <2> SUFFICES ASSUME At("respond"), ~removed
                 PROVE  /\ picked.index \in DOMAIN requests[Arg]
                        /\ requests[Arg][picked.index] = picked.list[picked.index]
        BY DEF PickedIsAnswered
    <2>1. todo # <<>> /\ Head(todo).op = "respond" BY DEF At
    <2>2. PICK k \in Kind : Handling(k) BY <1>1, <2>1, PlainOrHandling DEF Handles
    <2>3. Arg = k /\ picked.kind = k /\ picked.index \in DOMAIN picked.list
        BY <1>1, <2>1, <2>2, HandlingAt
    <2>4. StillShown BY <1>1, <2>1 DEF MainInv, PickInv, At
    <2>5. picked.list \in Seq(Applicant) /\ requests[k] \in Seq(Applicant)
        BY <1>1 DEF MainInv, TypeOK
    <2>6. picked.index \in 1 .. Len(picked.list) BY <2>3, <2>5
    <2> QED BY <2>3, <2>4, <2>5, <2>6 DEF StillShown
<1> QED BY <1>1, Initially, MainInvInductive, PTL DEF Spec
=============================================================================
