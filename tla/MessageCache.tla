---------------------------- MODULE MessageCache ----------------------------
(***************************************************************************)
(* The message history: Chatter and GroupChatter push every message to a   *)
(* list of Redis, the base loop's timer moves the lists into MySQL         *)
(* (insertFromRedis), GroupExiter deletes what belongs to a group that its *)
(* owner dissolves, and AccountKiller the row of a sender.  Each Redis     *)
(* command and each SQL statement is one step.  The server may die between *)
(* any two steps and be started again; Redis and MySQL keep what they      *)
(* have.                                                                   *)
(***************************************************************************)
EXTENDS Naturals, Sequences, FiniteSets, Selection

CONSTANTS PrivateMsg, GroupMsg,
          Group, GroupOf,  \* the group of each group message
          User, SenderOf,  \* the sender of each group message
          MemberCount,     \* the members of each group, its owner included
          BatchLimit,      \* how many entries one lrange returns
          MaxCrashes       \* bound on the crashes

Msg == PrivateMsg \cup GroupMsg

ASSUME MsgAssumption   == PrivateMsg \cap GroupMsg = {}
ASSUME GroupAssumption == GroupOf \in [GroupMsg -> Group] /\ SenderOf \in [GroupMsg -> User]
ASSUME CountAssumption ==
    MemberCount \in Nat \ {0} /\ BatchLimit \in Nat \ {0} /\ MaxCrashes \in Nat

VARIABLES
    task,        \* of each message: "unsent", "refused", "pushing", "over"
    left,        \* how often an accepted task still has to push its message
    list,        \* Redis's lists messages and group_messages, left end first
    rows,        \* the rows of MySQL's tables of the same names
    cached,      \* the groups with a set group:g in Redis
    filling,     \* initCache: "select" before it has read group_members, then
                 \* the groups that it has still to put into Redis
    members,     \* the groups with rows in group_members
    groups,      \* the groups with a row in `groups`
    dissolve,    \* what GroupExiter has deleted of each group: "no", "cache",
                 \* "members", "messages", then "over", or "cut" off by a crash
    users,       \* the senders with a row in users
    flush,       \* where insertFromRedis stands
    running,     \* the server process runs
    crashes      \* how often it has died

taskVars  == <<task, left>>
groupVars == <<cached, filling, members, groups, dissolve, users>>
vars == <<taskVars, list, rows, groupVars, flush, running, crashes>>

Table == {"messages", "group_messages"}
TableOf(m) == IF m \in PrivateMsg THEN "messages" ELSE "group_messages"

Idle     == [at |-> "idle"]
Between  == [at |-> "next"]

Init ==
    /\ task = [m \in Msg |-> "unsent"]
    /\ left = [m \in Msg |-> 0]
    /\ list = [t \in Table |-> <<>>]
    /\ rows = [t \in Table |-> <<>>]
    /\ cached = Group
    /\ filling = [at |-> "fill", groups |-> {}]
    /\ members = Group
    /\ groups = Group
    /\ dissolve = [g \in Group |-> "no"]
    /\ users = User
    /\ flush = Idle
    /\ running = TRUE
    /\ crashes = 0
-----------------------------------------------------------------------------
(* The tasks that store a message. *)

\* Chatter: one push.
ChatAccept(m) ==
    /\ running
    /\ m \in PrivateMsg /\ task[m] = "unsent"
    /\ task' = [task EXCEPT ![m] = "pushing"]
    /\ left' = [left EXCEPT ![m] = 1]
    /\ UNCHANGED <<list, rows, groupVars, flush, running, crashes>>

\* GroupChatter: sismember and smembers (a set that is deleted between the two
\* might as well be deleted before), then one push for every member.  Who is in a
\* set that is there is left open: members come and go (Relations).
GroupAccept(m) ==
    /\ running
    /\ m \in GroupMsg /\ task[m] = "unsent"
    /\ \/ /\ GroupOf[m] \in cached
          /\ task' = [task EXCEPT ![m] = "pushing"]
          /\ left' = [left EXCEPT ![m] = MemberCount]
       \/ task' = [task EXCEPT ![m] = "refused"] /\ UNCHANGED left
    /\ UNCHANGED <<list, rows, groupVars, flush, running, crashes>>

\* Seeded bug: the task does not stop at the last member.
PushForever(m) ==
    /\ running
    /\ task[m] = "pushing"
    /\ list' = [list EXCEPT ![TableOf(m)] = Append(@, m)]
    /\ left' = [left EXCEPT ![m] = @ - 1]
    /\ UNCHANGED <<task, rows, groupVars, flush, running, crashes>>

\* rpush
Push(m) ==
    /\ running
    /\ task[m] = "pushing"
    /\ list' = [list EXCEPT ![TableOf(m)] = Append(@, m)]
    /\ left' = [left EXCEPT ![m] = @ - 1]
    /\ task' = IF left[m] = 1 THEN [task EXCEPT ![m] = "over"] ELSE task
    /\ UNCHANGED <<rows, groupVars, flush, running, crashes>>
-----------------------------------------------------------------------------
(* insertFromRedis, run by the base loop every 2 seconds. *)

FirstEntries(s, n) == IF Len(s) <= n THEN s ELSE SubSeq(s, 1, n)

Read(t) ==
    flush' = [at |-> "read", table |-> t, batch |-> FirstEntries(list[t], BatchLimit)]

\* lrange: the messages first, then the group messages.
ReadList ==
    /\ running
    /\ \/ flush.at = "idle" /\ Read("messages")
       \/ flush.at = "next" /\ Read("group_messages")
    /\ UNCHANGED <<taskVars, list, rows, groupVars, running, crashes>>

\* After the messages the group messages, after those the next timer event.
Proceed == flush' = IF flush.table = "messages" THEN Between ELSE Idle

\* A row of group_messages refers to one of `groups` and one of users.
Storable(batch) ==
    \A i \in DOMAIN batch :
        batch[i] \in GroupMsg => GroupOf[batch[i]] \in groups /\ SenderOf[batch[i]] \in users

\* insertList: one INSERT statement, all of it or nothing.
Insert ==
    /\ running
    /\ flush.at = "read"
    /\ Storable(flush.batch)
    /\ rows' = [rows EXCEPT ![flush.table] = @ \o flush.batch]
    /\ flush' = [flush EXCEPT !.at = "inserted"]
    /\ UNCHANGED <<taskVars, list, groupVars, running, crashes>>

\* Seeded bug: the batch is kept and tried again until MySQL takes it.
InsertFailsRetries ==
    /\ running
    /\ flush.at = "read"
    /\ flush.batch # <<>>
    /\ UNCHANGED vars

\* It fails: a row refers to no group or user, or MySQL cannot take it now.
InsertFails ==
    /\ running
    /\ flush.at = "read"
    /\ flush.batch # <<>>
    /\ Proceed
    /\ UNCHANGED <<taskVars, list, rows, groupVars, running, crashes>>

\* Seeded bug: the list is deleted after it has been stored.
TrimAll ==
    /\ running
    /\ flush.at = "inserted"
    /\ list' = [list EXCEPT ![flush.table] = <<>>]
    /\ Proceed
    /\ UNCHANGED <<taskVars, rows, groupVars, running, crashes>>

\* Seeded bug: ltrim from lrange's limit, not from the size of the batch.
TrimLimit ==
    /\ running
    /\ flush.at = "inserted"
    /\ list' = [list EXCEPT ![flush.table] = SubSeq(@, BatchLimit + 1, Len(@))]
    /\ Proceed
    /\ UNCHANGED <<taskVars, rows, groupVars, running, crashes>>

\* ltrim from messages.size() to the end.
Trim ==
    /\ running
    /\ flush.at = "inserted"
    /\ list' = [list EXCEPT ![flush.table] = SubSeq(@, Len(flush.batch) + 1, Len(@))]
    /\ Proceed
    /\ UNCHANGED <<taskVars, rows, groupVars, running, crashes>>
-----------------------------------------------------------------------------
(* GroupExiter, called by the group's owner, or for him by AccountKiller. *)

DissolveStep(g, from, to) ==
    /\ running
    /\ dissolve[g] = from
    /\ dissolve' = [dissolve EXCEPT ![g] = to]

DissolveCache(g) ==
    /\ DissolveStep(g, "no", "cache")
    /\ g \in members
    /\ cached' = cached \ {g}
    /\ UNCHANGED <<taskVars, list, rows, filling, members, groups, users, flush,
                   running, crashes>>

DissolveMembers(g) ==
    /\ DissolveStep(g, "cache", "members")
    /\ members' = members \ {g}
    /\ UNCHANGED <<taskVars, list, rows, cached, filling, groups, users, flush,
                   running, crashes>>

\* DELETE FROM group_messages WHERE group_id = g
Without(s, g) == Selected(s, {i \in DOMAIN s : GroupOf[s[i]] # g})

DissolveMessages(g) ==
    /\ DissolveStep(g, "members", "messages")
    /\ rows' = [rows EXCEPT !["group_messages"] = Without(@, g)]
    /\ UNCHANGED <<taskVars, list, cached, filling, members, groups, users, flush,
                   running, crashes>>

\* The row stays when a stored message refers to it; nobody looks.
DissolveGroup(g) ==
    /\ DissolveStep(g, "messages", "over")
    /\ LET stored == rows["group_messages"] IN
       groups' = IF \E i \in DOMAIN stored : GroupOf[stored[i]] = g
                 THEN groups ELSE groups \ {g}
    /\ UNCHANGED <<taskVars, list, rows, cached, filling, members, users, flush,
                   running, crashes>>
-----------------------------------------------------------------------------
(* AccountKiller, called by a sender of group messages: its last statement. *)

\* DELETE FROM users: refused while a stored group message refers to him, or a row
\* of another table.
DeleteUser(u) ==
    /\ running
    /\ u \in users
    /\ \A i \in DOMAIN rows["group_messages"] : SenderOf[rows["group_messages"][i]] # u
    /\ users' = users \ {u}
    /\ UNCHANGED <<taskVars, list, rows, cached, filling, members, groups, dissolve, flush,
                   running, crashes>>
-----------------------------------------------------------------------------
(* The process. *)

\* All tasks are lost with it.  A handler that got as far as group_members
\* cannot be called again, as the owner is not a member any more.
Crash ==
    /\ running
    /\ crashes < MaxCrashes
    /\ crashes' = crashes + 1
    /\ running' = FALSE
    /\ task' = [m \in Msg |-> IF task[m] = "pushing" THEN "over" ELSE task[m]]
    /\ dissolve' = [g \in Group |-> CASE dissolve[g] = "cache" -> "no"
                                      [] dissolve[g] \in {"members", "messages"} -> "cut"
                                      [] OTHER -> dissolve[g]]
    /\ flush' = Idle
    /\ UNCHANGED <<left, list, rows, cached, filling, members, groups, users>>

\* start() hands initCache to the pool.
Restart ==
    /\ ~running
    /\ running' = TRUE
    /\ filling' = [at |-> "select"]
    /\ UNCHANGED <<taskVars, list, rows, cached, members, groups, dissolve, users, flush,
                   crashes>>

\* initCache: one select, and one sadd after the other, long after it perhaps.
SelectMembers ==
    /\ running
    /\ filling.at = "select"
    /\ filling' = [at |-> "fill", groups |-> members]
    /\ UNCHANGED <<taskVars, list, rows, cached, members, groups, dissolve, users, flush,
                   running, crashes>>

FillGroup(g) ==
    /\ running
    /\ filling.at = "fill" /\ g \in filling.groups
    /\ filling' = [filling EXCEPT !.groups = @ \ {g}]
    /\ cached' = cached \cup {g}
    /\ UNCHANGED <<taskVars, list, rows, members, groups, dissolve, users, flush,
                   running, crashes>>
-----------------------------------------------------------------------------
FlushStep == ReadList \/ Insert \/ InsertFails \/ Trim

Next ==
    \/ \E m \in Msg : ChatAccept(m) \/ GroupAccept(m) \/ Push(m)
    \/ FlushStep
    \/ \E g \in Group : \/ DissolveCache(g) \/ DissolveMembers(g)
                        \/ DissolveMessages(g) \/ DissolveGroup(g)
    \/ \E u \in User : DeleteUser(u)
    \/ Crash \/ Restart \/ SelectMembers \/ \E g \in Group : FillGroup(g)

Spec == Init /\ [][Next]_vars

\* The timer goes off again and again, MySQL takes a batch that it can take if it
\* is asked often enough, tasks run, and a server that died is started again.
Fairness ==
    /\ WF_vars(FlushStep)
    /\ \A t \in Table : SF_vars(Insert /\ flush.table = t)
    /\ \A m \in Msg : WF_vars(Push(m))
    /\ WF_vars(Restart)

FairSpec == Spec /\ Fairness
-----------------------------------------------------------------------------
\* The shape of the lists, tables and tasks: no task pushes a message more often
\* than there are members of its group.
TypeOK ==
    /\ task \in [Msg -> {"unsent", "refused", "pushing", "over"}]
    /\ left \in [Msg -> 0..MemberCount]
    /\ list \in [Table -> Seq(Msg)]
    /\ rows \in [Table -> Seq(Msg)]
    /\ cached \subseteq Group /\ members \subseteq Group /\ groups \subseteq Group
    /\ users \subseteq User
    /\ filling \in [at : {"select"}] \cup [at : {"fill"}, groups : SUBSET Group]
    /\ dissolve \in [Group -> {"no", "cache", "members", "messages", "over", "cut"}]
    /\ flush \in {Idle, Between}
                   \cup [at : {"read", "inserted"}, table : Table, batch : Seq(Msg)]
    /\ running \in BOOLEAN
    /\ crashes \in 0..MaxCrashes

Times(m, s) == Cardinality({i \in DOMAIN s : s[i] = m})

Pushed(m) == IF task[m] \in {"pushing", "over"} THEN MemberCount - left[m] ELSE 0

\* Whatever fails or dies between reading a batch and trimming it, and however
\* many pushes come in between, no push of a group message is lost before its
\* group's messages are deleted.
KeptUnlessDissolved ==
    \A m \in GroupMsg :
        dissolve[GroupOf[m]] \in {"no", "cache", "members"}
            => Pushed(m) <= Times(m, list["group_messages"]) + Times(m, rows["group_messages"])

\* A batch of private messages is still at the head of its list when it is inserted, and
\* when it is trimmed, although messages are pushed in between (Service.cc:222, 233, 238).
BatchStands ==
    flush.at \in {"read", "inserted"} /\ flush.table = "messages" =>
        LET b == flush.batch
            l == list["messages"]
            r == rows["messages"] IN
        /\ Len(b) <= Len(l) /\ \A i \in 1..Len(b) : b[i] = l[i]
        /\ flush.at = "inserted" =>
              Len(b) <= Len(r) /\ \A i \in 1..Len(b) : b[i] = r[Len(r) - Len(b) + i]

\* What TLC checks in every state.
CacheInv == TypeOK /\ BatchStands /\ KeptUnlessDissolved

\* The stored messages followed by those that are still to be stored: a batch
\* that is in both places counts once.
Log ==
    rows["messages"] \o
        IF flush.at = "inserted" /\ flush.table = "messages"
        THEN SubSeq(list["messages"], Len(flush.batch) + 1, Len(list["messages"]))
        ELSE list["messages"]

PrivateHistory == INSTANCE History WITH Msg <- PrivateMsg, log <- Log

\* To readers of the table, flushing is invisible: every private message once and
\* in the order of the pushes, but for batches that a crash repeats.
ImplementsHistory == PrivateHistory!HSpec

\* README.md:54: what Redis keeps for MySQL is inserted by the timer.  A private message
\* that waits is stored, also when the batches of group messages fail for ever; a group
\* message is, unless there is one of a group that has been dissolved or of a sender
\* whose account has been destroyed: that one fails every batch from then on
\* (Service.cc:247, init.sql:117-118).
CachedIsStored ==
    /\ \A m \in PrivateMsg :
          Times(m, list["messages"]) > 0 ~> Times(m, rows["messages"]) > 0
    /\ \A m \in GroupMsg :
          Times(m, list["group_messages"]) > 0 ~>
              \/ Times(m, list["group_messages"]) = 0
              \/ ~Storable(list["group_messages"])
=============================================================================
