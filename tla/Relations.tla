------------------------------ MODULE Relations ------------------------------
(***************************************************************************)
(* Who is whose friend and who is in which group: the handlers of          *)
(* src/server/handler/Friend.cc and Group.cc, and AccountKiller.  MySQL    *)
(* holds the tables, Redis a copy of two of them (friends:u, group:g) and  *)
(* the black lists.                                                        *)
(*                                                                         *)
(* A handler is a program: what it reads in the beginning is one step,     *)
(* which decides on the commands that follow, and each Redis command and   *)
(* each SQL statement is a step of its own.  There are no transactions,    *)
(* and nobody looks whether a statement has succeeded: one that breaks a   *)
(* foreign key of init.sql changes nothing.                                *)
(*                                                                         *)
(* Left out: the lists that are only sent (FriendLister, GroupLister,      *)
(* GroupInfoSender), the notices of a rejection (Chatter, in ChatSession), *)
(* and the system user.                                                    *)
(***************************************************************************)
EXTENDS Naturals, Sequences, SequencesExt

CONSTANTS User, Group,
          Scenario,   \* sets of requests: clients make those of one set, each once
          Worker      \* the workers of the pool

Request == UNION Scenario
Role    == {"member", "admin", "owner"}

\* What the handlers take from a message.
Message ==
    [do : {"FriendAdder", "FriendDeleter", "FriendBlocker", "FriendUnblocker"},
     by : User, to : User]
      \cup [do : {"FriendAddResponser"}, by : User, to : User, accept : BOOLEAN]
      \cup [do : {"GroupCreater", "GroupAdder", "GroupExiter", "GroupChatter"},
            by : User, group : Group]
      \cup [do : {"MemberKicker", "AdminAdder", "AdminRemover"},
            by : User, to : User, group : Group]
      \cup [do : {"GroupAddResponser"}, by : User, to : User, group : Group, accept : BOOLEAN]
      \cup [do : {"AccountKiller"}, by : User]

\* A group is the id that MySQL gives the row of one creation, and no other.
ASSUME ScenarioAssumption ==
    /\ \A S \in Scenario : S \subseteq Message
    /\ \A S \in Scenario : \A r, q \in S :
          r.do = "GroupCreater" /\ q.do = "GroupCreater" /\ r.group = q.group => r = q
ASSUME FiniteAssumption == IsFiniteSet(User) /\ IsFiniteSet(Group)

VARIABLES
    mysql,      \* the tables, each a set of rows
    redis,      \* the sets, each a set of pairs <<key, member>>
    inbox,      \* the requests that each user's client shows
    wanted,     \* the requests that clients may still make
    task,       \* what each worker has to do: the commands left of a request
    clash,      \* the friendships and memberships that two tasks worked on at a time
    died        \* a handler took row 0 of an empty result

relationsVars == <<mysql, redis, inbox, wanted, task, clash, died>>

Idle == [todo |-> <<>>]
Open == {k \in Worker : task[k] # Idle}

RelationsInit ==
    /\ mysql = [users |-> User, friends |-> {}, friend_requests |-> {}, groups |-> {},
                group_requests |-> {}, group_members |-> {}, group_messages |-> {}]
    /\ redis = [friends |-> {}, group |-> {}, blacklist |-> {}]
    /\ inbox = [u \in User |-> {}]
    /\ wanted \in Scenario
    /\ task = [k \in Worker |-> Idle]
    /\ clash = {}
    /\ died = FALSE
-----------------------------------------------------------------------------
(* Redis commands and SQL statements. *)

Sadd(set, key, member)    == [do |-> "sadd", set |-> set, pair |-> <<key, member>>]
Srem(set, key, member)    == [do |-> "srem", set |-> set, pairs |-> {<<key, member>>}]
Del(set, key)             == [do |-> "srem", set |-> set, pairs |-> {key} \X User]
Insert(table, row)        == [do |-> "insert", table |-> table, row |-> row]
Delete(table, rows)       == [do |-> "delete", table |-> table, rows |-> rows]
SetRole(g, u, role)       == [do |-> "update", group |-> g, user |-> u, role |-> role]

\* The rows of group_members for a user of a group.
Member(g, u) == {g} \X {u} \X Role

\* The foreign keys of init.sql.
Sound(db) ==
    /\ db.friends \cup db.friend_requests \subseteq db.users \X db.users
    /\ \A r \in db.groups : r[2] \in db.users
    /\ LET groups == {r[1] : r \in db.groups} IN
       /\ db.group_requests \subseteq db.users \X db.users \X groups
       /\ db.group_members \subseteq groups \X db.users \X Role
       /\ db.group_messages \subseteq groups \X db.users

\* Seeded bug: the tables are without foreign keys.
StatementUnchecked(db) == db

Statement(db) == IF Sound(db) THEN db ELSE mysql

MysqlAfter(c) ==
    CASE c.do = "insert" -> Statement([mysql EXCEPT ![c.table] = @ \cup {c.row}])
      [] c.do = "delete" -> Statement([mysql EXCEPT ![c.table] = @ \ c.rows])
      [] c.do = "update" -> [mysql EXCEPT !.group_members =
             {IF r[1] = c.group /\ r[2] = c.user THEN <<r[1], r[2], c.role>> ELSE r : r \in @}]
      [] OTHER -> mysql

RedisAfter(c) ==
    CASE c.do = "sadd" -> [redis EXCEPT ![c.set] = @ \cup {c.pair}]
      [] c.do = "srem" -> [redis EXCEPT ![c.set] = @ \ c.pairs]
      [] OTHER -> redis

\* The role in row 0 of a select, or "none".  Of several rows of one member the
\* first has the highest role: a role is changed in all rows there are, and an
\* acceptance adds a plain member.
RoleOf(g, u) ==
    LET roles == {r[3] : r \in {m \in mysql.group_members : m[1] = g /\ m[2] = u}} IN
    IF roles = {} THEN "none"
    ELSE IF "owner" \in roles THEN "owner"
    ELSE IF "admin" \in roles THEN "admin" ELSE "member"

GroupExists(g) == \E r \in mysql.groups : r[1] = g
Admins(g)      == {u \in User : RoleOf(g, u) \in {"admin", "owner"}}
-----------------------------------------------------------------------------
(* The clients. *)

\* The friendships and memberships that a request's task may write.
Touched(r) ==
    CASE r.do \in {"FriendAddResponser", "FriendDeleter"} -> {<<r.by, r.to>>, <<r.to, r.by>>}
      [] r.do = "GroupCreater" -> {<<r.group, r.by>>}
      [] r.do \in {"GroupExiter"} -> {r.group} \X User
      [] r.do \in {"GroupAddResponser", "MemberKicker", "AdminAdder", "AdminRemover"} ->
             {<<r.group, r.to>>}
      [] r.do = "AccountKiller" ->
             ({r.by} \X User) \cup (User \X {r.by}) \cup (Group \X User)
      [] OTHER -> {}

\* The client's menus: friends and members are picked from lists, requests are
\* answered from those that have come in.  (What the menus ask of the two roles
\* the handlers ask again.)
Offered(r) ==
    CASE r.do = "FriendAddResponser" -> <<"friend", r.to>> \in inbox[r.by]
      [] r.do = "GroupAddResponser" -> <<"group", r.group, r.to>> \in inbox[r.by]
      [] r.do \in {"FriendDeleter", "FriendBlocker", "FriendUnblocker"} ->
             <<r.by, r.to>> \in mysql.friends
      [] r.do \in {"GroupExiter", "GroupChatter"} -> RoleOf(r.group, r.by) # "none"
      [] r.do \in {"MemberKicker", "AdminAdder", "AdminRemover"} ->
             /\ RoleOf(r.group, r.by) \in {"admin", "owner"}
             /\ RoleOf(r.group, r.to) # "none"
      [] OTHER -> TRUE

\* The client waits for the answers to these.
Waited == {"FriendAdder", "FriendBlocker", "FriendUnblocker", "GroupAdder"}

\* A user who has asked for the account's removal is logged out.
Waiting(u) ==
    \E k \in Open : task[k].req.by = u /\ task[k].req.do \in Waited \cup {"AccountKiller"}

\* An answered request is taken off the client's list.
Shown(r) ==
    CASE r.do = "FriendAddResponser" -> {<<"friend", r.to>>}
      [] r.do = "GroupAddResponser" -> {<<"group", r.group, r.to>>}
      [] OTHER -> {}

Ask(k, r) ==
    /\ ~died
    /\ r \in wanted
    /\ r.by \in mysql.users /\ ~Waiting(r.by)
    /\ Offered(r)
    /\ task[k] = Idle
    /\ task' = [j \in Worker |->
                   IF j = k THEN [req |-> r, todo |-> <<r>>, alone |-> Open = {}]
                   ELSE IF task[j] = Idle THEN Idle ELSE [task[j] EXCEPT !.alone = FALSE]]
    /\ wanted' = wanted \ {r}
    /\ inbox' = [inbox EXCEPT ![r.by] = @ \ Shown(r)]
    /\ clash' = clash \cup (Touched(r) \cap UNION {Touched(task[j].req) : j \in Open})
    /\ UNCHANGED <<mysql, redis, died>>

\* Loginer: at every login the pending requests are sent again, to a client
\* that has none yet.
Login(u) ==
    /\ ~died
    /\ u \in mysql.users
    /\ inbox' = [inbox EXCEPT ![u] =
                    {<<"friend", r[1]>> : r \in {q \in mysql.friend_requests : q[2] = u}}
                      \cup {<<"group", r[3], r[1]>> : r \in {q \in mysql.group_requests : q[2] = u}}]
    /\ UNCHANGED <<mysql, redis, wanted, task, clash, died>>
-----------------------------------------------------------------------------
(* The workers. *)

FirstOf(k) == Head(task[k].todo)

At(k, do) == ~died /\ task[k] # Idle /\ FirstOf(k).do = do

\* The first command is replaced by others; a task with none left is over.
Become(k, commands) ==
    LET todo == commands \o Tail(task[k].todo) IN
    task' = [task EXCEPT ![k] = IF todo = <<>> THEN Idle ELSE [@ EXCEPT !.todo = todo]]

Continue(k, commands) ==
    Become(k, commands) /\ UNCHANGED <<mysql, redis, inbox, wanted, clash, died>>

Die == died' = TRUE /\ UNCHANGED <<mysql, redis, inbox, wanted, task, clash>>

Execute(k) ==
    /\ ~died /\ task[k] # Idle
    /\ FirstOf(k).do \in {"sadd", "srem", "insert", "delete", "update"}
    /\ mysql' = MysqlAfter(FirstOf(k))
    /\ redis' = RedisAfter(FirstOf(k))
    /\ Become(k, <<>>)
    /\ UNCHANGED <<inbox, wanted, clash, died>>

\* The request is sent to the client if its user is online, and comes up in
\* its list.
Forward(u, what) == [do |-> "forward", user |-> u, what |-> what]

DoForward(k) ==
    /\ At(k, "forward")
    /\ LET c == FirstOf(k) IN
       inbox' \in {inbox, [inbox EXCEPT ![c.user] = @ \cup {c.what}]}
    /\ Become(k, <<>>)
    /\ UNCHANGED <<mysql, redis, wanted, clash, died>>

\* One command for every element of a set that a select has returned.
ForEach(S, Command(_)) == [i \in 1..Len(SetToSeq(S)) |-> Command(SetToSeq(S)[i])]
-----------------------------------------------------------------------------
(* Friend.cc *)

FriendAdder(k) ==
    /\ At(k, "FriendAdder")
    /\ LET c == FirstOf(k) IN
       IF \/ c.to \notin mysql.users
          \/ c.to = c.by
          \/ <<c.by, c.to>> \in redis.friends
          \/ <<c.by, c.to>> \in mysql.friend_requests
       THEN Continue(k, <<>>)
       ELSE IF c.by \notin mysql.users
       THEN Die
       ELSE Continue(k, <<Forward(c.to, <<"friend", c.by>>),
                          Insert("friend_requests", <<c.by, c.to>>)>>)

\* The answer of c.by to the request of c.to.
FriendAddResponser(k) ==
    /\ At(k, "FriendAddResponser")
    /\ LET c == FirstOf(k) IN
       IF ~c.accept /\ c.by \notin mysql.users
       THEN Die
       ELSE Continue(k,
              (IF c.accept
               THEN <<Sadd("friends", c.to, c.by), Sadd("friends", c.by, c.to),
                      Insert("friends", <<c.to, c.by>>), Insert("friends", <<c.by, c.to>>),
                      Srem("blacklist", c.to, c.by), Srem("blacklist", c.by, c.to)>>
               ELSE <<>>)
              \o <<Delete("friend_requests", {<<c.to, c.by>>})>>)

\* Seeded bug: the other half of the friendship stays in MySQL.
FriendDeleterHalf(k) ==
    /\ At(k, "FriendDeleter")
    /\ LET c == FirstOf(k) IN
       Continue(k, <<Srem("friends", c.by, c.to), Srem("friends", c.to, c.by),
                     Delete("friends", {<<c.by, c.to>>})>>)

FriendDeleter(k) ==
    /\ At(k, "FriendDeleter")
    /\ LET c == FirstOf(k) IN
       Continue(k, <<Srem("friends", c.by, c.to), Srem("friends", c.to, c.by),
                     Delete("friends", {<<c.by, c.to>>}), Delete("friends", {<<c.to, c.by>>})>>)

FriendBlocker(k) ==
    /\ At(k, "FriendBlocker")
    /\ LET c == FirstOf(k) IN
       Continue(k, IF <<c.by, c.to>> \in redis.blacklist THEN <<>>
                   ELSE <<Sadd("blacklist", c.by, c.to)>>)

FriendUnblocker(k) ==
    /\ At(k, "FriendUnblocker")
    /\ LET c == FirstOf(k) IN
       Continue(k, IF <<c.by, c.to>> \notin redis.blacklist THEN <<>>
                   ELSE <<Srem("blacklist", c.by, c.to)>>)
-----------------------------------------------------------------------------
(* Group.cc *)

\* The group's id is the one that the first statement makes.
GroupCreater(k) ==
    /\ At(k, "GroupCreater")
    /\ LET c == FirstOf(k) IN
       Continue(k, <<Insert("groups", <<c.group, c.by>>), Sadd("group", c.group, c.by),
                     Insert("group_members", <<c.group, c.by, "owner">>)>>)

GroupAdder(k) ==
    /\ At(k, "GroupAdder")
    /\ LET c == FirstOf(k) IN
       IF \/ ~GroupExists(c.group)
          \/ <<c.group, c.by>> \in redis.group
          \/ \E r \in mysql.group_requests : r[1] = c.by /\ r[3] = c.group
       THEN Continue(k, <<>>)
       ELSE IF c.by \notin mysql.users
       THEN Die
       ELSE Continue(k, ForEach(Admins(c.group),
                LAMBDA a : [do |-> "ask", admin |-> a, by |-> c.by, group |-> c.group]))

\* The loop over the admins.
AskAdmin(k) ==
    /\ At(k, "ask")
    /\ LET c == FirstOf(k) IN
       Continue(k, <<Forward(c.admin, <<"group", c.group, c.by>>),
                     Insert("group_requests", <<c.by, c.admin, c.group>>)>>)

\* The answer of c.by to the request of c.to.
GroupAddResponser(k) ==
    /\ At(k, "GroupAddResponser")
    /\ LET c == FirstOf(k) IN
       Continue(k,
           IF RoleOf(c.group, c.by) \in {"none", "member"} THEN <<>>
           ELSE (IF c.accept
                 THEN <<Sadd("group", c.group, c.to),
                        Insert("group_members", <<c.group, c.to, "member">>)>>
                 ELSE <<>>)
                \o <<Delete("group_requests", {c.to} \X User \X {c.group}),
                     [do |-> "notice", group |-> c.group, user |-> c.to]>>)

\* ADD_GROUP_REMOVE takes the request off the lists of all who can answer it.
Notice(k) ==
    /\ At(k, "notice")
    /\ LET c == FirstOf(k) IN
       inbox' = [u \in User |->
                    IF u \in Admins(c.group) THEN inbox[u] \ {<<"group", c.group, c.user>>}
                    ELSE inbox[u]]
    /\ Become(k, <<>>)
    /\ UNCHANGED <<mysql, redis, wanted, clash, died>>

\* Seeded bug: only the row of MySQL goes.
GroupExiterUncached(k) ==
    /\ At(k, "GroupExiter")
    /\ LET c == FirstOf(k)
           g == c.group IN
       CASE RoleOf(g, c.by) = "none" -> Die
         [] RoleOf(g, c.by) \in {"member", "admin"} ->
                Continue(k, <<Delete("group_members", Member(g, c.by))>>)
         [] RoleOf(g, c.by) = "owner" ->
                Continue(k, <<Del("group", g), Delete("group_members", {g} \X User \X Role),
                              Delete("group_messages", {g} \X User),
                              Delete("groups", {g} \X User)>>)

GroupExiter(k) ==
    /\ At(k, "GroupExiter")
    /\ LET c == FirstOf(k)
           g == c.group IN
       CASE RoleOf(g, c.by) = "none" -> Die
         [] RoleOf(g, c.by) \in {"member", "admin"} ->
                Continue(k, <<Srem("group", g, c.by), Delete("group_members", Member(g, c.by))>>)
         [] RoleOf(g, c.by) = "owner" ->
                Continue(k, <<Del("group", g), Delete("group_members", {g} \X User \X Role),
                              Delete("group_messages", {g} \X User),
                              Delete("groups", {g} \X User)>>)

\* Seeded bug: an admin may kick anybody.
MemberKickerAnybody(k) ==
    /\ At(k, "MemberKicker")
    /\ LET c == FirstOf(k) IN
       IF c.to = c.by \/ RoleOf(c.group, c.by) = "none" THEN Continue(k, <<>>)
       ELSE IF RoleOf(c.group, c.to) = "none" THEN Die
       ELSE Continue(k, IF RoleOf(c.group, c.by) # "member"
                        THEN <<Srem("group", c.group, c.to),
                               Delete("group_members", Member(c.group, c.to))>>
                        ELSE <<>>)

MemberKicker(k) ==
    /\ At(k, "MemberKicker")
    /\ LET c == FirstOf(k)
           role == RoleOf(c.group, c.by)
           kickRole == RoleOf(c.group, c.to) IN
       IF c.to = c.by \/ role = "none" THEN Continue(k, <<>>)
       ELSE IF kickRole = "none" THEN Die
       ELSE Continue(k, IF (role # "member" /\ kickRole = "member") \/ role = "owner"
                        THEN <<Srem("group", c.group, c.to),
                               Delete("group_members", Member(c.group, c.to))>>
                        ELSE <<>>)

\* AdminAdder and AdminRemover: the group's creator changes a role.
ChangeRole(k, do, from, into) ==
    /\ At(k, do)
    /\ LET c == FirstOf(k) IN
       IF RoleOf(c.group, c.to) = "none" THEN Die
       ELSE Continue(k, IF /\ <<c.group, c.by>> \in mysql.groups
                           /\ c.to # c.by
                           /\ RoleOf(c.group, c.to) = from
                        THEN <<SetRole(c.group, c.to, into)>>
                        ELSE <<>>)

AdminAdder(k)   == ChangeRole(k, "AdminAdder", "member", "admin")
AdminRemover(k) == ChangeRole(k, "AdminRemover", "admin", "member")

\* GroupChatter accepts the message; the timer stores it (module MessageCache).
GroupChatter(k) ==
    /\ At(k, "GroupChatter")
    /\ LET c == FirstOf(k) IN
       Continue(k, IF <<c.group, c.by>> \in redis.group
                   THEN <<Insert("group_messages", <<c.group, c.by>>)>> ELSE <<>>)
-----------------------------------------------------------------------------
(* Login.cc: AccountKiller. *)

\* Seeded bug: the requests that others sent to the user are left.
AccountKillerKeepsRequests(k) ==
    /\ At(k, "AccountKiller")
    /\ LET u == FirstOf(k).by IN
       Continue(k,
           ForEach({r[1] : r \in {q \in mysql.groups : q[2] = u}},
                   LAMBDA g : [do |-> "GroupExiter", group |-> g, by |-> u])
           \o <<Del("blacklist", u),
                Delete("friend_requests", {u} \X User),
                Delete("group_requests", {u} \X User \X Group),
                Delete("friends", {u} \X User), Delete("friends", User \X {u}),
                Del("friends", u),
                [do |-> "unfriend", by |-> u],
                Delete("group_members", Group \X {u} \X Role),
                [do |-> "ungroup", by |-> u],
                Delete("users", {u})>>)

AccountKiller(k) ==
    /\ At(k, "AccountKiller")
    /\ LET u == FirstOf(k).by IN
       Continue(k,
           ForEach({r[1] : r \in {q \in mysql.groups : q[2] = u}},
                   LAMBDA g : [do |-> "GroupExiter", group |-> g, by |-> u])
           \o <<Del("blacklist", u),
                Delete("friend_requests", {u} \X User), Delete("friend_requests", User \X {u}),
                Delete("group_requests", {u} \X User \X Group),
                Delete("group_requests", User \X {u} \X Group),
                Delete("friends", {u} \X User), Delete("friends", User \X {u}),
                Del("friends", u),
                [do |-> "unfriend", by |-> u],
                Delete("group_members", Group \X {u} \X Role),
                [do |-> "ungroup", by |-> u],
                Delete("users", {u})>>)

\* The loops over all users and over all groups.
Unfriend(k) ==
    /\ At(k, "unfriend")
    /\ Continue(k, ForEach(mysql.users, LAMBDA v : Srem("friends", v, FirstOf(k).by)))

Ungroup(k) ==
    /\ At(k, "ungroup")
    /\ Continue(k, ForEach({r[1] : r \in mysql.groups},
                           LAMBDA g : Srem("group", g, FirstOf(k).by)))
-----------------------------------------------------------------------------
Work(k) ==
    \/ Execute(k) \/ DoForward(k) \/ Notice(k)
    \/ FriendAdder(k) \/ FriendAddResponser(k) \/ FriendDeleter(k)
    \/ FriendBlocker(k) \/ FriendUnblocker(k)
    \/ GroupCreater(k) \/ GroupAdder(k) \/ AskAdmin(k) \/ GroupAddResponser(k)
    \/ GroupExiter(k) \/ MemberKicker(k) \/ AdminAdder(k) \/ AdminRemover(k)
    \/ GroupChatter(k)
    \/ AccountKiller(k) \/ Unfriend(k) \/ Ungroup(k)

RelationsNext ==
    \/ \E k \in Worker : Work(k) \/ \E r \in Request : Ask(k, r)
    \/ \E u \in User : Login(u)

RelationsSpec == RelationsInit /\ [][RelationsNext]_relationsVars
-----------------------------------------------------------------------------
\* The shape of the tables and sets; the tables keep the foreign keys of init.sql
\* through statements that fail one by one.
RelationsTypeOK ==
    /\ mysql \in [users : SUBSET User, friends : SUBSET (User \X User),
                  friend_requests : SUBSET (User \X User), groups : SUBSET (Group \X User),
                  group_requests : SUBSET (User \X User \X Group),
                  group_members : SUBSET (Group \X User \X Role),
                  group_messages : SUBSET (Group \X User)]
    /\ Sound(mysql)
    /\ redis \in [friends : SUBSET (User \X User), group : SUBSET (Group \X User),
                  blacklist : SUBSET (User \X User)]
    /\ inbox \in [User -> SUBSET (({"friend"} \X User) \cup ({"group"} \X Group \X User))]
    /\ \E S \in Scenario : wanted \subseteq S
    /\ \A k \in Open : task[k].req \in Request /\ task[k].todo # <<>> /\ task[k].alone \in BOOLEAN
    /\ clash \subseteq (User \X User) \cup (Group \X User)
    /\ died \in BOOLEAN

\* No task works on what S names.
AtRest(S) == S \cap (clash \cup UNION {Touched(task[k].req) : k \in Open}) = {}

\* README.md:54: Redis answers who is a friend and who is a member.  Whatever
\* was asked before, refused, answered late or broken by a foreign key, it gives
\* MySQL's answer, for users and groups that exist, where no two tasks worked on
\* one friendship or membership at a time.
CacheAgrees ==
    ~died =>
      /\ \A u, v \in mysql.users : AtRest({<<u, v>>}) =>
            (<<u, v>> \in redis.friends <=> <<u, v>> \in mysql.friends)
      /\ \A u \in mysql.users, g \in Group : GroupExists(g) /\ AtRest({<<g, u>>}) =>
            (<<g, u>> \in redis.group <=> RoleOf(g, u) # "none")

\* What TLC checks in every state.
RelationsInv == RelationsTypeOK /\ CacheAgrees

\* Friendship is mutual (Friend.cc:133-137, 178-181; Login.cc:174-175).
Mutual ==
    \A u, v \in User : ~died /\ AtRest({<<u, v>>}) =>
        (<<u, v>> \in mysql.friends <=> <<v, u>> \in mysql.friends)

\* Nobody but its creator owns a group, whatever admins, kicks, late answers and
\* exits do at the same time; and a group that has members has its owner, unless
\* somebody was let in while it was dissolved (Group.cc:96-99, 227-303): he may go on
\* and let others in, whose membership no two tasks have worked on.
OneOwner ==
    \A r \in mysql.groups :
        LET g == r[1]
            owners == {u \in User : RoleOf(g, u) = "owner"} IN
        /\ owners \subseteq {r[2]}
        /\ \A u \in User :
              RoleOf(g, u) # "none" /\ ~died /\ AtRest({g} \X User) => owners = {r[2]}

\* AccountKiller, alone at work, ends with the user gone (Login.cc:194) unless a
\* foreign key that it does not look after is in the way: a message of the user
\* stored for a group, or a group of the user's that could not be deleted.
Removed ==
    [][\A k \in Worker :
          (task[k] # Idle /\ task'[k] = Idle /\ task[k].req.do = "AccountKiller" /\ task[k].alone)
          => LET u == task[k].req.by IN
             \/ u \notin mysql'.users
             \/ \E r \in mysql'.group_messages : r[2] = u
             \/ \E r \in mysql'.groups : r[2] = u]_relationsVars
=============================================================================
