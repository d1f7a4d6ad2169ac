------------------------------ MODULE EventLoop ------------------------------
(***************************************************************************)
(* mylib::EventLoop (src/netlib/reactor/EventLoop.cc): the reactor thread, *)
(* the threads that hand it functors, and the thread that starts it, quits *)
(* it and joins it (src/netlib/reactor/EventLoopThread.cc).                *)
(*                                                                         *)
(* Threads interleave at every shared access: the mutex-protected push and *)
(* swap of pendingFunctors_, the eventfd write and read, and quit_.  A     *)
(* functor is a member of Task, and an identity stands for one call of     *)
(* queueInLoop.  What a functor or a channel's handler does is left to the *)
(* modules of the components that own it, except that it may call          *)
(* queueInLoop and quit().  runInLoop is queueInLoop when another thread   *)
(* calls it (EventLoop.cc:135) and a plain call otherwise.                 *)
(***************************************************************************)
EXTENDS Naturals, Sequences

CONSTANTS Task,       \* functor identities
          Producer,   \* the threads, other than the loop's, that call queueInLoop
          Loop,       \* the loop thread
          NoTask      \* no functor is being run

ASSUME ThreadAssumption == Loop \notin Producer
ASSUME TaskAssumption   == NoTask \notin Task

Thread == Producer \cup {Loop}

VARIABLES
    pendingFunctors,        \* pendingFunctors_
    functors,               \* what is left of doPendingFunctors' local vector
    current,                \* the functor that doPendingFunctors is running
    executed,               \* every functor run so far, in order
    callingPendingFunctors, \* callingPendingFunctors_
    wakeupFd,               \* the eventfd's counter is positive
    active,                 \* the wakeup channel is in activeChannels_, not yet handled
    quit,                   \* quit_
    looping,                \* looping_
    pc,                     \* where the loop thread stands
    post,                   \* where each thread stands in queueInLoop
    owner                   \* where the owner stands

vars == <<pendingFunctors, functors, current, executed, callingPendingFunctors,
          wakeupFd, active, quit, looping, pc, post, owner>>

taskVars == <<pendingFunctors, functors, current, executed>>
pollVars == <<wakeupFd, active>>
runVars  == <<quit, looping, owner>>

LoopState  == {"thread", "created", "ready",          \* threadFunc before loop()
               "test", "poll", "events", "pending", "run",
               "exited"}                              \* loop() has returned
OwnerState == {"starting", "running", "quitting", "joining", "joined",
               "detached"}     \* leaves the loop to its callbacks, as FtpClient's does

Entered == pc \notin {"thread", "created", "ready"}
-----------------------------------------------------------------------------
\* callingPendingFunctors_ is left out of the constructor's initialisers
\* (EventLoop.cc:35-42), so it may hold anything.
Init ==
    /\ pendingFunctors = <<>>
    /\ functors = <<>>
    /\ current = NoTask
    /\ executed = <<>>
    /\ callingPendingFunctors \in BOOLEAN
    /\ wakeupFd = FALSE
    /\ active = FALSE
    /\ quit = FALSE
    /\ looping = FALSE
    /\ pc = "thread"
    /\ post = [th \in Thread |-> "idle"]
    /\ owner = "starting"
-----------------------------------------------------------------------------
(* The owner and the start of the loop thread. *)

\* EventLoop loop;
CreateLoop ==
    /\ pc = "thread"
    /\ pc' = "created"
    /\ UNCHANGED <<taskVars, callingPendingFunctors, pollVars, runVars, post>>

\* loop_ = &loop; cond_.notify_one();
PublishLoop ==
    /\ pc = "created"
    /\ pc' = "ready"
    /\ UNCHANGED <<taskVars, callingPendingFunctors, pollVars, runVars, post>>

\* startLoop returns once loop_ is set.  An EventLoopThread's owner will quit the
\* loop; a loop that is not an EventLoopThread's is quit by a callback.
StartReturns ==
    /\ owner = "starting"
    /\ pc \notin {"thread", "created"}
    /\ owner' \in {"running", "detached"}
    /\ UNCHANGED <<taskVars, callingPendingFunctors, pollVars, quit, looping, pc, post>>

\* ~EventLoopThread: quit() sets quit_ first ...
OwnerQuit ==
    /\ owner = "running"
    /\ quit' = TRUE
    /\ owner' = "quitting"
    /\ UNCHANGED <<taskVars, callingPendingFunctors, pollVars, looping, pc, post>>

\* Seeded bug: quit() by another thread does not write the eventfd.
OwnerWakeupMissing ==
    /\ owner = "quitting"
    /\ owner' = "joining"
    /\ UNCHANGED <<taskVars, callingPendingFunctors, pollVars, quit, looping, pc, post>>

\* ... and then wakes the loop up, being another thread.
OwnerWakeup ==
    /\ owner = "quitting"
    /\ wakeupFd' = TRUE
    /\ owner' = "joining"
    /\ UNCHANGED <<taskVars, callingPendingFunctors, active, quit, looping, pc, post>>

\* thread_.join()
OwnerJoin ==
    /\ owner = "joining"
    /\ pc = "exited"
    /\ owner' = "joined"
    /\ UNCHANGED <<taskVars, callingPendingFunctors, pollVars, quit, looping, pc, post>>
-----------------------------------------------------------------------------
(* queueInLoop: the push, under mutex_, and the wakeup, outside it. *)

Used == {pendingFunctors[i] : i \in DOMAIN pendingFunctors}
           \cup {functors[i] : i \in DOMAIN functors}
           \cup {executed[i] : i \in DOMAIN executed}

\* Every functor handed over so far, oldest first.
Submitted == executed \o functors \o pendingFunctors

\* A callback of the loop thread is running: a channel's handler or a functor.
InCallback == pc = "events" \/ (pc = "run" /\ current # NoTask)

\* Other threads know the loop once startLoop has returned it, and none of
\* the program's loops that receive functors is used after it has exited.
MayPost(th) ==
    /\ post[th] = "idle"
    /\ th = Loop => InCallback
    /\ th # Loop => owner # "starting" /\ pc # "exited"

\* Seeded bug: the push goes to the front of the vector.
QueuePushFront(th, t) ==
    /\ MayPost(th)
    /\ t \notin Used
    /\ pendingFunctors' = <<t>> \o pendingFunctors
    /\ post' = [post EXCEPT ![th] = "pushed"]
    /\ UNCHANGED <<functors, current, executed, callingPendingFunctors,
                   pollVars, runVars, pc>>

QueuePush(th, t) ==
    /\ MayPost(th)
    /\ t \notin Used
    /\ pendingFunctors' = Append(pendingFunctors, t)
    /\ post' = [post EXCEPT ![th] = "pushed"]
    /\ UNCHANGED <<functors, current, executed, callingPendingFunctors,
                   pollVars, runVars, pc>>

\* Seeded bug: the loop thread never wakes itself up.
QueueWakeupOthersOnly(th) ==
    /\ post[th] = "pushed"
    /\ wakeupFd' = (wakeupFd \/ th # Loop)
    /\ post' = [post EXCEPT ![th] = "idle"]
    /\ UNCHANGED <<taskVars, callingPendingFunctors, active, runVars, pc>>

QueueWakeup(th) ==
    /\ post[th] = "pushed"
    /\ wakeupFd' = (wakeupFd \/ th # Loop \/ callingPendingFunctors)
    /\ post' = [post EXCEPT ![th] = "idle"]
    /\ UNCHANGED <<taskVars, callingPendingFunctors, active, runVars, pc>>
-----------------------------------------------------------------------------
(* The loop thread. *)

EnterLoop ==
    /\ pc = "ready"
    /\ looping' = TRUE
    /\ quit' = FALSE
    /\ pc' = "test"
    /\ UNCHANGED <<taskVars, callingPendingFunctors, pollVars, post, owner>>

\* while (!quit_)
TestQuit ==
    /\ pc = "test"
    /\ pc' = IF quit THEN "exited" ELSE "poll"
    /\ UNCHANGED <<taskVars, callingPendingFunctors, pollVars, runVars, post>>

\* epoll_wait reports the eventfd, perhaps with other channels.
PollWakeup ==
    /\ pc = "poll"
    /\ wakeupFd
    /\ active' = TRUE
    /\ pc' = "events"
    /\ UNCHANGED <<taskVars, callingPendingFunctors, wakeupFd, runVars, post>>

\* epoll_wait returns for another channel, or because kPollTimeMs has passed.
PollOther ==
    /\ pc = "poll"
    /\ ~wakeupFd
    /\ pc' = "events"
    /\ UNCHANGED <<taskVars, callingPendingFunctors, pollVars, runVars, post>>

\* The wakeup channel's handler reads the eventfd, which resets its counter.
HandleRead ==
    /\ pc = "events"
    /\ active
    /\ post[Loop] = "idle"
    /\ wakeupFd' = FALSE
    /\ active' = FALSE
    /\ UNCHANGED <<taskVars, callingPendingFunctors, runVars, pc, post>>

\* Seeded bug: callingPendingFunctors_ is not raised for the pass.
BeginPendingUnflagged ==
    /\ pc = "events"
    /\ ~active
    /\ post[Loop] = "idle"
    /\ callingPendingFunctors' = FALSE
    /\ pc' = "pending"
    /\ UNCHANGED <<taskVars, pollVars, runVars, post>>

\* Every active channel has been handled; doPendingFunctors begins.
BeginPending ==
    /\ pc = "events"
    /\ ~active
    /\ post[Loop] = "idle"
    /\ callingPendingFunctors' = TRUE
    /\ pc' = "pending"
    /\ UNCHANGED <<taskVars, pollVars, runVars, post>>

\* Seeded bug: pendingFunctors_ is copied instead of swapped.
SwapFunctorsCopies ==
    /\ pc = "pending"
    /\ functors' = pendingFunctors
    /\ pc' = "run"
    /\ UNCHANGED <<pendingFunctors, current, executed, callingPendingFunctors,
                   pollVars, runVars, post>>

SwapFunctors ==
    /\ pc = "pending"
    /\ functors' = pendingFunctors
    /\ pendingFunctors' = <<>>
    /\ pc' = "run"
    /\ UNCHANGED <<current, executed, callingPendingFunctors, pollVars, runVars, post>>

BeginFunctor ==
    /\ pc = "run"
    /\ current = NoTask
    /\ functors # <<>>
    /\ current' = Head(functors)
    /\ functors' = Tail(functors)
    /\ executed' = Append(executed, Head(functors))
    /\ UNCHANGED <<pendingFunctors, callingPendingFunctors, pollVars, runVars, pc, post>>

EndFunctor ==
    /\ current # NoTask
    /\ post[Loop] = "idle"
    /\ current' = NoTask
    /\ UNCHANGED <<pendingFunctors, functors, executed, callingPendingFunctors,
                   pollVars, runVars, pc, post>>

\* Seeded bug: the pass ends before the whole batch has run.
FinishPendingEarly ==
    /\ pc = "run"
    /\ current = NoTask
    /\ callingPendingFunctors' = FALSE
    /\ looping' = FALSE
    /\ pc' = "test"
    /\ UNCHANGED <<taskVars, pollVars, quit, post, owner>>

\* The end of doPendingFunctors and of the loop's body.
FinishPending ==
    /\ pc = "run"
    /\ current = NoTask
    /\ functors = <<>>
    /\ callingPendingFunctors' = FALSE
    /\ looping' = FALSE
    /\ pc' = "test"
    /\ UNCHANGED <<taskVars, pollVars, quit, post, owner>>

\* quit() called by a callback: the loop thread needs no wakeup.
QuitInLoop ==
    /\ owner = "detached"
    /\ InCallback
    /\ post[Loop] = "idle"
    /\ quit' = TRUE
    /\ UNCHANGED <<taskVars, callingPendingFunctors, pollVars, looping, pc, post, owner>>
-----------------------------------------------------------------------------
\* The steps that the loop thread takes by itself, without waiting for the
\* poll timeout or for another channel's event.
LoopStep ==
    \/ CreateLoop \/ PublishLoop \/ EnterLoop \/ TestQuit
    \/ PollWakeup \/ HandleRead \/ BeginPending
    \/ SwapFunctors \/ BeginFunctor \/ EndFunctor \/ FinishPending

OwnerStep == StartReturns \/ OwnerQuit \/ OwnerWakeup \/ OwnerJoin

Next ==
    \/ LoopStep
    \/ PollOther
    \/ QuitInLoop
    \/ OwnerStep
    \/ \E th \in Thread : QueueWakeup(th)
    \/ \E th \in Thread, t \in Task : QueuePush(th, t)

Spec == Init /\ [][Next]_vars

\* Threads are scheduled fairly and a callback returns.  Nothing is assumed of
\* PollOther, of new posts or of the decision to quit.
Fairness ==
    /\ WF_vars(LoopStep)
    /\ WF_vars(StartReturns)
    /\ WF_vars(OwnerWakeup)
    /\ WF_vars(OwnerJoin)
    /\ \A th \in Thread : WF_vars(QueueWakeup(th))

FairSpec == Spec /\ Fairness
-----------------------------------------------------------------------------
\* Types, and what each place of the loop thread says of the others: only a
\* pass of doPendingFunctors holds functors, the flag that makes a functor's
\* queueInLoop write the eventfd is up for the whole pass, and the loop thread
\* is inside queueInLoop only while a callback runs.
TypeOK ==
    /\ pendingFunctors \in Seq(Task)
    /\ functors \in Seq(Task)
    /\ current \in Task \cup {NoTask}
    /\ executed \in Seq(Task)
    /\ callingPendingFunctors \in BOOLEAN
    /\ wakeupFd \in BOOLEAN
    /\ active \in BOOLEAN
    /\ quit \in BOOLEAN
    /\ looping \in BOOLEAN
    /\ pc \in LoopState
    /\ post \in [Thread -> {"idle", "pushed"}]
    /\ owner \in OwnerState
    /\ (functors # <<>> \/ current # NoTask) => pc = "run"
    /\ pc \in {"pending", "run"} => callingPendingFunctors
    /\ active => pc = "events"
    /\ post[Loop] = "pushed" => InCallback

\* No lost wakeup (EventLoop.cc:138-164): while functors are pending and the
\* loop thread is not between poll and swap, either the eventfd is readable or
\* a thread that has pushed is about to write it.  So the loop never sleeps in
\* epoll_wait on work that nobody is going to announce.
NoLostWakeup ==
    (pendingFunctors # <<>> /\ pc \notin {"events", "pending"})
        => (wakeupFd \/ \E th \in Thread : post[th] = "pushed")

\* No lost quit (EventLoop.cc:94-99): a loop that blocks in epoll_wait although
\* quit_ is set has been woken up, or its owner is about to do so.
NoLostQuit == (quit /\ pc = "poll") => (wakeupFd \/ owner = "quitting")

\* No functor is in two places (EventLoop.cc:166-179): those run, the rest of
\* the batch and the pending ones are all distinct, so that the swap leaves
\* nothing behind that would run a second time.
NothingRepeated ==
    \A i, j \in DOMAIN Submitted : Submitted[i] = Submitted[j] => i = j

\* The loop implements the executor its callers rely on: first in, first out,
\* each functor once (EventLoop.cc:138-179).
Abstract == INSTANCE Executor WITH submitted <- Submitted
ImplementsExecutor == Abstract!ESpec

\* Every functor handed over is executed, without the help of the poll
\* timeout, unless the loop is told to quit (EventLoop.cc:67-86, 138-148).
EveryFunctorRuns ==
    \A t \in Task :
        (t \in Used) ~> (quit \/ \E i \in DOMAIN executed : executed[i] = t)

\* A loop that is inside loop() when quit_ is set returns (EventLoop.cc:67-99),
\* so that ~EventLoopThread's join does too.
QuitStopsLoop == (quit /\ Entered) ~> (pc = "exited" /\ owner # "joining")
=============================================================================
