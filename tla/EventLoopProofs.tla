--------------------------- MODULE EventLoopProofs ---------------------------
(***************************************************************************)
(* Theorems about EventLoop for any set of producers and functors: its     *)
(* invariants, and that it implements Executor (safety).                   *)
(***************************************************************************)
EXTENDS EventLoop, SequenceTheorems, TLAPS

\* Running the head of a batch moves the boundary, not the order.
LEMMA RunHead ==
    ASSUME NEW S, NEW e \in Seq(S), NEW f \in Seq(S), f # <<>>
    PROVE  Append(e, Head(f)) \o Tail(f) = e \o f
<1>1. Head(f) \in S /\ Tail(f) \in Seq(S) /\ Len(Tail(f)) = Len(f) - 1
      /\ \A i \in 1..Len(Tail(f)) : Tail(f)[i] = f[i + 1]
    BY HeadTailProperties
<1>2. Len(f) \in Nat \ {0} /\ Len(e) \in Nat
    BY EmptySeq, LenProperties
<1>3. Append(e, Head(f)) \in Seq(S) /\ Len(Append(e, Head(f))) = Len(e) + 1
      /\ (\A i \in 1..Len(e) : Append(e, Head(f))[i] = e[i])
      /\ Append(e, Head(f))[Len(e) + 1] = Head(f)
    BY <1>1, AppendProperties
<1>4. Head(f) = f[1]
    OBVIOUS
<1> DEFINE a == Append(e, Head(f))
           l == a \o Tail(f)
           r == e \o f
<1>5. l \in Seq(S) /\ Len(l) = Len(a) + Len(Tail(f))
      /\ \A i \in 1..(Len(a) + Len(Tail(f))) :
            l[i] = IF i <= Len(a) THEN a[i] ELSE Tail(f)[i - Len(a)]
    BY <1>1, <1>3, ConcatProperties
<1>6. r \in Seq(S) /\ Len(r) = Len(e) + Len(f)
      /\ \A i \in 1..(Len(e) + Len(f)) :
            r[i] = IF i <= Len(e) THEN e[i] ELSE f[i - Len(e)]
    BY ConcatProperties
<1>7. Len(l) = Len(r)
    BY <1>1, <1>2, <1>3, <1>5, <1>6
<1>8. ASSUME NEW i \in 1..Len(l) PROVE l[i] = r[i]
    <2>1. CASE i <= Len(e)
        BY <2>1, <1>2, <1>3, <1>5, <1>6, <1>7
    <2>2. CASE i = Len(e) + 1
        BY <2>2, <1>2, <1>3, <1>4, <1>5, <1>6, <1>7
    <2>3. CASE i > Len(e) + 1
        <3>1. i - (Len(e) + 1) \in 1..Len(Tail(f))
            BY <2>3, <1>1, <1>2, <1>3, <1>5
        <3>2. l[i] = Tail(f)[i - (Len(e) + 1)]
            BY <2>3, <1>2, <1>3, <1>5
        <3>3. l[i] = f[i - (Len(e) + 1) + 1]
            BY <3>1, <3>2, <1>1
        <3> QED BY <3>3, <2>3, <1>2, <1>6, <1>7
    <2> QED BY <2>1, <2>2, <2>3, <1>2, <1>5, <1>1, <1>3
<1> HIDE DEF a, l, r
<1>9. l = r
    BY <1>5, <1>6, <1>7, <1>8, SeqEqual
<1> QED BY <1>9 DEF a, l, r

\* A push appends to the sequence of every functor handed over.
LEMMA PushAtEnd ==
    ASSUME NEW S, NEW s \in Seq(S), NEW p \in Seq(S), NEW t \in S
    PROVE  s \o Append(p, t) = Append(s \o p, t)
<1>1. Append(p, t) = p \o <<t>>
    BY AppendIsConcat
<1>2. s \o p \in Seq(S)
    BY ConcatProperties
<1>3. Append(s \o p, t) = (s \o p) \o <<t>>
    BY <1>2, AppendIsConcat
<1>4. <<t>> \in Seq(S)
    OBVIOUS
<1> QED BY <1>1, <1>3, <1>4, ConcatAssociative

\* The elements of a concatenation are those of its parts.
Occurs(x, s) == \E i \in DOMAIN s : s[i] = x

LEMMA ConcatElements ==
    ASSUME NEW S, NEW s \in Seq(S), NEW u \in Seq(S), NEW x
    PROVE  Occurs(x, s \o u) <=> Occurs(x, s) \/ Occurs(x, u)
<1> DEFINE c == s \o u
<1>1. Len(s) \in Nat /\ Len(u) \in Nat /\ DOMAIN s = 1..Len(s) /\ DOMAIN u = 1..Len(u)
    BY LenProperties
<1>2. c \in Seq(S) /\ Len(c) = Len(s) + Len(u)
      /\ \A i \in 1..(Len(s) + Len(u)) :
            c[i] = IF i <= Len(s) THEN s[i] ELSE u[i - Len(s)]
    BY ConcatProperties
<1>3. DOMAIN c = 1..(Len(s) + Len(u))
    BY <1>2, LenProperties
<1> HIDE DEF c
<1>4. ASSUME NEW i \in DOMAIN c, c[i] = x PROVE Occurs(x, s) \/ Occurs(x, u)
    <2>1. CASE i <= Len(s)
        BY <2>1, <1>1, <1>2, <1>3, <1>4 DEF Occurs
    <2>2. CASE ~(i <= Len(s))
        <3>1. i - Len(s) \in DOMAIN u /\ u[i - Len(s)] = x
            BY <2>2, <1>1, <1>2, <1>3, <1>4
        <3> QED BY <3>1 DEF Occurs
    <2> QED BY <2>1, <2>2
<1>5. ASSUME NEW i \in DOMAIN s, s[i] = x PROVE Occurs(x, c)
    <2>1. i \in DOMAIN c /\ c[i] = x
        BY <1>1, <1>2, <1>3, <1>5
    <2> QED BY <2>1 DEF Occurs
<1>6. ASSUME NEW i \in DOMAIN u, u[i] = x PROVE Occurs(x, c)
    <2>1. i + Len(s) \in DOMAIN c /\ c[i + Len(s)] = x
        BY <1>1, <1>2, <1>3, <1>6
    <2> QED BY <2>1 DEF Occurs
<1>7. Occurs(x, c) <=> Occurs(x, s) \/ Occurs(x, u)
    BY <1>4, <1>5, <1>6 DEF Occurs
<1> QED BY <1>7 DEF c
-----------------------------------------------------------------------------
\* Types and the places of the loop thread, for every step.
LEMMA TypeStep == TypeOK /\ [Next]_vars => TypeOK'
<1> SUFFICES ASSUME TypeOK, [Next]_vars PROVE TypeOK'
    OBVIOUS
<1> USE ThreadAssumption, TaskAssumption DEF TypeOK, LoopState, OwnerState, Thread, InCallback
<1>1. CASE CreateLoop
    BY <1>1 DEF CreateLoop, taskVars, pollVars, runVars
<1>2. CASE PublishLoop
    BY <1>2 DEF PublishLoop, taskVars, pollVars, runVars
<1>3. CASE EnterLoop
    BY <1>3 DEF EnterLoop, taskVars, pollVars
<1>4. CASE TestQuit
    BY <1>4 DEF TestQuit, taskVars, pollVars, runVars
<1>5. CASE PollWakeup
    BY <1>5 DEF PollWakeup, taskVars, runVars
<1>6. CASE HandleRead
    BY <1>6 DEF HandleRead, taskVars, runVars
<1>7. CASE BeginPending
    BY <1>7 DEF BeginPending, taskVars, pollVars, runVars
<1>8. CASE SwapFunctors
    BY <1>8 DEF SwapFunctors, pollVars, runVars
<1>9. CASE BeginFunctor
    <2>1. Head(functors) \in Task /\ Tail(functors) \in Seq(Task)
        BY <1>9, HeadTailProperties DEF BeginFunctor
    <2>2. Append(executed, Head(functors)) \in Seq(Task)
        BY <2>1, AppendProperties
    <2> QED BY <1>9, <2>1, <2>2 DEF BeginFunctor, pollVars, runVars
<1>10. CASE EndFunctor
    BY <1>10 DEF EndFunctor, pollVars, runVars
<1>11. CASE FinishPending
    BY <1>11 DEF FinishPending, taskVars, pollVars
<1>12. CASE PollOther
    BY <1>12 DEF PollOther, taskVars, pollVars, runVars
<1>13. CASE QuitInLoop
    BY <1>13 DEF QuitInLoop, taskVars, pollVars
<1>14. CASE OwnerStep
    <2>1. CASE StartReturns
        BY <2>1 DEF StartReturns, taskVars, pollVars
    <2>2. CASE OwnerQuit
        BY <2>2 DEF OwnerQuit, taskVars, pollVars
    <2>3. CASE OwnerWakeup
        BY <2>3 DEF OwnerWakeup, taskVars
    <2>4. CASE OwnerJoin
        BY <2>4 DEF OwnerJoin, taskVars, pollVars
    <2> QED BY <1>14, <2>1, <2>2, <2>3, <2>4 DEF OwnerStep
<1>15. ASSUME NEW th \in Thread, QueueWakeup(th) PROVE TypeOK'
    BY <1>15 DEF QueueWakeup, taskVars, runVars
<1>16. ASSUME NEW th \in Thread, NEW t \in Task, QueuePush(th, t) PROVE TypeOK'
    <2>1. Append(pendingFunctors, t) \in Seq(Task)
        BY AppendProperties
    <2> QED BY <1>16, <2>1 DEF QueuePush, MayPost, pollVars, runVars
<1>17. CASE UNCHANGED vars
    BY <1>17 DEF vars
<1> QED
    BY <1>1, <1>2, <1>3, <1>4, <1>5, <1>6, <1>7, <1>8, <1>9, <1>10, <1>11, <1>12,
       <1>13, <1>14, <1>15, <1>16, <1>17 DEF Next, LoopStep

\* Type correctness of the event loop.
THEOREM TypeCorrect == Spec => []TypeOK
<1>1. ASSUME Init PROVE TypeOK
    <2>1. Loop \in Thread /\ post[Loop] = "idle" /\ post \in [Thread -> {"idle", "pushed"}]
        BY <1>1 DEF Init, Thread
    <2>2. <<>> \in Seq(Task)
        BY EmptySeq
    <2> QED BY <1>1, <2>1, <2>2 DEF Init, TypeOK, LoopState, OwnerState
<1>2. TypeOK /\ [Next]_vars => TypeOK'
    BY TypeStep
<1> QED BY <1>1, <1>2, PTL DEF Spec
-----------------------------------------------------------------------------
\* What the wakeup protocol maintains: no pending functor and no quit request
\* is left unannounced to a loop that is about to block.
WakeInv == NoLostWakeup /\ NoLostQuit

LEMMA WakeStep == TypeOK /\ WakeInv /\ [Next]_vars => WakeInv'
<1> SUFFICES ASSUME TypeOK, WakeInv, [Next]_vars PROVE WakeInv'
    OBVIOUS
<1> USE ThreadAssumption DEF WakeInv, NoLostWakeup, NoLostQuit
<1>1. CASE CreateLoop
    BY <1>1 DEF CreateLoop, taskVars, pollVars, runVars
<1>2. CASE PublishLoop
    BY <1>2 DEF PublishLoop, taskVars, pollVars, runVars
<1>3. CASE EnterLoop
    BY <1>3 DEF EnterLoop, taskVars, pollVars
<1>4. CASE TestQuit
    BY <1>4 DEF TestQuit, taskVars, pollVars, runVars
<1>5. CASE PollWakeup
    BY <1>5 DEF PollWakeup, taskVars, runVars
<1>6. CASE HandleRead
    BY <1>6 DEF HandleRead, taskVars, runVars
<1>7. CASE BeginPending
    BY <1>7 DEF BeginPending, taskVars, pollVars, runVars
<1>8. CASE SwapFunctors
    BY <1>8 DEF SwapFunctors, pollVars, runVars
<1>9. CASE BeginFunctor
    BY <1>9 DEF BeginFunctor, pollVars, runVars
<1>10. CASE EndFunctor
    BY <1>10 DEF EndFunctor, pollVars, runVars
<1>11. CASE FinishPending
    BY <1>11 DEF FinishPending, taskVars, pollVars
<1>12. CASE PollOther
    BY <1>12 DEF PollOther, taskVars, pollVars, runVars
<1>13. CASE QuitInLoop
    BY <1>13 DEF QuitInLoop, taskVars, pollVars, InCallback
<1>14. CASE OwnerStep
    <2>1. CASE StartReturns
        BY <2>1 DEF StartReturns, taskVars, pollVars
    <2>2. CASE OwnerQuit
        BY <2>2 DEF OwnerQuit, taskVars, pollVars
    <2>3. CASE OwnerWakeup
        BY <2>3 DEF OwnerWakeup, taskVars
    <2>4. CASE OwnerJoin
        BY <2>4 DEF OwnerJoin, taskVars, pollVars
    <2> QED BY <1>14, <2>1, <2>2, <2>3, <2>4 DEF OwnerStep
\* The loop thread writes the eventfd unless it is handling a channel, and then
\* the swap is still to come before the next epoll_wait.
<1>15. ASSUME NEW th \in Thread, QueueWakeup(th) PROVE WakeInv'
    <2>1. wakeupFd' \/ pc' \in {"events", "pending"}
        BY <1>15 DEF QueueWakeup, TypeOK, InCallback, runVars
    <2> QED BY <1>15, <2>1 DEF QueueWakeup, taskVars, runVars
<1>16. ASSUME NEW th \in Thread, NEW t \in Task, QueuePush(th, t) PROVE WakeInv'
    <2>1. post'[th] = "pushed"
        BY <1>16 DEF QueuePush, TypeOK
    <2> QED BY <1>16, <2>1 DEF QueuePush, pollVars, runVars
<1>17. CASE UNCHANGED vars
    BY <1>17 DEF vars
<1> QED
    BY <1>1, <1>2, <1>3, <1>4, <1>5, <1>6, <1>7, <1>8, <1>9, <1>10, <1>11, <1>12,
       <1>13, <1>14, <1>15, <1>16, <1>17 DEF Next, LoopStep

LEMMA WakeCorrect == Spec => []WakeInv
<1>1. Init => WakeInv
    BY DEF Init, WakeInv, NoLostWakeup, NoLostQuit
<1>2. TypeOK /\ WakeInv /\ [Next]_vars => WakeInv'
    BY WakeStep
<1> QED BY <1>1, <1>2, TypeCorrect, PTL DEF Spec

\* A loop never sleeps on functors that nobody is going to announce.
THEOREM WakeupsAreNotLost == Spec => []NoLostWakeup
<1>1. WakeInv => NoLostWakeup
    BY DEF WakeInv
<1> QED BY <1>1, WakeCorrect, PTL

\* A loop never sleeps on a quit request that nobody is going to announce.
THEOREM QuitsAreNotLost == Spec => []NoLostQuit
<1>1. WakeInv => NoLostQuit
    BY DEF WakeInv
<1> QED BY <1>1, WakeCorrect, PTL
-----------------------------------------------------------------------------
\* What a step does to the order: it leaves the functors handed over and those
\* run alone, or appends one to the former, or runs the next one of them.
OrderKept == Submitted' = Submitted /\ executed' = executed

LEMMA SubmittedType == TypeOK => Submitted \in Seq(Task)
BY ConcatProperties DEF TypeOK, Submitted

LEMMA UsedElements ==
    ASSUME TypeOK, NEW t, t \notin Used
    PROVE  \A i \in DOMAIN Submitted : Submitted[i] # t
<1>1. executed \in Seq(Task) /\ functors \in Seq(Task) /\ pendingFunctors \in Seq(Task)
    BY DEF TypeOK
<1>2. executed \o functors \in Seq(Task)
    BY <1>1, ConcatProperties
<1>3. ~Occurs(t, executed) /\ ~Occurs(t, functors) /\ ~Occurs(t, pendingFunctors)
    BY DEF Used, Occurs
<1>4. ~Occurs(t, executed \o functors)
    BY <1>1, <1>3, ConcatElements
<1>5. Occurs(t, (executed \o functors) \o pendingFunctors)
          <=> Occurs(t, executed \o functors) \/ Occurs(t, pendingFunctors)
    BY <1>1, <1>2, ConcatElements
<1> QED BY <1>3, <1>4, <1>5 DEF Submitted, Occurs

LEMMA PushSubmits ==
    ASSUME TypeOK, NEW th \in Thread, NEW t \in Task, QueuePush(th, t)
    PROVE  Submitted' = Append(Submitted, t) /\ executed' = executed
<1>1. /\ executed \in Seq(Task) /\ functors \in Seq(Task) /\ pendingFunctors \in Seq(Task)
    BY DEF TypeOK
<1>2. executed \o functors \in Seq(Task)
    BY <1>1, ConcatProperties
<1>3. pendingFunctors' = Append(pendingFunctors, t) /\ UNCHANGED <<executed, functors>>
    BY DEF QueuePush
<1>4. (executed \o functors) \o Append(pendingFunctors, t)
          = Append((executed \o functors) \o pendingFunctors, t)
    BY <1>1, <1>2, PushAtEnd
<1> QED BY <1>3, <1>4 DEF Submitted

LEMMA BeginExecutes ==
    ASSUME TypeOK, BeginFunctor
    PROVE  /\ Submitted' = Submitted
           /\ Len(executed) < Len(Submitted)
           /\ executed' = Append(executed, Submitted[Len(executed) + 1])
<1> DEFINE ef == executed \o functors
<1>1. executed \in Seq(Task) /\ functors \in Seq(Task) /\ pendingFunctors \in Seq(Task)
      /\ functors # <<>>
    BY DEF TypeOK, BeginFunctor
<1>2. executed' \o functors' = ef
    BY <1>1, RunHead DEF BeginFunctor
<1>3. Submitted' = Submitted
    BY <1>2 DEF BeginFunctor, Submitted
<1>4. Len(executed) \in Nat /\ Len(functors) \in Nat \ {0} /\ Len(pendingFunctors) \in Nat
    BY <1>1, EmptySeq, LenProperties
<1>5. ef \in Seq(Task) /\ Len(ef) = Len(executed) + Len(functors)
      /\ ef[Len(executed) + 1] = functors[1]
    <2>1. \A i \in 1..(Len(executed) + Len(functors)) :
              ef[i] = IF i <= Len(executed) THEN executed[i] ELSE functors[i - Len(executed)]
        BY <1>1, ConcatProperties
    <2>2. ef[Len(executed) + 1] = functors[Len(executed) + 1 - Len(executed)]
        BY <2>1, <1>4
    <2> QED BY <2>2, <1>1, <1>4, ConcatProperties
<1> HIDE DEF ef
<1>6. /\ Len(ef \o pendingFunctors) = Len(ef) + Len(pendingFunctors)
      /\ (ef \o pendingFunctors)[Len(executed) + 1] = ef[Len(executed) + 1]
    <2>1. /\ Len(ef \o pendingFunctors) = Len(ef) + Len(pendingFunctors)
          /\ \A i \in 1..(Len(ef) + Len(pendingFunctors)) :
                (ef \o pendingFunctors)[i]
                    = IF i <= Len(ef) THEN ef[i] ELSE pendingFunctors[i - Len(ef)]
        <3>1. ef \in Seq(Task) /\ pendingFunctors \in Seq(Task)
            BY <1>1, <1>5
        <3> QED BY <3>1, ConcatProperties
    <2>2. Len(executed) + 1 \in 1..(Len(ef) + Len(pendingFunctors)) /\ Len(executed) + 1 <= Len(ef)
        BY <1>4, <1>5
    <2> QED BY <2>1, <2>2
<1>7. Submitted = ef \o pendingFunctors
    BY DEF Submitted, ef
<1>8. Head(functors) = functors[1]
    BY <1>1
<1> QED BY <1>3, <1>4, <1>5, <1>6, <1>7, <1>8 DEF BeginFunctor

LEMMA OrderStep ==
    ASSUME TypeOK, [Next]_vars
    PROVE  \/ OrderKept
           \/ BeginFunctor
           \/ \E th \in Thread, t \in Task : QueuePush(th, t)
<1>1. CASE SwapFunctors
    <2>1. functors = <<>> /\ pendingFunctors \in Seq(Task) /\ executed \in Seq(Task)
        BY <1>1 DEF SwapFunctors, TypeOK
    <2>2. Submitted = executed \o pendingFunctors
        BY <2>1, ConcatEmptySeq DEF Submitted
    <2>3. Submitted' = (executed \o pendingFunctors) \o <<>>
        BY <1>1 DEF SwapFunctors, Submitted
    <2>4. executed \o pendingFunctors \in Seq(Task)
        BY <2>1, ConcatProperties
    <2> QED BY <1>1, <2>2, <2>3, <2>4, ConcatEmptySeq DEF OrderKept, SwapFunctors
<1>2. CASE UNCHANGED taskVars
    BY <1>2 DEF OrderKept, Submitted, taskVars
<1>3. CASE EndFunctor
    BY <1>3 DEF OrderKept, Submitted, EndFunctor
<1> QED
    BY <1>1, <1>2, <1>3
    DEF Next, LoopStep, OwnerStep, CreateLoop, PublishLoop, EnterLoop, TestQuit, PollWakeup,
        HandleRead, BeginPending, FinishPending, PollOther, QuitInLoop, StartReturns,
        OwnerQuit, OwnerWakeup, OwnerJoin, QueueWakeup, taskVars, vars

\* No functor handed over is in two places, so none runs twice.
THEOREM NoFunctorTwice == Spec => []NothingRepeated
<1>1. Init => NothingRepeated
    <2> SUFFICES ASSUME Init PROVE NothingRepeated
        OBVIOUS
    <2>1. Submitted = <<>>
        BY ConcatEmptySeq, EmptySeq DEF Init, Submitted
    <2> QED BY <2>1 DEF NothingRepeated
<1>2. TypeOK /\ NothingRepeated /\ [Next]_vars => NothingRepeated'
    <2> SUFFICES ASSUME TypeOK, NothingRepeated, [Next]_vars PROVE NothingRepeated'
        OBVIOUS
    <2>1. CASE OrderKept
        BY <2>1 DEF OrderKept, NothingRepeated
    <2>2. CASE BeginFunctor
        BY <2>2, BeginExecutes DEF NothingRepeated
    <2>3. ASSUME NEW th \in Thread, NEW t \in Task, QueuePush(th, t) PROVE NothingRepeated'
        <3>1. Submitted' = Append(Submitted, t) /\ Submitted \in Seq(Task)
            BY <2>3, PushSubmits, SubmittedType
        <3>2. \A i \in DOMAIN Submitted : Submitted[i] # t
            BY <2>3, UsedElements DEF QueuePush
        <3>3. /\ DOMAIN Submitted = 1..Len(Submitted) /\ Len(Submitted) \in Nat
              /\ DOMAIN Submitted' = 1..(Len(Submitted) + 1)
              /\ \A i \in 1..Len(Submitted) : Submitted'[i] = Submitted[i]
              /\ Submitted'[Len(Submitted) + 1] = t
            BY <3>1, AppendProperties, LenProperties
        <3> QED BY <3>2, <3>3 DEF NothingRepeated
    <2> QED BY <2>1, <2>2, <2>3, OrderStep
<1> QED BY <1>1, <1>2, TypeCorrect, PTL DEF Spec

\* The event loop implements the executor: it runs the functors handed over
\* one at a time, each once, first in first out.
THEOREM LoopIsExecutor == Spec => ImplementsExecutor
<1>1. Init => Abstract!EInit
    BY ConcatEmptySeq, EmptySeq DEF Init, Submitted, Abstract!EInit
<1>2. TypeOK /\ [Next]_vars => [Abstract!ENext]_(Abstract!evars)
    <2> SUFFICES ASSUME TypeOK, [Next]_vars PROVE [Abstract!ENext]_(Abstract!evars)
        OBVIOUS
    <2>1. CASE OrderKept
        BY <2>1 DEF OrderKept, Abstract!evars
    <2>2. CASE BeginFunctor
        BY <2>2, BeginExecutes DEF Abstract!ENext, Abstract!Execute
    <2>3. ASSUME NEW th \in Thread, NEW t \in Task, QueuePush(th, t)
          PROVE  Abstract!ENext
        <3>1. \A i \in DOMAIN Submitted : Submitted[i] # t
            BY <2>3, UsedElements DEF QueuePush
        <3> QED BY <2>3, <3>1, PushSubmits DEF Abstract!ENext, Abstract!Submit
    <2> QED BY <2>1, <2>2, <2>3, OrderStep
<1> QED BY <1>1, <1>2, TypeCorrect, PTL DEF Spec, ImplementsExecutor, Abstract!ESpec
=============================================================================
