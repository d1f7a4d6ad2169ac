------------------------------ MODULE Executor ------------------------------
(***************************************************************************)
(* What an EventLoop promises to those who hand it functors with           *)
(* queueInLoop: a single-threaded executor.  Tasks are executed one at a   *)
(* time, each once, in the order in which they were submitted.             *)
(*                                                                         *)
(* "submitted" is the sequence of every task handed over so far;           *)
(* "executed" is the sequence of the tasks whose execution has begun.      *)
(***************************************************************************)
EXTENDS Naturals, Sequences

CONSTANT Task       \* the identities of the functors

VARIABLES submitted, executed

evars == <<submitted, executed>>

EInit ==
    /\ submitted = <<>>
    /\ executed = <<>>

\* A functor is handed over; an identity stands for one call of queueInLoop.
Submit(t) ==
    /\ \A i \in DOMAIN submitted : submitted[i] # t
    /\ submitted' = Append(submitted, t)
    /\ UNCHANGED executed

\* The oldest functor that has not been executed begins its execution.
Execute ==
    /\ Len(executed) < Len(submitted)
    /\ executed' = Append(executed, submitted[Len(executed) + 1])
    /\ UNCHANGED submitted

ENext == Execute \/ \E t \in Task : Submit(t)

ESpec == EInit /\ [][ENext]_evars
=============================================================================
