-------------------------- MODULE ReusableBarrier --------------------------
(***************************************************************************)
(* class Condition (kernel/condition.h) and the class that uses it,        *)
(* ReusableBarrier (kernel/barrier.h).  wait() gives the lock back, then   *)
(* blocks; the handler of block() runs on another stack, takes the lock    *)
(* again and queues the thread only if nobody notified in between.         *)
(* Taking the lock is one step (module InterruptSafeLock has the details). *)
(***************************************************************************)
EXTENDS Naturals, Sequences, FiniteSets

CONSTANTS
  Threads,   \* the threads that call sync()
  NoThread,  \* the lock is free
  Rounds     \* bound: calls of sync() of each thread

InitialCount == Cardinality(Threads)

\* Assumed by the modules that give the constants their values.
ReusableBarrierAssumption ==
  /\ IsFiniteSet(Threads) /\ Threads # {} /\ NoThread \notin Threads
  /\ Rounds \in Nat

VARIABLES
  lock,     \* who holds the_lock
  count,    \* ReusableBarrier::count
  epoch,    \* ReusableBarrier::epoch
  signals,  \* Condition::epoch
  queue,    \* Condition::queue
  pc,       \* where each thread is
  seen,     \* seen[t]: the local t of sync(), an epoch
  old,      \* old[t]: the local old_epoch of wait()
  entered, left   \* calls of sync() begun and ended, per thread (history)

vars == <<lock, count, epoch, signals, queue, pc, seen, old, entered, left>>
calls == <<seen, old, entered, left>>

Init ==
  /\ lock = NoThread
  /\ count = InitialCount
  /\ epoch = 0
  /\ signals = 0
  /\ queue = <<>>
  /\ pc = [t \in Threads |-> "out"]
  /\ seen = [t \in Threads |-> 0]
  /\ old = [t \in Threads |-> 0]
  /\ entered = [t \in Threads |-> 0]
  /\ left = [t \in Threads |-> 0]

Lock(t, from, to) ==
  /\ pc[t] = from /\ lock = NoThread
  /\ lock' = t
  /\ pc' = [pc EXCEPT ![t] = to]

Sync(t) ==
  /\ left[t] < Rounds
  /\ Lock(t, "out", "enter")
  /\ UNCHANGED <<count, epoch, signals, queue, calls>>

\* The last thread starts the next epoch and notifies all.
Last(t) ==
  /\ pc[t] = "enter" /\ count = 1
  /\ seen' = [seen EXCEPT ![t] = epoch]
  /\ entered' = [entered EXCEPT ![t] = @ + 1]
  /\ count' = InitialCount
  /\ epoch' = epoch + 1
  /\ signals' = signals + 1
  /\ pc' = [u \in Threads |-> IF u = t THEN "leave"
                              ELSE IF \E k \in DOMAIN queue : queue[k] = u THEN "woken" ELSE pc[u]]
  /\ queue' = <<>>
  /\ UNCHANGED <<lock, old, left>>

NotLast(t) ==
  /\ pc[t] = "enter" /\ count # 1
  /\ seen' = [seen EXCEPT ![t] = epoch]
  /\ entered' = [entered EXCEPT ![t] = @ + 1]
  /\ count' = count - 1
  /\ pc' = [pc EXCEPT ![t] = "while"]
  /\ UNCHANGED <<lock, epoch, signals, queue, old, left>>

\* Faulty: compares with < instead of <=.
WhileLess(t) ==
  /\ pc[t] = "while"
  /\ pc' = [pc EXCEPT ![t] = IF epoch < seen[t] THEN "wait" ELSE "leave"]
  /\ UNCHANGED <<lock, count, epoch, signals, queue, calls>>

\* while (epoch <= t)
While(t) ==
  /\ pc[t] = "while"
  /\ pc' = [pc EXCEPT ![t] = IF epoch <= seen[t] THEN "wait" ELSE "leave"]
  /\ UNCHANGED <<lock, count, epoch, signals, queue, calls>>

\* wait(): remembers the epoch, gives the lock back and blocks.
Wait(t) ==
  /\ pc[t] = "wait"
  /\ old' = [old EXCEPT ![t] = signals]
  /\ lock' = NoThread
  /\ pc' = [pc EXCEPT ![t] = "blocked"]
  /\ UNCHANGED <<count, epoch, signals, queue, seen, entered, left>>

Handler(t) ==
  /\ Lock(t, "blocked", "handler")
  /\ UNCHANGED <<count, epoch, signals, queue, calls>>

\* Faulty: queues the thread whatever happened since.
EnqueueAlways(t) ==
  /\ pc[t] = "handler"
  /\ queue' = Append(queue, t)
  /\ pc' = [pc EXCEPT ![t] = "asleep"]
  /\ lock' = NoThread
  /\ UNCHANGED <<count, epoch, signals, calls>>

\* Queues the thread, or schedules it at once when the epoch has changed.
Enqueue(t) ==
  /\ pc[t] = "handler"
  /\ IF signals = old[t]
     THEN /\ queue' = Append(queue, t)
          /\ pc' = [pc EXCEPT ![t] = "asleep"]
     ELSE /\ pc' = [pc EXCEPT ![t] = "woken"]
          /\ UNCHANGED queue
  /\ lock' = NoThread
  /\ UNCHANGED <<count, epoch, signals, calls>>

Relock(t) ==
  /\ Lock(t, "woken", "while")
  /\ UNCHANGED <<count, epoch, signals, queue, calls>>

Leave(t) ==
  /\ pc[t] = "leave"
  /\ pc' = [pc EXCEPT ![t] = "out"]
  /\ lock' = NoThread
  /\ left' = [left EXCEPT ![t] = @ + 1]
  /\ UNCHANGED <<count, epoch, signals, queue, seen, old, entered>>

Step(t) ==
  \/ Sync(t) \/ Last(t) \/ NotLast(t) \/ While(t) \/ Wait(t) \/ Handler(t)
  \/ Enqueue(t) \/ Relock(t) \/ Leave(t)

Next == \E t \in Threads : Step(t)

\* The lock is free again and again: whoever spins for it gets it in the end,
\* as long as the others keep waiting for each other (module InterruptSafeLock).
FairSpec == Init /\ [][Next]_vars /\ \A t \in Threads : WF_vars(Step(t))

-----------------------------------------------------------------------------
(* Properties *)

\* Nobody leaves a round before everybody has entered it, although the first
\* threads may be in the next round while others have not yet left this one
\* (barrier.h:48-67); the ASSERTs on count and on the epoch never fail.
NobodyAhead ==
  /\ \A t, u \in Threads : left[t] <= entered[u]
  /\ \A t \in Threads : /\ pc[t] = "enter" => count # 0
                        /\ pc[t] = "handler" => signals >= old[t]

\* No missed signal (condition.h:34): a thread in the queue sleeps only while
\* its round is still open.
NoMissedSignal ==
  \A t \in Threads : pc[t] = "asleep" =>
    /\ epoch <= seen[t]
    /\ \E k \in DOMAIN queue : queue[k] = t

\* All threads get through all rounds.
AllRounds == <>(\A t \in Threads : left[t] = Rounds)
=============================================================================
