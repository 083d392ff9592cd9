----------------------------- MODULE Semaphore -----------------------------
(***************************************************************************)
(* class Semaphore of kernel/semaphore.h, step by step: the ISL that       *)
(* protects it (kernel/atomic.h), the context switch in the middle of      *)
(* down(), whose handler queues the caller and releases the lock on another*)
(* thread's stack, and the schedule() that up() does after its unlock.     *)
(*                                                                         *)
(* Each thread is on some core while it is not asleep; intr[p] is the      *)
(* interrupt flag it runs with.  Acquiring the ISL is one step here; module*)
(* InterruptSafeLock has the details of the same spin loop.                *)
(***************************************************************************)
EXTENDS Naturals, Sequences, FiniteSets

CONSTANTS
  Procs,     \* the threads that use the semaphore
  Initial,   \* the argument of the constructor
  MaxCount,  \* bound: up() is not called when the count could pass it
  NoProc     \* nullptr

ASSUME SemaphoreAssumption ==
  /\ Initial \in Nat
  /\ MaxCount \in Nat
  /\ NoProc \notin Procs

VARIABLES
  count,     \* uint64_t volatile count
  taken,     \* ISL lock
  waiting,   \* Queue<TCB,NoLock> waiting
  pc,        \* where each thread is
  intr,      \* intr[p]: the IF bit while p runs
  was,       \* was[p]: the local of down() and up()
  next,      \* next[p]: the local of up()
  callerIF   \* callerIF[p]: the IF bit when down() or up() was called (history)

vars == <<count, taken, waiting, pc, intr, was, next, callerIF>>

\* Labels of up() before its unlock.
InUp == {"upLock", "upRemove", "upUnlock"}

Labels == {"out", "downLock", "downTest", "downUnlock", "block", "switched", "asleep", "resumed"}
            \cup InUp \cup {"upSchedule"}

\* Labels at which the thread, or the handler that runs for it, owns the lock.
Owning == {"downTest", "downUnlock", "block", "switched", "upRemove", "upUnlock"}

Init ==
  /\ count = Initial
  /\ taken = FALSE
  /\ waiting = <<>>
  /\ pc = [p \in Procs |-> "out"]
  /\ intr = [p \in Procs |-> TRUE]
  /\ was = [p \in Procs |-> FALSE]
  /\ next = [p \in Procs |-> NoProc]
  /\ callerIF = [p \in Procs |-> TRUE]

At(p, from, to) ==
  /\ pc[p] = from
  /\ pc' = [pc EXCEPT ![p] = to]

-----------------------------------------------------------------------------
(* The caller *)

\* The caller may have interrupts off: Interrupts::protect, another lock.
Toggle(p) ==
  /\ pc[p] = "out"
  /\ intr' = [intr EXCEPT ![p] = ~@]
  /\ UNCHANGED <<count, taken, waiting, pc, was, next, callerIF>>

CallDown(p) ==
  /\ At(p, "out", "downLock")
  /\ callerIF' = [callerIF EXCEPT ![p] = intr[p]]
  /\ UNCHANGED <<count, taken, waiting, intr, was, next>>

CallUp(p) ==
  /\ count + Cardinality({q \in Procs : pc[q] \in InUp}) < MaxCount
  /\ At(p, "out", "upLock")
  /\ callerIF' = [callerIF EXCEPT ![p] = intr[p]]
  /\ UNCHANGED <<count, taken, waiting, intr, was, next>>

-----------------------------------------------------------------------------
(* ISL *)

\* auto was = lock.lock()
Lock(p, from, to) ==
  /\ At(p, from, to)
  /\ ~taken
  /\ taken' = TRUE
  /\ was' = [was EXCEPT ![p] = ~intr[p]]
  /\ intr' = [intr EXCEPT ![p] = FALSE]
  /\ UNCHANGED <<count, waiting, next, callerIF>>

\* lock.unlock(was)
Unlock(p, from, to) ==
  /\ At(p, from, to)
  /\ taken' = FALSE
  /\ intr' = [intr EXCEPT ![p] = ~was[p]]
  /\ UNCHANGED <<count, waiting, was, next, callerIF>>

-----------------------------------------------------------------------------
(* down() *)

DownLock(p) == Lock(p, "downLock", "downTest")

\* Faulty: count is decremented before it is tested.
DownTestAfter(p) ==
  /\ At(p, "downTest", IF count > 0 THEN "downUnlock" ELSE "block")
  /\ count' = count - 1
  /\ UNCHANGED <<taken, waiting, intr, was, next, callerIF>>

\* Faulty: the lock is released before block() instead of in its handler.
DownTestUnlocks(p) ==
  /\ At(p, "downTest", IF count > 0 THEN "downUnlock" ELSE "block")
  /\ count' = IF count > 0 THEN count - 1 ELSE count
  /\ taken' = (count > 0)
  /\ UNCHANGED <<waiting, intr, was, next, callerIF>>

\* Faulty: the caller queues itself, releases the lock, and only then calls block().
DownTestQueues(p) ==
  /\ At(p, "downTest", IF count > 0 THEN "downUnlock" ELSE "block")
  /\ count' = IF count > 0 THEN count - 1 ELSE count
  /\ taken' = (count > 0)
  /\ waiting' = IF count > 0 THEN waiting ELSE Append(waiting, p)
  /\ UNCHANGED <<intr, was, next, callerIF>>

\* if (count > 0) count--; otherwise block() with the lock held
DownTest(p) ==
  /\ At(p, "downTest", IF count > 0 THEN "downUnlock" ELSE "block")
  /\ count' = IF count > 0 THEN count - 1 ELSE count
  /\ UNCHANGED <<taken, waiting, intr, was, next, callerIF>>

DownUnlock(p) == Unlock(p, "downUnlock", "out")

\* gheith_contextSwitch leaves p's stack; another thread's stack runs the handler.
SwitchAway(p) ==
  /\ At(p, "block", "switched")
  /\ UNCHANGED <<count, taken, waiting, intr, was, next, callerIF>>

\* The handler: waiting.add(me); lock.unlock(true)
Park(p) ==
  /\ At(p, "switched", "asleep")
  /\ waiting' = Append(waiting, p)
  /\ taken' = FALSE
  /\ UNCHANGED <<count, intr, was, next, callerIF>>

\* Faulty: down() relies on block() to restore the flag.
ResumeMasked(p) ==
  /\ At(p, "resumed", "out")
  /\ UNCHANGED <<count, taken, waiting, intr, was, next, callerIF>>

\* Back from block(), with interrupts off: if (was) cli(); else sti()
Resume(p) ==
  /\ At(p, "resumed", "out")
  /\ intr' = [intr EXCEPT ![p] = ~was[p]]
  /\ UNCHANGED <<count, taken, waiting, was, next, callerIF>>

-----------------------------------------------------------------------------
(* up() *)

UpLock(p) == Lock(p, "upLock", "upRemove")

\* Faulty: the permit is stored as well as given to the waiting thread.
UpCountsTwice(p) ==
  /\ At(p, "upRemove", "upUnlock")
  /\ count' = count + 1
  /\ IF waiting = <<>>
     THEN UNCHANGED <<waiting, next>>
     ELSE /\ next' = [next EXCEPT ![p] = Head(waiting)]
          /\ waiting' = Tail(waiting)
  /\ UNCHANGED <<taken, intr, was, callerIF>>

\* auto next = waiting.remove(); if (next == nullptr) count++
UpRemove(p) ==
  /\ At(p, "upRemove", "upUnlock")
  /\ IF waiting = <<>>
     THEN /\ count' = count + 1
          /\ UNCHANGED <<waiting, next>>
     ELSE /\ next' = [next EXCEPT ![p] = Head(waiting)]
          /\ waiting' = Tail(waiting)
          /\ UNCHANGED count
  /\ UNCHANGED <<taken, intr, was, callerIF>>

UpUnlock(p) == Unlock(p, "upUnlock", IF next[p] = NoProc THEN "out" ELSE "upSchedule")

\* schedule(next): the thread is ready; the scheduler will resume it.
UpSchedule(p) ==
  /\ pc[p] = "upSchedule"
  /\ pc' = [pc EXCEPT ![p] = "out", ![next[p]] = "resumed"]
  /\ next' = [next EXCEPT ![p] = NoProc]
  /\ UNCHANGED <<count, taken, waiting, intr, was, callerIF>>

-----------------------------------------------------------------------------
Step(p) ==
  \/ DownLock(p)
  \/ DownTest(p)
  \/ DownUnlock(p)
  \/ SwitchAway(p)
  \/ Park(p)
  \/ Resume(p)
  \/ UpLock(p)
  \/ UpRemove(p)
  \/ UpUnlock(p)
  \/ UpSchedule(p)

Next == \E p \in Procs : Toggle(p) \/ CallDown(p) \/ CallUp(p) \/ Step(p)

Spec == Init /\ [][Next]_vars

\* A thread that is in down() or up() keeps running: the owner of the lock cannot be
\* preempted, and the others run again because the scheduler is fair (Scheduler!ReadyRuns).
\* Winning the spin lock is not part of it: the loop is not fair between CPUs.
Fairness ==
  \A p \in Procs : WF_vars(Step(p) /\ pc[p] \notin {"downLock", "upLock"})

FairSpec == Spec /\ Fairness

-----------------------------------------------------------------------------
(* Properties *)

\* Every thread is at a step of down() or up(), the queue holds threads, and the
\* unsigned count never goes below zero: down() decrements only after its test.
TypeOK ==
  /\ count \in Nat
  /\ taken \in BOOLEAN
  /\ waiting \in Seq(Procs)
  /\ pc \in [Procs -> Labels]
  /\ intr \in [Procs -> BOOLEAN]
  /\ was \in [Procs -> BOOLEAN]
  /\ next \in [Procs -> Procs \cup {NoProc}]
  /\ callerIF \in [Procs -> BOOLEAN]

\* A permit is never stored while a thread sleeps for one or is on its way to sleep: the
\* test of count, the queueing and the release cannot be interleaved with an up().
NoStrandedWaiter ==
  waiting # <<>> \/ (\E p \in Procs : pc[p] \in {"block", "switched"}) => count = 0

\* The thread that up() passes to schedule() has left its stack: it cannot be started on a
\* second core while the first still executes its down().
WokenIsSwitchedOut ==
  \A p \in Procs : pc[p] = "upSchedule" => pc[next[p]] = "asleep"

\* down() and up() return with the interrupt flag they were called with, also when down()
\* slept and came back with interrupts off.
FlagRestored ==
  [][\A p \in Procs :
       pc[p] \in {"downUnlock", "resumed", "upUnlock"} /\ pc'[p] # pc[p]
         => intr'[p] = callerIF[p]]_vars

InQueue(p) == \E i \in 1..Len(waiting) : waiting[i] = p

\* A down() has its permit once it has decremented count, or once up() has removed it from
\* the queue, whether or not it has been scheduled yet.
status ==
  [p \in Procs |->
     IF pc[p] \in {"downUnlock", "resumed"} \/ (pc[p] = "asleep" /\ ~InQueue(p)) THEN "granted"
     ELSE IF pc[p] = "asleep" THEN "waiting"
     ELSE "out"]

Abstract == INSTANCE AtomicSemaphore WITH queue <- waiting

\* down() and up() take effect at one instant each, in FIFO order, and a thread that has been
\* given a permit returns.
ImplementsAtomic == Abstract!FairSpec
=============================================================================
