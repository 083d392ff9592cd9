-------------------------- MODULE SemaphoreProofs --------------------------
(***************************************************************************)
(* Semaphore keeps its invariants, and implements AtomicSemaphore, for any *)
(* set of threads and any initial count.                                   *)
(*                                                                         *)
(* The lock is what makes the steps of down() and up() appear as one, and  *)
(* it is passed on in the middle of down() to the switch handler, so the   *)
(* invariant says who owns it.  It also says where a sleeping thread can be*)
(* found: in the queue once, or in the `next` of one up().                 *)
(***************************************************************************)
EXTENDS Semaphore, SequenceTheorems, TLAPS

OneOwner ==
  \A p \in Procs :
    pc[p] \in Owning => taken /\ \A q \in Procs : pc[q] \in Owning => p = q

QueueAsleep ==
  /\ \A i \in 1..Len(waiting) : pc[waiting[i]] = "asleep"
  /\ \A i, j \in 1..Len(waiting) : waiting[i] = waiting[j] => i = j

NextAsleep ==
  \A p \in Procs :
    /\ pc[p] = "upSchedule" => next[p] # NoProc
    /\ next[p] # NoProc =>
         /\ pc[p] \in {"upUnlock", "upSchedule"}
         /\ pc[next[p]] = "asleep"
         /\ \A i \in 1..Len(waiting) : waiting[i] # next[p]
         /\ \A q \in Procs : next[q] = next[p] => p = q

FlagSaved ==
  \A p \in Procs :
    /\ pc[p] \in {"downLock", "upLock"} => (intr[p] <=> callerIF[p])
    /\ pc[p] \in Owning \cup {"asleep", "resumed"} => (was[p] <=> ~callerIF[p])

IInv ==
  /\ TypeOK
  /\ OneOwner
  /\ NoStrandedWaiter
  /\ QueueAsleep
  /\ NextAsleep
  /\ FlagSaved

-----------------------------------------------------------------------------
(* What remove() does to the queue. *)

\* Removing the head shifts every other element by one.
LEMMA TailFacts ==
  ASSUME NEW S, NEW s \in Seq(S), s # <<>>
  PROVE  /\ Head(s) = s[1] /\ s[1] \in S
         /\ Tail(s) \in Seq(S)
         /\ Len(s) \in Nat \ {0}
         /\ \A i \in 1..Len(Tail(s)) : i + 1 \in 1..Len(s) /\ i + 1 # 1 /\ Tail(s)[i] = s[i + 1]
         /\ \A j \in 1..Len(s) : j # 1 => j - 1 \in 1..Len(Tail(s)) /\ Tail(s)[j - 1] = s[j]
<1>1. Len(s) \in Nat \ {0} /\ s[1] \in S /\ Head(s) = s[1]
  BY EmptySeq, ElementOfSeq
<1>2. /\ Tail(s) \in Seq(S)
      /\ Len(Tail(s)) = Len(s) - 1
      /\ \A i \in 1..Len(Tail(s)) : Tail(s)[i] = s[i + 1]
  BY HeadTailProperties
<1> QED
  BY <1>1, <1>2

(* The invariant holds initially and every action preserves it. *)

\* Nobody uses the semaphore.
LEMMA InitIInv == Init => IInv
<1> SUFFICES ASSUME Init PROVE IInv
  OBVIOUS
<1> USE DEF Init
<1>1. TypeOK
  BY SemaphoreAssumption, EmptySeq DEF TypeOK, Labels, InUp
<1>2. OneOwner /\ NoStrandedWaiter
  BY DEF OneOwner, NoStrandedWaiter, Owning
<1>3. QueueAsleep /\ NextAsleep /\ FlagSaved
  BY DEF QueueAsleep, NextAsleep, FlagSaved, Owning
<1> QED
  BY <1>1, <1>2, <1>3 DEF IInv

\* The thread is outside the semaphore.
LEMMA ToggleStep == ASSUME IInv, NEW p \in Procs, Toggle(p) PROVE IInv'
<1> USE SemaphoreAssumption DEF IInv, TypeOK, Toggle
<1>1. TypeOK'
  BY DEF Labels, InUp
<1>2. OneOwner'
  BY DEF OneOwner, Owning
<1>3. NoStrandedWaiter'
  BY DEF NoStrandedWaiter
<1>4. QueueAsleep'
  BY DEF QueueAsleep
<1>5. NextAsleep'
  BY DEF NextAsleep
<1>6. FlagSaved'
  BY DEF FlagSaved, Owning
<1> QED
  BY <1>1, <1>2, <1>3, <1>4, <1>5, <1>6

\* The call only records the flag of the caller.
LEMMA CallDownStep == ASSUME IInv, NEW p \in Procs, CallDown(p) PROVE IInv'
<1> USE SemaphoreAssumption DEF IInv, TypeOK, CallDown, At
<1>1. TypeOK'
  BY DEF Labels, InUp
<1>2. OneOwner'
  BY DEF OneOwner, Owning
<1>3. NoStrandedWaiter'
  BY DEF NoStrandedWaiter
<1>4. QueueAsleep'
  BY DEF QueueAsleep
<1>5. NextAsleep'
  BY DEF NextAsleep
<1>6. FlagSaved'
  BY DEF FlagSaved, Owning
<1> QED
  BY <1>1, <1>2, <1>3, <1>4, <1>5, <1>6

\* As for CallDown.
LEMMA CallUpStep == ASSUME IInv, NEW p \in Procs, CallUp(p) PROVE IInv'
<1> USE SemaphoreAssumption DEF IInv, TypeOK, CallUp, At
<1>1. TypeOK'
  BY DEF Labels, InUp
<1>2. OneOwner'
  BY DEF OneOwner, Owning
<1>3. NoStrandedWaiter'
  BY DEF NoStrandedWaiter
<1>4. QueueAsleep'
  BY DEF QueueAsleep
<1>5. NextAsleep'
  BY DEF NextAsleep
<1>6. FlagSaved'
  BY DEF FlagSaved, Owning
<1> QED
  BY <1>1, <1>2, <1>3, <1>4, <1>5, <1>6

\* The lock was free, so there was no owner.
LEMMA DownLockStep == ASSUME IInv, NEW p \in Procs, DownLock(p) PROVE IInv'
<1> USE SemaphoreAssumption DEF IInv, TypeOK, DownLock, At, Lock
<1>1. TypeOK'
  BY DEF Labels, InUp
<1>2. OneOwner'
  BY DEF OneOwner, Owning
<1>3. NoStrandedWaiter'
  BY DEF NoStrandedWaiter
<1>4. QueueAsleep'
  BY DEF QueueAsleep
<1>5. NextAsleep'
  BY DEF NextAsleep
<1>6. FlagSaved'
  BY DEF FlagSaved, Owning
<1> QED
  BY <1>1, <1>2, <1>3, <1>4, <1>5, <1>6

\* A thread goes to block() only when it has seen count = 0, and it still owns the lock.
LEMMA DownTestStep == ASSUME IInv, NEW p \in Procs, DownTest(p) PROVE IInv'
<1> USE SemaphoreAssumption DEF IInv, TypeOK, DownTest, At
<1>1. TypeOK'
  BY DEF Labels, InUp
<1>2. OneOwner'
  BY DEF OneOwner, Owning
<1>3. NoStrandedWaiter'
  BY DEF NoStrandedWaiter
<1>4. QueueAsleep'
  BY DEF QueueAsleep
<1>5. NextAsleep'
  BY DEF NextAsleep
<1>6. FlagSaved'
  BY DEF FlagSaved, Owning
<1> QED
  BY <1>1, <1>2, <1>3, <1>4, <1>5, <1>6

\* The owner leaves.
LEMMA DownUnlockStep == ASSUME IInv, NEW p \in Procs, DownUnlock(p) PROVE IInv'
<1> USE SemaphoreAssumption DEF IInv, TypeOK, DownUnlock, At, Unlock
<1>1. TypeOK'
  BY DEF Labels, InUp
<1>2. OneOwner'
  BY DEF OneOwner, Owning
<1>3. NoStrandedWaiter'
  BY DEF NoStrandedWaiter
<1>4. QueueAsleep'
  BY DEF QueueAsleep
<1>5. NextAsleep'
  BY DEF NextAsleep
<1>6. FlagSaved'
  BY DEF FlagSaved, Owning
<1> QED
  BY <1>1, <1>2, <1>3, <1>4, <1>5, <1>6

\* The lock stays with the handler.
LEMMA SwitchAwayStep == ASSUME IInv, NEW p \in Procs, SwitchAway(p) PROVE IInv'
<1> USE SemaphoreAssumption DEF IInv, TypeOK, SwitchAway, At
<1>1. TypeOK'
  BY DEF Labels, InUp
<1>2. OneOwner'
  BY DEF OneOwner, Owning
<1>3. NoStrandedWaiter'
  BY DEF NoStrandedWaiter
<1>4. QueueAsleep'
  BY DEF QueueAsleep
<1>5. NextAsleep'
  BY DEF NextAsleep
<1>6. FlagSaved'
  BY DEF FlagSaved, Owning
<1> QED
  BY <1>1, <1>2, <1>3, <1>4, <1>5, <1>6

\* The thread enters the queue at the instant at which the lock is released.
LEMMA ParkStep == ASSUME IInv, NEW p \in Procs, Park(p) PROVE IInv'
<1> USE SemaphoreAssumption DEF IInv, TypeOK, Park, At
<1>1. TypeOK'
  BY AppendProperties DEF Labels, InUp
<1>2. OneOwner'
  BY DEF OneOwner, Owning
<1>3. NoStrandedWaiter'
  BY DEF NoStrandedWaiter
<1>4. QueueAsleep'
  BY DEF QueueAsleep
<1>5. NextAsleep'
  BY DEF NextAsleep
<1>6. FlagSaved'
  BY DEF FlagSaved, Owning
<1> QED
  BY <1>1, <1>2, <1>3, <1>4, <1>5, <1>6

\* The thread is in no queue.
LEMMA ResumeStep == ASSUME IInv, NEW p \in Procs, Resume(p) PROVE IInv'
<1> USE SemaphoreAssumption DEF IInv, TypeOK, Resume, At
<1>1. TypeOK'
  BY DEF Labels, InUp
<1>2. OneOwner'
  BY DEF OneOwner, Owning
<1>3. NoStrandedWaiter'
  BY DEF NoStrandedWaiter
<1>4. QueueAsleep'
  BY DEF QueueAsleep
<1>5. NextAsleep'
  BY DEF NextAsleep
<1>6. FlagSaved'
  BY DEF FlagSaved, Owning
<1> QED
  BY <1>1, <1>2, <1>3, <1>4, <1>5, <1>6

\* As for DownLock.
LEMMA UpLockStep == ASSUME IInv, NEW p \in Procs, UpLock(p) PROVE IInv'
<1> USE SemaphoreAssumption DEF IInv, TypeOK, UpLock, At, Lock
<1>1. TypeOK'
  BY DEF Labels, InUp
<1>2. OneOwner'
  BY DEF OneOwner, Owning
<1>3. NoStrandedWaiter'
  BY DEF NoStrandedWaiter
<1>4. QueueAsleep'
  BY DEF QueueAsleep
<1>5. NextAsleep'
  BY DEF NextAsleep
<1>6. FlagSaved'
  BY DEF FlagSaved, Owning
<1> QED
  BY <1>1, <1>2, <1>3, <1>4, <1>5, <1>6

\* up() owns the lock: count is zero whenever it finds a thread in the queue, and the thread
\* it removes is nowhere else.
LEMMA UpRemoveStep == ASSUME IInv, NEW p \in Procs, UpRemove(p) PROVE IInv'
<1> USE SemaphoreAssumption DEF IInv, TypeOK, UpRemove, At
<1>1. OneOwner' /\ FlagSaved'
  BY DEF OneOwner, FlagSaved, Owning
<1>2. \A q \in Procs : pc[q] \notin {"block", "switched"}
  BY DEF OneOwner, Owning
<1>3. CASE waiting = <<>>
  <2>1. TypeOK'
    BY <1>3 DEF Labels, InUp
  <2>2. NoStrandedWaiter'
    BY <1>2, <1>3 DEF NoStrandedWaiter
  <2>3. QueueAsleep' /\ NextAsleep'
    BY <1>3 DEF QueueAsleep, NextAsleep
  <2> QED
    BY <1>1, <2>1, <2>2, <2>3
<1>4. CASE waiting # <<>>
  <2>1. /\ waiting' = Tail(waiting)
        /\ next' = [next EXCEPT ![p] = waiting[1]]
        /\ count' = count
    BY <1>4
  <2>2. /\ waiting' \in Seq(Procs)
        /\ waiting[1] \in Procs
        /\ Len(waiting) \in Nat \ {0}
        /\ \A i \in 1..Len(waiting') :
             i + 1 \in 1..Len(waiting) /\ i + 1 # 1 /\ waiting'[i] = waiting[i + 1]
    BY <1>4, <2>1, TailFacts
  <2>3. /\ pc[waiting[1]] = "asleep"
        /\ \A i \in 1..Len(waiting') : waiting'[i] # waiting[1] /\ pc[waiting'[i]] = "asleep"
    <3>1. 1 \in 1..Len(waiting)
      BY <2>2
    <3>2. pc[waiting[1]] = "asleep"
      BY <3>1 DEF QueueAsleep
    <3>3. ASSUME NEW i \in 1..Len(waiting')
          PROVE  waiting'[i] # waiting[1] /\ pc[waiting'[i]] = "asleep"
      <4>1. i + 1 \in 1..Len(waiting) /\ i + 1 # 1 /\ waiting'[i] = waiting[i + 1]
        BY <2>2
      <4> QED
        BY <3>1, <4>1 DEF QueueAsleep
    <3> QED
      BY <3>2, <3>3
  <2>4. TypeOK'
    BY <2>1, <2>2 DEF Labels, InUp
  <2>5. NoStrandedWaiter'
    BY <1>2, <1>4, <2>1 DEF NoStrandedWaiter
  <2>6. QueueAsleep'
    <3>1. \A i \in 1..Len(waiting') : pc'[waiting'[i]] = "asleep"
      BY <2>2, <2>3
    <3>2. ASSUME NEW i \in 1..Len(waiting'), NEW j \in 1..Len(waiting'),
                 waiting'[i] = waiting'[j]
          PROVE  i = j
      <4>1. i + 1 = j + 1
        BY <2>2, <3>2 DEF QueueAsleep
      <4> QED
        BY <4>1
    <3> QED
      BY <3>1, <3>2 DEF QueueAsleep
  <2>7. NextAsleep'
    <3>1. \A q \in Procs : next[q] # waiting[1]
      BY <2>2 DEF NextAsleep
    <3> QED
      BY <2>1, <2>2, <2>3, <3>1 DEF NextAsleep
  <2> QED
    BY <1>1, <2>4, <2>5, <2>6, <2>7
<1> QED
  BY <1>3, <1>4

\* The owner leaves; a thread it removed is still asleep.
LEMMA UpUnlockStep == ASSUME IInv, NEW p \in Procs, UpUnlock(p) PROVE IInv'
<1> USE SemaphoreAssumption DEF IInv, TypeOK, UpUnlock, At, Unlock
<1>1. TypeOK'
  BY DEF Labels, InUp
<1>2. OneOwner'
  BY DEF OneOwner, Owning
<1>3. NoStrandedWaiter'
  BY DEF NoStrandedWaiter
<1>4. QueueAsleep'
  BY DEF QueueAsleep
<1>5. NextAsleep'
  BY DEF NextAsleep
<1>6. FlagSaved'
  BY DEF FlagSaved, Owning
<1> QED
  BY <1>1, <1>2, <1>3, <1>4, <1>5, <1>6

\* Only this up() knows the thread it schedules.
LEMMA UpScheduleStep == ASSUME IInv, NEW p \in Procs, UpSchedule(p) PROVE IInv'
<1> USE SemaphoreAssumption DEF IInv, TypeOK, UpSchedule
<1>1. TypeOK'
  BY DEF Labels, InUp
<1>2. OneOwner'
  BY DEF OneOwner, Owning, NextAsleep
<1>3. NoStrandedWaiter'
  BY DEF NoStrandedWaiter, NextAsleep
<1>4. QueueAsleep'
  BY DEF QueueAsleep, NextAsleep
<1>5. NextAsleep'
  BY DEF NextAsleep
<1>6. FlagSaved'
  BY DEF FlagSaved, Owning, NextAsleep
<1> QED
  BY <1>1, <1>2, <1>3, <1>4, <1>5, <1>6

LEMMA NextIInv == IInv /\ [Next]_vars => IInv'
<1> SUFFICES ASSUME IInv, [Next]_vars PROVE IInv'
  OBVIOUS
<1>1. ASSUME NEW p \in Procs, Toggle(p) \/ CallDown(p) \/ CallUp(p) PROVE IInv'
  BY <1>1, ToggleStep, CallDownStep, CallUpStep
<1>2. ASSUME NEW p \in Procs, Step(p) PROVE IInv'
  BY <1>2, DownLockStep, DownTestStep, DownUnlockStep, SwitchAwayStep, ParkStep, ResumeStep,
     UpLockStep, UpRemoveStep, UpUnlockStep, UpScheduleStep DEF Step
<1>3. CASE UNCHANGED vars
  BY <1>3 DEF vars, IInv, TypeOK, OneOwner, NoStrandedWaiter, QueueAsleep, NextAsleep, FlagSaved
<1> QED
  BY <1>1, <1>2, <1>3 DEF Next

-----------------------------------------------------------------------------
(* Theorems *)

\* The inductive invariant holds in every reachable state of a semaphore.
THEOREM Invariant == Spec => []IInv
<1>1. Init => IInv
  BY InitIInv
<1>2. IInv /\ [Next]_vars => IInv'
  BY NextIInv
<1> QED
  BY <1>1, <1>2, PTL DEF Spec

\* count never goes below zero, and the other variables keep their types.
THEOREM TypeCorrect == Spec => []TypeOK
<1>1. IInv => TypeOK
  BY DEF IInv
<1> QED
  BY <1>1, Invariant, PTL

\* No thread sleeps in Semaphore::down() while a permit is stored.
THEOREM WaiterIsNotStranded == Spec => []NoStrandedWaiter
<1>1. IInv => NoStrandedWaiter
  BY DEF IInv
<1> QED
  BY <1>1, Invariant, PTL

\* Semaphore::up() schedules only threads whose context has been saved.
THEOREM SchedulesSwitchedOut == Spec => []WokenIsSwitchedOut
<1>1. IInv => WokenIsSwitchedOut
  BY DEF IInv, TypeOK, NextAsleep, WokenIsSwitchedOut
<1> QED
  BY <1>1, Invariant, PTL

\* Semaphore::down() and up() give every caller its own interrupt flag back.
THEOREM FlagIsRestored == Spec => FlagRestored
<1> DEFINE Restored == \A p \in Procs :
             pc[p] \in {"downUnlock", "resumed", "upUnlock"} /\ pc'[p] # pc[p]
               => intr'[p] = callerIF[p]
<1>1. IInv /\ [Next]_vars => [Restored]_vars
  <2> SUFFICES ASSUME IInv, Next, NEW p \in Procs,
                      pc[p] \in {"downUnlock", "resumed", "upUnlock"}, pc'[p] # pc[p]
               PROVE  intr'[p] = callerIF[p]
    OBVIOUS
  <2> USE DEF IInv, TypeOK
  <2>1. PICK q \in Procs : Toggle(q) \/ CallDown(q) \/ CallUp(q) \/ Step(q)
    BY DEF Next
  <2>2. ASSUME NEW from, NEW to, At(q, from, to) PROVE q = p /\ from = pc[p]
    BY <2>2 DEF At
  <2>3. ~UpSchedule(q) /\ ~Toggle(q)
    BY DEF UpSchedule, Toggle, NextAsleep
  <2>4. DownUnlock(p) \/ Resume(p) \/ UpUnlock(p)
    BY <2>1, <2>2, <2>3 DEF CallDown, CallUp, Step, DownLock, DownTest, DownUnlock,
       SwitchAway, Park, Resume, UpLock, UpRemove, UpUnlock, Lock, Unlock
  <2>5. intr'[p] = ~was[p]
    BY <2>4 DEF DownUnlock, Resume, UpUnlock, Unlock
  <2>6. was[p] <=> ~callerIF[p]
    BY DEF FlagSaved, Owning
  <2> QED
    BY <2>5, <2>6
<1> QED
  BY <1>1, Invariant, PTL DEF Spec, FlagRestored

-----------------------------------------------------------------------------
(* Refinement: the lock, the context switch and the scheduling are stutters of       *)
(* AtomicSemaphore; the test of count, the queueing by the handler and the removal by*)
(* up() are its steps.                                                               *)

\* The initial states are those of the atomic semaphore.
LEMMA RefineInit == Init => Abstract!Init
BY EmptySeq DEF Init, Abstract!Init, status

\* Two states with the same queue and control states have the same abstract state.
LEMMA SameStatus ==
  ASSUME waiting' = waiting, count' = count,
         \A q \in Procs : status'[q] = status[q]
  PROVE  UNCHANGED Abstract!vars
BY DEF Abstract!vars, status

\* Every step of down() and up() is a step of the atomic semaphore or a stutter.
LEMMA RefineNext == IInv /\ [Next]_vars => [Abstract!Next]_(Abstract!vars)
<1> SUFFICES ASSUME IInv, [Next]_vars PROVE [Abstract!Next]_(Abstract!vars)
  OBVIOUS
<1> USE DEF IInv, TypeOK
<1>1. ASSUME NEW p \in Procs,
             \/ Toggle(p) \/ CallDown(p) \/ CallUp(p)
             \/ DownLock(p) \/ SwitchAway(p) \/ UpLock(p) \/ UpUnlock(p)
      PROVE  UNCHANGED Abstract!vars
  <2>1. /\ waiting' = waiting /\ count' = count
        /\ \A q \in Procs : q # p => pc'[q] = pc[q]
        /\ pc[p] \notin {"downUnlock", "resumed", "asleep"}
        /\ pc'[p] \notin {"downUnlock", "resumed", "asleep"}
    BY <1>1 DEF Toggle, CallDown, CallUp, DownLock, SwitchAway, UpLock, UpUnlock, Lock,
                Unlock, At
  <2> QED
    BY <2>1, SameStatus DEF status, InQueue
<1>2. ASSUME NEW p \in Procs, DownTest(p) PROVE [Abstract!Next]_(Abstract!vars)
  <2> USE <1>2 DEF DownTest, At
  <2>1. CASE count > 0
    <3>1. status' = [status EXCEPT ![p] = "granted"] /\ status[p] = "out"
      BY <2>1 DEF status, InQueue
    <3> QED
      BY <2>1, <3>1 DEF Abstract!Next, Abstract!Down
  <2>2. CASE ~(count > 0)
    BY <2>2, SameStatus DEF status, InQueue
  <2> QED
    BY <2>1, <2>2
<1>3. ASSUME NEW p \in Procs, Park(p) PROVE Abstract!Next
  <2> USE <1>3 DEF Park, At
  <2>1. count = 0
    BY DEF NoStrandedWaiter
  <2>2. /\ InQueue(p)'
        /\ \A q \in Procs : q # p => (InQueue(q)' <=> InQueue(q))
    BY AppendProperties DEF InQueue
  <2>3. status' = [status EXCEPT ![p] = "waiting"] /\ status[p] = "out"
    BY <2>2 DEF status
  <2> QED
    BY <2>1, <2>3 DEF Abstract!Next, Abstract!Down
<1>4. ASSUME NEW p \in Procs, DownUnlock(p) \/ Resume(p) PROVE Abstract!Next
  <2>1. /\ pc[p] \in {"downUnlock", "resumed"} /\ pc' = [pc EXCEPT ![p] = "out"]
        /\ waiting' = waiting /\ count' = count
    BY <1>4 DEF DownUnlock, Resume, Unlock, At
  <2>2. status' = [status EXCEPT ![p] = "out"] /\ status[p] = "granted"
    BY <2>1 DEF status, InQueue
  <2> QED
    BY <2>1, <2>2 DEF Abstract!Next, Abstract!Return
<1>5. ASSUME NEW p \in Procs, UpRemove(p) PROVE Abstract!Next
  <2> USE <1>5 DEF UpRemove, At
  <2>1. CASE waiting = <<>>
    <3>1. status' = status /\ status[p] = "out"
      BY <2>1 DEF status, InQueue
    <3> QED
      BY <2>1, <3>1 DEF Abstract!Next, Abstract!Up
  <2>2. CASE waiting # <<>>
    <3>h. PICK h \in Procs : h = Head(waiting)
      BY <2>2, TailFacts
    <3>0. waiting' = Tail(waiting)
      BY <2>2
    <3>1. /\ h = waiting[1]
          /\ 1 \in 1..Len(waiting)
          /\ \A i \in 1..Len(waiting') :
               i + 1 \in 1..Len(waiting) /\ i + 1 # 1 /\ waiting'[i] = waiting[i + 1]
          /\ \A j \in 1..Len(waiting) : j # 1 =>
               j - 1 \in 1..Len(waiting') /\ waiting'[j - 1] = waiting[j]
      BY <2>2, <3>h, <3>0, TailFacts
    <3>2. InQueue(h) /\ ~InQueue(h)' /\ pc[h] = "asleep"
      <4>1. ASSUME NEW i \in 1..Len(waiting') PROVE waiting'[i] # h
        <5>1. i + 1 \in 1..Len(waiting) /\ i + 1 # 1 /\ waiting'[i] = waiting[i + 1]
          BY <3>1
        <5> QED
          BY <3>1, <5>1 DEF QueueAsleep
      <4> QED
        BY <3>1, <4>1 DEF InQueue, QueueAsleep
    <3>3. ASSUME NEW q \in Procs, q # h PROVE InQueue(q)' <=> InQueue(q)
      <4>1. ASSUME InQueue(q)' PROVE InQueue(q)
        BY <3>1, <4>1 DEF InQueue
      <4>2. ASSUME InQueue(q) PROVE InQueue(q)'
        <5>1. PICK i \in 1..Len(waiting) : waiting[i] = q
          BY <4>2 DEF InQueue
        <5>2. i - 1 \in 1..Len(waiting') /\ waiting'[i - 1] = q
          BY <3>1, <3>3, <5>1
        <5> QED
          BY <5>2 DEF InQueue
      <4> QED
        BY <4>1, <4>2
    <3>4. status' = [status EXCEPT ![h] = "granted"] /\ status[p] = "out"
      <4>1. ASSUME NEW q \in Procs, q # h PROVE status'[q] = status[q]
        BY <3>3, <4>1 DEF status
      <4>2. status'[h] = "granted" /\ status[p] = "out"
        BY <3>1, <3>2 DEF status
      <4>3. status' = [q \in Procs |-> status'[q]] /\ status = [q \in Procs |-> status[q]]
        BY DEF status
      <4>4. status' = [status EXCEPT ![h] = "granted"]
        BY <4>1, <4>2, <4>3
      <4> QED
        BY <4>2, <4>4
    <3> QED
      BY <2>2, <3>h, <3>0, <3>4 DEF Abstract!Next, Abstract!Up
  <2> QED
    BY <2>1, <2>2
<1>6. ASSUME NEW p \in Procs, UpSchedule(p) PROVE UNCHANGED Abstract!vars
  <2> USE <1>6 DEF UpSchedule
  <2>1. next[p] \in Procs /\ pc[next[p]] = "asleep" /\ ~InQueue(next[p])
    BY DEF NextAsleep, InQueue
  <2> QED
    BY <2>1, SameStatus DEF status, InQueue
<1>7. CASE UNCHANGED vars
  BY <1>7 DEF vars, Abstract!vars, status, InQueue
<1> QED
  BY <1>1, <1>2, <1>3, <1>4, <1>5, <1>6, <1>7 DEF Next, Step

\* class Semaphore behaves as if down() and up() were single steps on a counter with a FIFO
\* queue (the safety part of ImplementsAtomic).
THEOREM Refinement == Spec => Abstract!Spec
<1>1. Init => Abstract!Init
  BY RefineInit
<1>2. IInv /\ [Next]_vars => [Abstract!Next]_(Abstract!vars)
  BY RefineNext
<1> QED
  BY <1>1, <1>2, Invariant, PTL DEF Spec, Abstract!Spec
=============================================================================
