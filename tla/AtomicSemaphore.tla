-------------------------- MODULE AtomicSemaphore --------------------------
(***************************************************************************)
(* What class Semaphore promises to its users: down() takes a permit or    *)
(* queues, up() gives its permit to the first in the queue or stores it,   *)
(* each in one step.                                                       *)
(***************************************************************************)
EXTENDS Naturals, Sequences

CONSTANTS
  Procs,    \* the threads that use the semaphore
  Initial   \* the initial count

VARIABLES
  count,    \* stored permits
  queue,    \* threads that wait, first come first served
  status    \* "out", "waiting" in down(), or "granted": down() has its permit

vars == <<count, queue, status>>

Init ==
  /\ count = Initial
  /\ queue = <<>>
  /\ status = [p \in Procs |-> "out"]

Down(p) ==
  /\ status[p] = "out"
  /\ \/ /\ count > 0
        /\ count' = count - 1
        /\ status' = [status EXCEPT ![p] = "granted"]
        /\ UNCHANGED queue
     \/ /\ count = 0
        /\ queue' = Append(queue, p)
        /\ status' = [status EXCEPT ![p] = "waiting"]
        /\ UNCHANGED count

Return(p) ==
  /\ status[p] = "granted"
  /\ status' = [status EXCEPT ![p] = "out"]
  /\ UNCHANGED <<count, queue>>

Up(p) ==
  /\ status[p] = "out"
  /\ \/ /\ queue = <<>>
        /\ count' = count + 1
        /\ UNCHANGED <<queue, status>>
     \/ /\ queue # <<>>
        /\ queue' = Tail(queue)
        /\ status' = [status EXCEPT ![Head(queue)] = "granted"]
        /\ UNCHANGED count

Next == \E p \in Procs : Down(p) \/ Return(p) \/ Up(p)

Spec == Init /\ [][Next]_vars

\* A thread that was given a permit returns from down().
FairSpec == Spec /\ \A p \in Procs : WF_vars(Return(p))
=============================================================================
