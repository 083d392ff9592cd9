------------------------------ MODULE Barrier ------------------------------
(***************************************************************************)
(* class Barrier (kernel/barrier.h): Count threads meet once.  down() and  *)
(* up() of its semaphore are one step each, as in AtomicSemaphore.         *)
(***************************************************************************)
EXTENDS Integers, Sequences, FiniteSets

CONSTANTS
  Threads,   \* the threads that call sync(), each once
  Count      \* the argument of the constructor

\* Assumed by the modules that give the constants their values.
BarrierAssumption == Count \in Nat \ {0}

VARIABLES
  count,     \* Atomic<int32_t> count
  permits,   \* the count of sem
  waiting,   \* the queue of sem
  pc         \* where each thread is

vars == <<count, permits, waiting, pc>>

Init ==
  /\ count = Count
  /\ permits = 0
  /\ waiting = <<>>
  /\ pc = [t \in Threads |-> "out"]

\* count.add_fetch(-1) and the test of what it returned.
Sync(t) ==
  /\ pc[t] = "out"
  /\ count' = count - 1
  /\ pc' = [pc EXCEPT ![t] = IF count' < 0 THEN "panic" ELSE IF count' = 0 THEN "up" ELSE "down"]
  /\ UNCHANGED <<permits, waiting>>

Down(t) ==
  /\ pc[t] = "down"
  /\ IF permits > 0
     THEN /\ permits' = permits - 1
          /\ pc' = [pc EXCEPT ![t] = "up"]
          /\ UNCHANGED waiting
     ELSE /\ waiting' = Append(waiting, t)
          /\ pc' = [pc EXCEPT ![t] = "asleep"]
          /\ UNCHANGED permits
  /\ UNCHANGED count

\* Faulty: a thread that was woken does not wake the next one.
UpLastOnly(t) ==
  /\ pc[t] = "up"
  /\ IF waiting = <<>> \/ \E u \in Threads : pc[u] = "passed"
     THEN /\ permits' = permits + (IF waiting = <<>> THEN 1 ELSE 0)
          /\ pc' = [pc EXCEPT ![t] = "passed"]
          /\ UNCHANGED waiting
     ELSE /\ waiting' = Tail(waiting)
          /\ pc' = [pc EXCEPT ![t] = "passed", ![Head(waiting)] = "up"]
          /\ UNCHANGED permits
  /\ UNCHANGED count

\* The last thread's permit goes from one thread to the next.
Up(t) ==
  /\ pc[t] = "up"
  /\ IF waiting = <<>>
     THEN /\ permits' = permits + 1
          /\ pc' = [pc EXCEPT ![t] = "passed"]
          /\ UNCHANGED waiting
     ELSE /\ waiting' = Tail(waiting)
          /\ pc' = [pc EXCEPT ![t] = "passed", ![Head(waiting)] = "up"]
          /\ UNCHANGED permits
  /\ UNCHANGED count

\* After a panic nothing runs.
Running == \A t \in Threads : pc[t] # "panic"

Call(t) == Running /\ Sync(t)

Step(t) == Running /\ (Down(t) \/ Up(t))

Next == \E t \in Threads : Call(t) \/ Step(t)

\* Nobody has to call sync(); a thread that did goes on.
FairSpec == Init /\ [][Next]_vars /\ \A t \in Threads : WF_vars(Step(t))

-----------------------------------------------------------------------------
(* Properties *)

\* Nobody passes before Count threads have called sync(), and sync() panics only
\* for the threads that come after them (barrier.h:20-29).
NobodyEarly ==
  LET called == {t \in Threads : pc[t] # "out"}
  IN  /\ \A t \in Threads : pc[t] = "passed" => Cardinality(called) >= Count
      /\ Cardinality({t \in Threads : pc[t] = "panic"}) =
           (IF Cardinality(called) > Count THEN Cardinality(called) - Count ELSE 0)

\* Once Count threads have called sync(), the last one's permit reaches all of
\* them, unless one thread too many makes the kernel panic.
AllPass ==
  (Cardinality({t \in Threads : pc[t] # "out"}) >= Count) ~>
    (Cardinality({t \in Threads : pc[t] = "passed"}) = Count \/ ~Running)
=============================================================================
