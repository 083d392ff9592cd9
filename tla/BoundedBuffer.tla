--------------------------- MODULE BoundedBuffer ---------------------------
(***************************************************************************)
(* class BoundedBuffer (kernel/bb.h): a ring of N slots, two semaphores    *)
(* that count empty and full slots, and a third one as lock.  Threads put  *)
(* or get; stream() makes such a putting thread.  down() and up() are one  *)
(* step each, as in AtomicSemaphore, which module Semaphore implements.    *)
(***************************************************************************)
EXTENDS Naturals, Sequences, FiniteSets

CONSTANTS
  N,         \* the argument of the constructor
  Putters,   \* threads that call put
  Getters,   \* threads that call get, for ever
  Items,     \* the values of type T
  NoItem,    \* no value of type T
  MaxPuts    \* bound: calls of put, all together

Threads == Putters \cup Getters
Sems == {"nEmpty", "nFull", "lock"}

\* Assumed by the modules that give the constants their values.
BoundedBufferAssumption ==
  /\ N \in Nat \ {0}
  /\ Putters \cap Getters = {}
  /\ Items # {} /\ NoItem \notin Items
  /\ MaxPuts \in Nat

VARIABLES
  head, n, data,   \* the fields
  sem,             \* sem[s]: count and waiting threads
  pc,              \* where each thread is; asleep while it waits for a permit
  then,            \* then[t]: where the down() in which t sleeps returns to
  item,            \* item[t]: the argument of put, or the result of get
  puts             \* calls of put so far

vars == <<head, n, data, sem, pc, then, item, puts>>
fields == <<head, n, data>>

Init ==
  /\ head = 0
  /\ n = 0
  /\ \E i \in Items : data = [k \in 0..(N - 1) |-> i] /\ item = [t \in Threads |-> i]
  /\ sem = [s \in Sems |-> [count |-> IF s = "nEmpty" THEN N ELSE IF s = "lock" THEN 1 ELSE 0,
                            waiting |-> <<>>]]
  /\ pc = [t \in Threads |-> IF t \in Putters THEN "out" ELSE "getFull"]
  /\ then = [t \in Threads |-> "out"]
  /\ puts = 0

Goto(t, from, to) == pc[t] = from /\ pc' = [pc EXCEPT ![t] = to]

Down(t, from, s, to) ==
  /\ pc[t] = from
  /\ IF sem[s].count > 0
     THEN /\ sem' = [sem EXCEPT ![s].count = @ - 1]
          /\ pc' = [pc EXCEPT ![t] = to]
          /\ UNCHANGED then
     ELSE /\ sem' = [sem EXCEPT ![s].waiting = Append(@, t)]
          /\ pc' = [pc EXCEPT ![t] = "asleep"]
          /\ then' = [then EXCEPT ![t] = to]
  /\ UNCHANGED <<fields, item, puts>>

Up(t, from, s, to) ==
  /\ pc[t] = from
  /\ IF sem[s].waiting = <<>>
     THEN /\ sem' = [sem EXCEPT ![s].count = @ + 1]
          /\ pc' = [pc EXCEPT ![t] = to]
          /\ UNCHANGED then
     ELSE LET w == Head(sem[s].waiting)
          IN  /\ sem' = [sem EXCEPT ![s].waiting = Tail(@)]
              /\ pc' = [pc EXCEPT ![t] = to, ![w] = then[w]]
              /\ then' = [then EXCEPT ![w] = "out"]
  /\ UNCHANGED <<fields, item, puts>>

-----------------------------------------------------------------------------
(* put: nEmpty.down(), lock.down(), ..., lock.up(), nFull.up() *)

CallPut(t, i) ==
  /\ Goto(t, "out", "putEmpty")
  /\ puts < MaxPuts
  /\ puts' = puts + 1
  /\ item' = [item EXCEPT ![t] = i]
  /\ UNCHANGED <<fields, sem, then>>

PutEmpty(t) == Down(t, "putEmpty", "nEmpty", "putLock")

\* Faulty: goes on without the lock.
PutUnlocked(t) == Goto(t, "putLock", "putData") /\ UNCHANGED <<fields, sem, then, item, puts>>

PutLock(t) == Down(t, "putLock", "lock", "putData")

PutData(t) ==
  /\ Goto(t, "putData", "putCount")
  /\ data' = [data EXCEPT ![(head + n) % N] = item[t]]
  /\ UNCHANGED <<head, n, sem, then, item, puts>>

PutCount(t) ==
  /\ Goto(t, "putCount", "putUnlock")
  /\ n' = n + 1
  /\ UNCHANGED <<head, data, sem, then, item, puts>>

PutUnlock(t) == Up(t, "putUnlock", "lock", "putFull")

\* Faulty: no permit for those who get.
PutSilent(t) == Goto(t, "putFull", "out") /\ UNCHANGED <<fields, sem, then, item, puts>>

PutFull(t) == Up(t, "putFull", "nFull", "out")

-----------------------------------------------------------------------------
(* get: nFull.down(), lock.down(), ..., lock.up(), nEmpty.up() *)

GetFull(t) == Down(t, "getFull", "nFull", "getLock")

GetLock(t) == Down(t, "getLock", "lock", "getData")

GetData(t) ==
  /\ Goto(t, "getData", "getCount")
  /\ item' = [item EXCEPT ![t] = data[head]]
  /\ head' = (head + 1) % N
  /\ UNCHANGED <<n, data, sem, then, puts>>

GetCount(t) ==
  /\ Goto(t, "getCount", "getUnlock")
  /\ n' = n - 1
  /\ UNCHANGED <<head, data, sem, then, item, puts>>

GetUnlock(t) == Up(t, "getUnlock", "lock", "getEmpty")

GetEmpty(t) == Up(t, "getEmpty", "nEmpty", "getFull")

Work(t) ==
  \/ PutEmpty(t) \/ PutLock(t) \/ PutData(t) \/ PutCount(t) \/ PutUnlock(t) \/ PutFull(t)
  \/ GetFull(t) \/ GetLock(t) \/ GetData(t) \/ GetCount(t) \/ GetUnlock(t) \/ GetEmpty(t)

Next == \E t \in Threads : Work(t) \/ (t \in Putters /\ \E i \in Items : CallPut(t, i))

\* The scheduler is fair to the threads; nobody has to call put.
FairSpec == Init /\ [][Next]_vars /\ \A t \in Threads : WF_vars(Work(t))

-----------------------------------------------------------------------------
(* Properties *)

\* A getter between its two assignments has moved head and not yet n.
Between == Cardinality({t \in Getters : pc[t] = "getCount"})

InRing == [k \in 1..(IF n > Between THEN n - Between ELSE 0) |-> data[(head + k - 1) % N]]

\* A put counts from the moment n includes its item.
Offered == [p \in Putters |->
  IF pc[p] \in {"out", "putUnlock", "putFull"} THEN NoItem ELSE item[p]]

Abstract == INSTANCE Channel WITH offer <- Offered, channel <- InRing,
                                  out <- [g \in Getters |-> item[g]]

\* With any number of threads on both sides the ring is a queue of at most N
\* items: each put appends its own item once and each get takes the oldest, so
\* that none is lost, doubled, overwritten or out of order (bb.h:25-44).
ImplementsChannel == Abstract!Spec

\* At any time the permits account for the slots: an item's slot is empty, full,
\* or in the hands of one thread, and at most one thread holds the lock.
SlotsAccounted ==
  LET InLock  == {t \in Threads : pc[t] \in {"putData", "putCount", "putUnlock",
                                             "getData", "getCount", "getUnlock"}}
      Holding == InLock \cup {t \in Threads :
                   \/ pc[t] \in {"putLock", "putFull", "getLock", "getEmpty"}
                   \/ pc[t] = "asleep" /\ then[t] \in {"putData", "getData"}}
  IN  /\ sem["nEmpty"].count + sem["nFull"].count + Cardinality(Holding) = N
      /\ sem["lock"].count + Cardinality(InLock) = 1

\* Every item that was put is got, whoever sleeps when (the order of the downs
\* before the lock and of the ups after it, bb.h:26-31 and 36-42).
EverythingGot == (n > 0) ~> (n = 0)
=============================================================================
