---------------------------- MODULE MCRendezvous ----------------------------
(***************************************************************************)
(* The places where threads or processors wait for each other, in one run: *)
(* BoundedBuffer, Barrier, ReusableBarrier and Boot.  They share nothing;  *)
(* `which' says the behaviours of which one a behaviour is of, and the     *)
(* variables of the others keep their initial values.  Which item the      *)
(* uninitialised slots hold is fixed: Items are interchangeable.           *)
(***************************************************************************)
EXTENDS Naturals, Sequences, FiniteSets

CONSTANTS
  N, Putters, Getters, Items, NoItem, MaxPuts,  \* BoundedBuffer
  Comers, Count,                         \* Barrier
  Members, NoThread, Rounds,             \* ReusableBarrier
  NumCores, Tables                       \* Boot

VARIABLES
  which,
  head, n, data, sem, pcBuffer, then, item, puts,
  countBarrier, permits, waiting, pcBarrier,
  lock, countRounds, epoch, signals, queue, pcRounds, seen, old, entered, left,
  table, totalProcs, smpInitDone, running, here, pcBoot, stack, nextId, open, globals, mains

buffer  == <<head, n, data, sem, pcBuffer, then, item, puts>>
barrier == <<countBarrier, permits, waiting, pcBarrier>>
rounds  == <<lock, countRounds, epoch, signals, queue, pcRounds, seen, old, entered, left>>
boot    == <<table, totalProcs, smpInitDone, running, here, pcBoot, stack, nextId, open,
             globals, mains>>
vars    == <<which, buffer, barrier, rounds, boot>>

Buffer  == INSTANCE BoundedBuffer WITH pc <- pcBuffer
Once    == INSTANCE Barrier WITH Threads <- Comers, count <- countBarrier, pc <- pcBarrier
Rounded == INSTANCE ReusableBarrier WITH Threads <- Members, count <- countRounds, pc <- pcRounds
Start   == INSTANCE Boot WITH pc <- pcBoot

ASSUME RendezvousAssumption ==
  /\ Buffer!BoundedBufferAssumption
  /\ Once!BarrierAssumption
  /\ Rounded!ReusableBarrierAssumption
  /\ Start!BootAssumption

Init ==
  /\ which \in {"buffer", "barrier", "rounds", "boot"}
  /\ Buffer!Init /\ Once!Init /\ Rounded!Init /\ Start!Init
  /\ which # "boot" => table = CHOOSE t \in Tables : TRUE
  /\ \A t \in Putters : item[t] = CHOOSE i \in Items : TRUE

BufferWork(t)  == which = "buffer" /\ Buffer!Work(t) /\ UNCHANGED <<which, barrier, rounds, boot>>
BarrierStep(t) == which = "barrier" /\ Once!Step(t) /\ UNCHANGED <<which, buffer, rounds, boot>>
RoundsStep(t)  == which = "rounds" /\ Rounded!Step(t) /\ UNCHANGED <<which, buffer, barrier, boot>>
BootStep(c)    == which = "boot" /\ Start!Core(c) /\ UNCHANGED <<which, buffer, barrier, rounds>>

BarrierCall(t) ==
  which = "barrier" /\ Once!Call(t) /\ UNCHANGED <<which, buffer, rounds, boot>>

CallPut ==
  /\ which = "buffer"
  /\ \E t \in Putters, i \in Items : Buffer!CallPut(t, i)
  /\ UNCHANGED <<which, barrier, rounds, boot>>

Next ==
  \/ CallPut
  \/ \E t \in Putters \cup Getters : BufferWork(t)
  \/ \E t \in Comers : BarrierCall(t) \/ BarrierStep(t)
  \/ \E t \in Members : RoundsStep(t)
  \/ \E c \in Start!Cores : BootStep(c)

\* The fairness of the four modules.
FairSpec ==
  /\ Init /\ [][Next]_vars
  /\ \A t \in Putters \cup Getters : WF_vars(BufferWork(t))
  /\ \A t \in Comers : WF_vars(BarrierStep(t))
  /\ \A t \in Members : WF_vars(RoundsStep(t))
  /\ \A c \in Start!Cores : WF_vars(BootStep(c))

-----------------------------------------------------------------------------
(* The tables of Boot *)

P(i) == [type |-> "apic", processorId |-> i]
IO == [type |-> "ioapic", processorId |-> 0]
Other == [type |-> "other", processorId |-> 0]

\* As many processors as answer, in two orders; fewer; one that does not answer;
\* another processor's entry first; an entry's image behind the table.
MCTables == {
  [entries |-> <<P(0), P(1), P(2), IO>>, after |-> Other],
  [entries |-> <<IO, P(1), P(0), P(2)>>, after |-> Other],
  [entries |-> <<P(0), P(1)>>, after |-> Other],
  [entries |-> <<P(0), P(1), P(2), P(3)>>, after |-> Other],
  [entries |-> <<P(1), P(0), P(2)>>, after |-> Other],
  [entries |-> <<P(0), P(1), IO>>, after |-> P(2)]}

-----------------------------------------------------------------------------
(* Properties *)

\* bb.h: the ring is a FIFO queue of at most N items, whoever puts and gets.
ImplementsChannel == Buffer!ImplementsChannel

\* bb.h: every item that was put is got.
EverythingGot == Buffer!EverythingGot

\* barrier.h: nobody passes a barrier before all have come, once or in any round.
NobodyEarly == Once!NobodyEarly /\ Rounded!NobodyAhead

\* condition.h: no signal is missed, a thread sleeps only while its round is open;
\* bb.h: no permit is lost, they account for the slots of the ring and for the lock.
NothingLost == Rounded!NoMissedSignal /\ Buffer!SlotsAccounted

\* barrier.h: all threads get through, at once or through all rounds.
AllPass == Once!AllPass /\ (which = "rounds" => Rounded!AllRounds)

\* init.cc: processors boot on stacks of their own, the globals are set up once
\* and before a second processor runs.
BootedApart == Start!BootedApart

\* init.cc, config.cc: each processor of the table is counted once, and kernelMain
\* starts once, after all cores, with the keyboard unmasked.
MainLast == Start!MainLast

\* init.cc: kernelMain starts, unless more processors are counted than answer.
BootCompletes == Start!BootCompletes
=============================================================================
