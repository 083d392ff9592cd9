------------------------------ MODULE Process ------------------------------
(***************************************************************************)
(* Processes and the system calls that relate them (kernel/sys.cc,         *)
(* kernel/process.h): fork, execl, exit, wait, sem, up, down and close on  *)
(* semaphores and children, with the exit code's Future (kernel/future.h)  *)
(* and the reference counts of Shared<PCB> and Shared<Semaphore>           *)
(* (kernel/shared.h).                                                      *)
(*                                                                         *)
(* A process has one thread, so what a call does to the tables of its own  *)
(* PCB is one step; a call is cut where it sleeps and where the Future it  *)
(* shares with another process can be seen half done.  down() and up() are *)
(* atomic, as module Semaphore shows.  File descriptors are in module      *)
(* Files.  Identifiers are 10..19 for semaphores and 20..29 for children;  *)
(* here both are slots 0..NumSlots-1 of their table.                       *)
(***************************************************************************)
EXTENDS Naturals, Sequences, FiniteSets

CONSTANTS
  Procs,       \* the PCBs, each used once: their number bounds the processes ever made
  Root,        \* the process of kernelMain()
  Sems,        \* the Semaphores, each used once
  NumSlots,    \* the length of a table, 10 in the code
  Codes,       \* exit codes
  MaxCount,    \* bound: the largest initial count, and up() is not called above it
  MaxExecl,    \* bound: calls of execl by one process
  None         \* nullptr

Slots == 0..(NumSlots - 1)

ASSUME ProcessAssumption ==
  /\ Root \in Procs
  /\ NumSlots \in Nat \ {0}
  /\ MaxCount \in Nat
  /\ MaxExecl \in Nat
  /\ None \notin Procs \cup Sems \cup Codes

VARIABLES
  pc,        \* pc[p]: where the thread of p is
  cp,        \* cp[p]: Shared<PCB> cp[10]
  sp,        \* sp[p]: Shared<Semaphore> sp[10]
  slot,      \* slot[p]: the index a sleeping call works on
  pcbRef,    \* pcbRef[p]: ref_count of the PCB of p
  semRef,    \* semRef[s]: ref_count of semaphore s
  made,      \* the semaphores that have been made
  count,     \* count[s]
  waiting,   \* waiting[s]: the processes queued in s
  isReady,   \* isReady[p]: the Future of p
  t,         \* t[p]: its value
  go,        \* go[p]: the count of its semaphore
  failure,   \* why the kernel stopped, or "none"
  exitCode,  \* exitCode[p]: the argument of exit (history)
  leaked     \* leaked[p]: references of calls that never return (history)

pcbVars == <<cp, pcbRef, leaked>>
semVars == <<sp, semRef, made, count, waiting>>
futureVars == <<isReady, t, go, exitCode>>
vars == <<pc, slot, pcbVars, semVars, futureVars, failure>>

Labels == {"unborn", "lost", "user", "exitReady", "exitUp", "stopped", "deleted",
           "waitDown", "waitSleep", "waitUp", "waitCollect", "downSleep"}

\* The calls during which a local Shared<PCB> holds the caller's own PCB.
Holding == {"waitDown", "waitSleep", "waitUp", "waitCollect", "downSleep"}

EmptyTable == [i \in Slots |-> None]

Init ==
  /\ pc = [p \in Procs |-> IF p = Root THEN "user" ELSE "unborn"]
  /\ cp = [p \in Procs |-> EmptyTable]
  /\ sp = [p \in Procs |-> EmptyTable]
  /\ slot = [p \in Procs |-> 0]
  /\ pcbRef = [p \in Procs |-> IF p = Root THEN 1 ELSE 0]
  /\ semRef = [s \in Sems |-> 0]
  /\ made = {}
  /\ count = [s \in Sems |-> 0]
  /\ waiting = [s \in Sems |-> <<>>]
  /\ isReady = [p \in Procs |-> FALSE]
  /\ t = [p \in Procs |-> None]
  /\ go = [p \in Procs |-> 0]
  /\ failure = "none"
  /\ exitCode = [p \in Procs |-> None]
  /\ leaked = [p \in Procs |-> 0]

At(p, from, to) ==
  /\ failure = "none"
  /\ pc[p] = from
  /\ pc' = [pc EXCEPT ![p] = to]

\* A call that returns to user mode without having slept.
Call(p) == failure = "none" /\ pc[p] = "user" /\ UNCHANGED <<pc, slot>>

-----------------------------------------------------------------------------
(* Tables and reference counts *)

Occurrences(table, x) == Cardinality({i \in DOMAIN table : table[i] = x})

\* The first empty slot, as the loops of fork and sem find it.
IsFirstFree(table, i) == table[i] = None /\ \A j \in Slots : j < i => table[j] # None

IsFull(table) == \A i \in Slots : table[i] # None

\* The counts after every reference in a table has been added, or dropped.
AddAll(ref, table) == [x \in DOMAIN ref |-> ref[x] + Occurrences(table, x)]
DropAll(ref, table) == [x \in DOMAIN ref |-> ref[x] - Occurrences(table, x)]

\* The semaphores that exist: a Shared<> deletes its object when the count reaches 0.
Alive == {s \in made : semRef[s] > 0}

-----------------------------------------------------------------------------
(* fork *)

\* makeThread() makes the TCB and its PCB; the first free slot of the table gets the PCB,
\* the semaphores are shared, and the child is scheduled.
ForkChild(p, q, i) ==
  /\ failure = "none"
  /\ pc[p] = "user" /\ pc[q] = "unborn"
  /\ IsFirstFree(cp[p], i)
  /\ pc' = [pc EXCEPT ![q] = "user"]
  /\ cp' = [cp EXCEPT ![p][i] = q]
  /\ pcbRef' = [pcbRef EXCEPT ![q] = 2]
  /\ sp' = [sp EXCEPT ![q] = sp[p]]
  /\ UNCHANGED <<slot, leaked, made, count, waiting, futureVars, failure>>

Fork(p, q, i) ==
  /\ ForkChild(p, q, i)
  /\ semRef' = AddAll(semRef, sp[p])

\* The table is full: -1, after the TCB and its PCB have been made; nobody has them.
ForkFails(p, q) ==
  /\ failure = "none"
  /\ pc[p] = "user" /\ pc[q] = "unborn"
  /\ IsFull(cp[p])
  /\ pc' = [pc EXCEPT ![q] = "lost"]
  /\ pcbRef' = [pcbRef EXCEPT ![q] = 1]
  /\ UNCHANGED <<slot, cp, leaked, semVars, futureVars, failure>>

-----------------------------------------------------------------------------
(* execl *)

\* Both tables are emptied.  The call never returns, so its local Shared<PCB> is never
\* dropped; when the file does not exist the kernel panics.
Execl(p, found) ==
  /\ Call(p)
  /\ leaked[p] < MaxExecl
  /\ sp' = [sp EXCEPT ![p] = EmptyTable]
  /\ semRef' = DropAll(semRef, sp[p])
  /\ cp' = [cp EXCEPT ![p] = EmptyTable]
  /\ pcbRef' = [DropAll(pcbRef, cp[p]) EXCEPT ![p] = @ + 1]
  /\ leaked' = [leaked EXCEPT ![p] = @ + 1]
  /\ failure' = IF found THEN "none" ELSE "execl: no file"
  /\ UNCHANGED <<made, count, waiting, futureVars>>

-----------------------------------------------------------------------------
(* exit, and the end of the thread *)

\* Faulty: isReady is set before t.
ExitReadyFirst(p, rc) ==
  /\ At(p, "user", "exitReady")
  /\ isReady' = [isReady EXCEPT ![p] = TRUE]
  /\ exitCode' = [exitCode EXCEPT ![p] = rc]
  /\ pcbRef' = [pcbRef EXCEPT ![p] = @ + 1]
  /\ leaked' = [leaked EXCEPT ![p] = @ + 1]
  /\ UNCHANGED <<slot, cp, semVars, t, go, failure>>

\* Future::set(): t = v; its ASSERT(!isReady) holds because a process exits once.  The local Shared<PCB> of exit is never dropped.
Exit(p, rc) ==
  /\ At(p, "user", "exitReady")
  /\ t' = [t EXCEPT ![p] = rc]
  /\ exitCode' = [exitCode EXCEPT ![p] = rc]
  /\ pcbRef' = [pcbRef EXCEPT ![p] = @ + 1]
  /\ leaked' = [leaked EXCEPT ![p] = @ + 1]
  /\ UNCHANGED <<slot, cp, semVars, isReady, go, failure>>

\* Future::set(): isReady = true
ExitReady(p) ==
  /\ At(p, "exitReady", "exitUp")
  /\ isReady' = [isReady EXCEPT ![p] = TRUE]
  /\ UNCHANGED <<slot, pcbVars, semVars, t, go, exitCode, failure>>

\* The process asleep in the Future of p.
IsWaitingFor(q, p) == pc[q] = "waitSleep" /\ cp[q][slot[q]] = p

\* Faulty: the permit is stored although a process sleeps.
ExitUpStores(p) ==
  /\ At(p, "exitUp", "stopped")
  /\ go' = [go EXCEPT ![p] = @ + 1]
  /\ UNCHANGED <<slot, pcbVars, semVars, isReady, t, exitCode, failure>>

\* Future::set(): go.up(); then stop()
ExitUp(p) ==
  /\ failure = "none"
  /\ pc[p] = "exitUp"
  /\ \/ \E q \in Procs :
          /\ IsWaitingFor(q, p)
          /\ pc' = [pc EXCEPT ![p] = "stopped", ![q] = "waitUp"]
          /\ UNCHANGED go
     \/ /\ \A q \in Procs : ~IsWaitingFor(q, p)
        /\ pc' = [pc EXCEPT ![p] = "stopped"]
        /\ go' = [go EXCEPT ![p] = @ + 1]
  /\ UNCHANGED <<slot, pcbVars, semVars, isReady, t, exitCode, failure>>

\* delete_zombies(): the TCB drops its PCB.
DeleteTCB(p) ==
  /\ At(p, "stopped", "deleted")
  /\ pcbRef' = [pcbRef EXCEPT ![p] = @ - 1]
  /\ UNCHANGED <<slot, cp, leaked, semVars, futureVars, failure>>

-----------------------------------------------------------------------------
(* wait.  When the slot is empty it returns -1 and changes nothing. *)

\* Future::get(): if (!isReady)
Wait(p, i) ==
  /\ cp[p][i] # None
  /\ At(p, "user", IF isReady[cp[p][i]] THEN "waitCollect" ELSE "waitDown")
  /\ slot' = [slot EXCEPT ![p] = i]
  /\ pcbRef' = [pcbRef EXCEPT ![p] = @ + 1]
  /\ UNCHANGED <<cp, leaked, semVars, futureVars, failure>>

\* Future::get(): go.down()
WaitDown(p) ==
  LET c == cp[p][slot[p]] IN
  /\ At(p, "waitDown", IF go[c] > 0 THEN "waitUp" ELSE "waitSleep")
  /\ go' = [go EXCEPT ![c] = IF @ > 0 THEN @ - 1 ELSE @]
  /\ UNCHANGED <<slot, pcbVars, semVars, isReady, t, exitCode, failure>>

\* Future::get(): go.up().  Nobody else waits for this child: only its parent knows it.
WaitUp(p) ==
  /\ At(p, "waitUp", "waitCollect")
  /\ go' = [go EXCEPT ![cp[p][slot[p]]] = @ + 1]
  /\ UNCHANGED <<slot, pcbVars, semVars, isReady, t, exitCode, failure>>

\* Faulty: the slot keeps the child.
CollectKeepsChild(p) ==
  /\ At(p, "waitCollect", "user")
  /\ slot' = [slot EXCEPT ![p] = 0]
  /\ pcbRef' = [pcbRef EXCEPT ![p] = @ - 1, ![cp[p][slot[p]]] = @ - 1]
  /\ UNCHANGED <<cp, leaked, semVars, futureVars, failure>>

\* *status = t; the slot is emptied.
WaitCollect(p) ==
  /\ At(p, "waitCollect", "user")
  /\ slot' = [slot EXCEPT ![p] = 0]
  /\ pcbRef' = [pcbRef EXCEPT ![p] = @ - 1, ![cp[p][slot[p]]] = @ - 1]
  /\ cp' = [cp EXCEPT ![p][slot[p]] = None]
  /\ UNCHANGED <<leaked, semVars, futureVars, failure>>

-----------------------------------------------------------------------------
(* sem, up and down.  sem returns -1 and changes nothing when the table is full. *)

Sem(p, s, i, initial) ==
  /\ Call(p)
  /\ s \notin made
  /\ IsFirstFree(sp[p], i)
  /\ sp' = [sp EXCEPT ![p][i] = s]
  /\ semRef' = [semRef EXCEPT ![s] = 1]
  /\ made' = made \cup {s}
  /\ count' = [count EXCEPT ![s] = initial]
  /\ UNCHANGED <<pcbVars, waiting, futureVars, failure>>

\* Semaphore::up().  The first sleeper gets the permit and returns from its down, which drops
\* its local reference.
Up(p, i) ==
  LET s == sp[p][i] IN
  /\ failure = "none" /\ pc[p] = "user"
  /\ s # None
  /\ \/ /\ waiting[s] = <<>>
        /\ count[s] < MaxCount
        /\ count' = [count EXCEPT ![s] = @ + 1]
        /\ UNCHANGED <<pc, slot, waiting, pcbRef>>
     \/ /\ waiting[s] # <<>>
        /\ waiting' = [waiting EXCEPT ![s] = Tail(@)]
        /\ pc' = [pc EXCEPT ![Head(waiting[s])] = "user"]
        /\ slot' = [slot EXCEPT ![Head(waiting[s])] = 0]
        /\ pcbRef' = [pcbRef EXCEPT ![Head(waiting[s])] = @ - 1]
        /\ UNCHANGED count
  /\ UNCHANGED <<cp, leaked, sp, semRef, made, futureVars, failure>>

\* Semaphore::down()
Down(p, i) ==
  LET s == sp[p][i] IN
  /\ s # None
  /\ \/ /\ Call(p)
        /\ count[s] > 0
        /\ count' = [count EXCEPT ![s] = @ - 1]
        /\ UNCHANGED <<waiting, pcbRef>>
     \/ /\ At(p, "user", "downSleep")
        /\ count[s] = 0
        /\ slot' = [slot EXCEPT ![p] = i]
        /\ waiting' = [waiting EXCEPT ![s] = Append(@, p)]
        /\ pcbRef' = [pcbRef EXCEPT ![p] = @ + 1]
        /\ UNCHANGED count
  /\ UNCHANGED <<cp, leaked, sp, semRef, made, futureVars, failure>>

\* up and down do not test the slot: nullptr->up() faults below 0x80000000, a panic.
UseNoSemaphore(p, i) ==
  /\ Call(p)
  /\ sp[p][i] = None
  /\ failure' = "no semaphore"
  /\ UNCHANGED <<pcbVars, semVars, futureVars>>

-----------------------------------------------------------------------------
(* close.  An empty slot is left as it is and 0 is returned. *)

CloseSem(p, i) ==
  LET s == sp[p][i] IN
  /\ Call(p)
  /\ s # None
  /\ sp' = [sp EXCEPT ![p][i] = None]
  /\ semRef' = [semRef EXCEPT ![s] = @ - 1]
  /\ UNCHANGED <<pcbVars, made, count, waiting, futureVars, failure>>

CloseChild(p, i) ==
  LET c == cp[p][i] IN
  /\ Call(p)
  /\ c # None
  /\ cp' = [cp EXCEPT ![p][i] = None]
  /\ pcbRef' = [pcbRef EXCEPT ![c] = @ - 1]
  /\ UNCHANGED <<leaked, semVars, futureVars, failure>>

\* fd > 30 lets 30 through: cp[10] is sp[0], and a semaphore that is dropped as if it were
\* a PCB can corrupt anything.
CloseBeyond(p) ==
  /\ Call(p)
  /\ sp[p][0] # None
  /\ failure' = "beyond the table"
  /\ UNCHANGED <<pcbVars, semVars, futureVars>>

\* wait has no bounds at all: from 30 on it takes the semaphores of sp for PCBs.
WaitBeyond(p, i) ==
  /\ Call(p)
  /\ sp[p][i] # None
  /\ failure' = "beyond the table"
  /\ UNCHANGED <<pcbVars, semVars, futureVars>>

-----------------------------------------------------------------------------
ExitStep(p) == ExitReady(p) \/ ExitUp(p)
WaitStep(p) == WaitDown(p) \/ WaitUp(p) \/ WaitCollect(p)

SemCall(p, i) ==
  \/ \E s \in Sems, n \in 0..MaxCount : Sem(p, s, i, n)
  \/ Up(p, i)
  \/ Down(p, i)
  \/ UseNoSemaphore(p, i)
  \/ CloseSem(p, i)
  \/ WaitBeyond(p, i)

Next ==
  \E p \in Procs :
    \/ \E q \in Procs : ForkFails(p, q) \/ \E i \in Slots : Fork(p, q, i)
    \/ \E found \in BOOLEAN : Execl(p, found)
    \/ \E rc \in Codes : Exit(p, rc)
    \/ ExitStep(p)
    \/ DeleteTCB(p)
    \/ CloseBeyond(p)
    \/ \E i \in Slots : Wait(p, i) \/ CloseChild(p, i) \/ SemCall(p, i)
    \/ WaitStep(p)

Spec == Init /\ [][Next]_vars

\* A thread that is inside exit or wait goes on when it is not asleep (Scheduler!ReadyRuns).
FairSpec == Spec /\ \A p \in Procs : WF_vars(ExitStep(p)) /\ WF_vars(WaitStep(p))

-----------------------------------------------------------------------------
(* Properties *)

\* The tables of the PCBs hold what fork, sem, close and wait put there, and neither the count
\* of a semaphore (down blocks first) nor a reference count (drop) goes below zero.
TypeOK ==
  /\ pc \in [Procs -> Labels]
  /\ cp \in [Procs -> [Slots -> Procs \cup {None}]]
  /\ sp \in [Procs -> [Slots -> Sems \cup {None}]]
  /\ slot \in [Procs -> Slots]
  /\ pcbRef \in [Procs -> Nat]
  /\ semRef \in [Sems -> Nat]
  /\ made \subseteq Sems
  /\ count \in [Sems -> Nat]
  /\ waiting \in [Sems -> Seq(Procs)]
  /\ isReady \in [Procs -> BOOLEAN]
  /\ t \in [Procs -> Codes \cup {None}]
  /\ go \in [Procs -> Nat]
  /\ exitCode \in [Procs -> Codes \cup {None}]
  /\ leaked \in [Procs -> Nat]

Refs(tables, x) == Cardinality({e \in Procs \X Slots : tables[e[1]][e[2]] = x})

One(b) == IF b THEN 1 ELSE 0

\* No process has, or sleeps in, a semaphore that was deleted by the close, execl or exit of
\* another one.
SemaphoreAlive ==
  \A p \in Procs :
    /\ \A i \in Slots : sp[p][i] # None => sp[p][i] \in Alive
    /\ pc[p] = "downSleep" =>
         \E s \in Alive : s = sp[p][slot[p]] /\ \E k \in DOMAIN waiting[s] : waiting[s][k] = p

\* Every count is the number of references there are: the slots of all tables, the TCB, the
\* local of a call that sleeps, and the locals of exit and execl, which nobody can drop.  So what a process has is alive.
RefsExact ==
  /\ TypeOK /\ SemaphoreAlive
  /\ \A p \in Procs :
       pcbRef[p] = Refs(cp, p) + One(pc[p] \notin {"unborn", "deleted"})
                     + One(pc[p] \in Holding) + leaked[p]
  /\ \A s \in Sems : semRef[s] = Refs(sp, s)

\* A child is in one slot of one process: only one process can wait for it, or disown it.
OneParent == \A q \in Procs : Refs(cp, q) <= 1

\* When wait takes the exit code, the child it was called for has called exit, and the code
\* is the one it gave; nobody else can have waited for that child.
WaitSeesExitCode ==
  /\ OneParent
  /\ \A p \in Procs : pc[p] = "waitCollect" =>
       LET c == cp[p][slot[p]] IN
       /\ c # None
       /\ exitCode[c] # None
       /\ t[c] = exitCode[c]

\* A wait returns once the child has called exit, whether or not it was asleep by then.
WaitReturns ==
  \A p \in Procs :
    (/\ pc[p] \in {"waitDown", "waitSleep"}
     /\ cp[p][slot[p]] # None /\ exitCode[cp[p][slot[p]]] # None)
      ~> (pc[p] = "user" \/ failure # "none")
=============================================================================
