------------------------- MODULE InterruptSafeLock -------------------------
(***************************************************************************)
(* class InterruptSafeLock of kernel/atomic.h, with the interrupt flag it  *)
(* manipulates and the MONITOR/MWAIT pair it sleeps with.                  *)
(*                                                                         *)
(* One lock is contended by every CPU.  A CPU executes a thread, and, while*)
(* its interrupt flag is set, an interrupt may push a handler on top of the*)
(* thread (interrupt gates clear the flag, so handlers do not nest).  Both *)
(* levels take the same lock: Debug::printf is called by threads and by    *)
(* keyBoardHandler, readyQ is used by threads and by apitHandler.          *)
(*                                                                         *)
(* Every label of pc is one instruction of lock() or unlock() that another *)
(* CPU, or a handler on the same CPU, can observe.                         *)
(***************************************************************************)
CONSTANT CPUs

VARIABLES
  taken,        \* Atomic<bool> taken
  was,          \* volatile bool was, written by the holder only
  intr,         \* intr[c]: the IF bit of CPU c
  irq,          \* irq[c]: CPU c executes a handler on top of its thread
  armed,        \* armed[c]: CPU c has executed MONITOR on &taken and no other
                \*           CPU has stored to it since
  pc,           \* pc[c][k]: where level k of CPU c is
  wasDisabled,  \* wasDisabled[c][k]: the local of lock() and of unlock()
  callerIF      \* callerIF[c][k]: the IF bit when lock() was called (history)

vars == <<taken, was, intr, irq, armed, pc, wasDisabled, callerIF>>

Levels == {"thread", "handler"}

\* Labels at which interrupts are off on this CPU because of the lock.
Masked == {"exchange", "save", "backoff", "critical", "release", "restore"}

\* Labels at which this context owns the lock.
Owning == {"save", "critical", "release"}

\* Labels of a context that is trying to get the lock and does not have it.
Trying == {"monitor", "disable", "exchange", "backoff", "mwait", "asleep"}

Labels == {"idle"} \cup Masked \cup Trying

\* The handler runs instead of the thread while an interrupt is served.
Running(c, k) == irq[c] <=> (k = "handler")

Init ==
  /\ taken = FALSE
  /\ was = FALSE
  /\ intr = [c \in CPUs |-> TRUE]
  /\ irq = [c \in CPUs |-> FALSE]
  /\ armed = [c \in CPUs |-> FALSE]
  /\ pc = [c \in CPUs |-> [k \in Levels |-> "idle"]]
  /\ wasDisabled = [c \in CPUs |-> [k \in Levels |-> FALSE]]
  /\ callerIF = [c \in CPUs |-> [k \in Levels |-> FALSE]]

At(c, k, from, to) ==
  /\ Running(c, k)
  /\ pc[c][k] = from
  /\ pc' = [pc EXCEPT ![c][k] = to]

\* A store to the monitored line wakes every other CPU that armed its monitor.
StoreTaken(c, value) ==
  /\ taken' = value
  /\ armed' = [d \in CPUs |-> armed[d] /\ d = c]

-----------------------------------------------------------------------------
(* lock() *)

\* taken.monitor_value()
Monitor(c, k) ==
  /\ \/ At(c, k, "idle", "disable") /\ callerIF' = [callerIF EXCEPT ![c][k] = intr[c]]
     \/ At(c, k, "monitor", "disable") /\ UNCHANGED callerIF
  /\ armed' = [armed EXCEPT ![c] = TRUE]
  /\ UNCHANGED <<taken, was, intr, irq, wasDisabled>>

\* Faulty: the flag is remembered but cli() is forgotten.
DisableWithoutCli(c, k) ==
  /\ At(c, k, "disable", "exchange")
  /\ wasDisabled' = [wasDisabled EXCEPT ![c][k] = ~intr[c]]
  /\ UNCHANGED <<taken, was, intr, irq, armed, callerIF>>

\* Faulty: was = Interrupts::disable(), before the exchange is won.
DisableIntoShared(c, k) ==
  /\ At(c, k, "disable", "exchange")
  /\ wasDisabled' = [wasDisabled EXCEPT ![c][k] = ~intr[c]]
  /\ was' = ~intr[c]
  /\ intr' = [intr EXCEPT ![c] = FALSE]
  /\ UNCHANGED <<taken, irq, armed, callerIF>>

\* bool wasDisabled = Interrupts::disable()
Disable(c, k) ==
  /\ At(c, k, "disable", "exchange")
  /\ wasDisabled' = [wasDisabled EXCEPT ![c][k] = ~intr[c]]
  /\ intr' = [intr EXCEPT ![c] = FALSE]
  /\ UNCHANGED <<taken, was, irq, armed, callerIF>>

\* Faulty: if (!taken.get()), with the store forgotten.
ExchangeIsGet(c, k) ==
  /\ At(c, k, "exchange", IF taken THEN "backoff" ELSE "save")
  /\ UNCHANGED <<taken, was, intr, irq, armed, wasDisabled, callerIF>>

\* if (!taken.exchange(true)): the store happens whether or not it succeeds.
Exchange(c, k) ==
  /\ At(c, k, "exchange", IF taken THEN "backoff" ELSE "save")
  /\ StoreTaken(c, TRUE)
  /\ UNCHANGED <<was, intr, irq, wasDisabled, callerIF>>

\* was = wasDisabled; return
SaveWas(c, k) ==
  /\ At(c, k, "save", "critical")
  /\ was' = wasDisabled[c][k]
  /\ UNCHANGED <<taken, intr, irq, armed, wasDisabled, callerIF>>

\* Interrupts::restore(wasDisabled) after a failed exchange
Backoff(c, k) ==
  /\ At(c, k, "backoff", "mwait")
  /\ intr' = [intr EXCEPT ![c] = @ \/ ~wasDisabled[c][k]]
  /\ UNCHANGED <<taken, was, irq, armed, wasDisabled, callerIF>>

\* Faulty: the monitor is armed right before MWAIT instead of before the exchange.
MwaitRearms(c, k) ==
  /\ At(c, k, "mwait", "asleep")
  /\ armed' = [armed EXCEPT ![c] = TRUE]
  /\ UNCHANGED <<taken, was, intr, irq, wasDisabled, callerIF>>

\* iAmStuckInALoop(true): MWAIT falls through when the monitor is not armed.
Mwait(c, k) ==
  /\ At(c, k, "mwait", IF armed[c] THEN "asleep" ELSE "monitor")
  /\ UNCHANGED <<taken, was, intr, irq, armed, wasDisabled, callerIF>>

\* A store by another CPU ends the sleep.
Wake(c, k) ==
  /\ At(c, k, "asleep", "monitor")
  /\ ~armed[c]
  /\ UNCHANGED <<taken, was, intr, irq, armed, wasDisabled, callerIF>>

-----------------------------------------------------------------------------
(* unlock() *)

\* auto wasDisabled = was
ReadWas(c, k) ==
  /\ At(c, k, "critical", "release")
  /\ wasDisabled' = [wasDisabled EXCEPT ![c][k] = was]
  /\ UNCHANGED <<taken, was, intr, irq, armed, callerIF>>

\* taken.set(false)
Release(c, k) ==
  /\ At(c, k, "release", "restore")
  /\ StoreTaken(c, FALSE)
  /\ UNCHANGED <<was, intr, irq, wasDisabled, callerIF>>

\* Interrupts::restore(wasDisabled)
Restore(c, k) ==
  /\ At(c, k, "restore", "idle")
  /\ intr' = [intr EXCEPT ![c] = @ \/ ~wasDisabled[c][k]]
  /\ UNCHANGED <<taken, was, irq, armed, wasDisabled, callerIF>>

-----------------------------------------------------------------------------
(* The environment of the lock: the rest of the kernel and the hardware.   *)

\* The thread, outside the lock, runs cli or sti (Interrupts::protect, another lock).
ToggleInterrupts(c) ==
  /\ ~irq[c]
  /\ pc[c]["thread"] = "idle"
  /\ intr' = [intr EXCEPT ![c] = ~@]
  /\ UNCHANGED <<taken, was, irq, armed, pc, wasDisabled, callerIF>>

\* An interrupt is delivered; it also ends a sleep in MWAIT.
Interrupt(c) ==
  /\ intr[c]
  /\ ~irq[c]
  /\ irq' = [irq EXCEPT ![c] = TRUE]
  /\ intr' = [intr EXCEPT ![c] = FALSE]
  /\ pc' = [pc EXCEPT ![c]["thread"] = IF @ = "asleep" THEN "monitor" ELSE @]
  /\ UNCHANGED <<taken, was, armed, wasDisabled, callerIF>>

\* iret of the handler's stub
Iret(c) ==
  /\ irq[c]
  /\ pc[c]["handler"] = "idle"
  /\ irq' = [irq EXCEPT ![c] = FALSE]
  /\ intr' = [intr EXCEPT ![c] = TRUE]
  /\ UNCHANGED <<taken, was, armed, pc, wasDisabled, callerIF>>

Lock(c, k) ==
  \/ Monitor(c, k)
  \/ Disable(c, k)
  \/ Exchange(c, k)
  \/ SaveWas(c, k)
  \/ Backoff(c, k)
  \/ Mwait(c, k)
  \/ Wake(c, k)

Unlock(c, k) ==
  \/ ReadWas(c, k)
  \/ Release(c, k)
  \/ Restore(c, k)

Environment(c) ==
  \/ ToggleInterrupts(c)
  \/ Interrupt(c)
  \/ Iret(c)

Next ==
  \/ \E c \in CPUs, k \in Levels : Lock(c, k) \/ Unlock(c, k)
  \/ \E c \in CPUs : Environment(c)

Spec == Init /\ [][Next]_vars

\* A CPU keeps executing the lock() or unlock() it has started.  A thread loses
\* its CPU to handlers again and again, hence strong fairness; a handler does not.
\* Nothing obliges a context to call lock().
Continue(c, k) ==
  /\ pc[c][k] # "idle"
  /\ Lock(c, k) \/ Unlock(c, k)

Fairness ==
  \A c \in CPUs :
    /\ SF_vars(Continue(c, "thread"))
    /\ WF_vars(Continue(c, "handler"))
    /\ WF_vars(Iret(c))
    /\ WF_vars(Interrupt(c))     \* the APIT is programmed as periodic

FairSpec == Spec /\ Fairness

-----------------------------------------------------------------------------
(* Properties *)

\* Every context is at a step of lock() or unlock(); the lock word and the flags are bool.
TypeOK ==
  /\ taken \in BOOLEAN
  /\ was \in BOOLEAN
  /\ intr \in [CPUs -> BOOLEAN]
  /\ irq \in [CPUs -> BOOLEAN]
  /\ armed \in [CPUs -> BOOLEAN]
  /\ pc \in [CPUs -> [Levels -> Labels]]
  /\ wasDisabled \in [CPUs -> [Levels -> BOOLEAN]]
  /\ callerIF \in [CPUs -> [Levels -> BOOLEAN]]

\* At most one of all threads and handlers is past a successful exchange and has
\* not yet executed taken.set(false).
MutualExclusion ==
  \A c, d \in CPUs : \A k, l \in Levels :
    pc[c][k] \in Owning /\ pc[d][l] \in Owning => c = d /\ k = l

\* Between cli and the restore, the thread is not covered by a handler: a handler
\* that needs the lock never spins on top of the thread that holds it.
HolderUninterrupted ==
  \A c \in CPUs : pc[c]["thread"] \in Masked => ~irq[c] /\ ~intr[c]

\* unlock() puts back the interrupt flag its own caller had when it called lock(),
\* although `was` is one field shared by all users of the lock.
FlagRestored ==
  [][\A c \in CPUs, k \in Levels :
       pc[c][k] = "restore" /\ pc'[c][k] = "idle" => intr'[c] = callerIF[c][k]]_vars

\* A context that sleeps in MWAIT with interrupts off, which only a store to `taken`
\* can end, sleeps only while the lock is taken: the release it waits for has not
\* happened yet.
NoLostWakeup ==
  \A c \in CPUs, k \in Levels :
    pc[c][k] = "asleep" /\ armed[c] /\ ~intr[c] /\ Running(c, k) => taken

\* While contexts are trying, one of them gets the lock.
Progress ==
  (\E c \in CPUs, k \in Levels : pc[c][k] \in Trying)
    ~> (\E c \in CPUs, k \in Levels : pc[c][k] = "critical")
=============================================================================
