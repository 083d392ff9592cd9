----------------------------- MODULE Scheduler -----------------------------
(***************************************************************************)
(* The thread scheduler: block(), yield(), stop(), thread() and the reaper *)
(* (kernel/threads.h, kernel/threads.cc), the context switch               *)
(* (kernel/context.s), the ready and zombie queues (kernel/queue.h) and the*)
(* timer interrupt that preempts (apitHandler of kernel/pit.cc).           *)
(*                                                                         *)
(* A core executes on the stack of one TCB, loaded[c].  What it runs is the*)
(* program counter of that TCB: a label of thread code, or a label inside  *)
(* block().  activeThreads[c] is what the rest of the kernel believes to be*)
(* running, and the two differ inside block().  The idle TCB of core c is  *)
(* represented by c itself.  Queue operations are atomic: each is one      *)
(* critical section of an InterruptSafeLock (module InterruptSafeLock).    *)
(***************************************************************************)
EXTENDS Naturals, Sequences, FiniteSets

CONSTANTS
  Cores,     \* cores, and their idle TCBs
  Threads,   \* TCBs of TCBWithStack; their number bounds the live threads
  Reaper,    \* the thread started by threadsInit()
  Main,      \* the thread that runs kernelMain()
  NoTCB      \* nullptr

ASSUME SchedulerAssumption ==
  /\ Reaper \in Threads
  /\ Main \in Threads \ {Reaper}
  /\ Cores \cap Threads = {}
  /\ NoTCB \notin Cores \cup Threads

VARIABLES
  readyQ,         \* Queue readyQ
  zombies,        \* Queue zombies
  waiting,        \* TCBs in the waiting queue of some semaphore
  activeThreads,  \* activeThreads[c]
  loaded,         \* loaded[c]: whose stack and page directory core c is using
  intr,           \* intr[c]: the IF bit of core c
  noPreempt,      \* saveArea.no_preempt
  savedIF,        \* the IF bit pushed on a TCB's stack by contextSwitch
  pc,             \* pc[t]: where the code on t's stack is
  reason,         \* reason[t]: who called block() on t's stack
  resume,         \* resume[t]: the label of thread code block() returns to
  me, core, next, \* me[t], core_id[t], next_tcb[t]: the locals of block()
  source,         \* source[c]: the TCB the switch handler on core c is given
  zombie          \* zombie[t]: `it` of delete_zombies()

blockVars == <<reason, resume, me, core, next>>
vars == <<readyQ, zombies, waiting, activeThreads, loaded, intr, noPreempt, savedIF,
          pc, blockVars, source, zombie>>

TCBs == Cores \cup Threads

\* Thread code: its own work, delete_zombies() before and after zombies.remove(),
\* the new TCB of thread(), and the reaper's call of yield().
Code == {"run", "reap", "delete", "create", "yield"}

\* block(), up to and including the context switch.
Inside == {"remove", "claim", "publish", "switch"}

Labels == Code \cup Inside \cup {"finish", "parked", "free"}

\* After boot every core is in kernelInit(), about to call stop() on its idle TCB;
\* the reaper and the thread of kernelMain() have been scheduled.
Init ==
  /\ readyQ = <<Reaper, Main>>
  /\ zombies = <<>>
  /\ waiting = {}
  /\ activeThreads = [c \in Cores |-> c]
  /\ loaded = [c \in Cores |-> c]
  /\ intr = [c \in Cores |-> TRUE]
  /\ noPreempt = [t \in TCBs |-> FALSE]
  /\ savedIF = [t \in TCBs |-> TRUE]
  /\ pc = [t \in TCBs |-> IF t \in Cores THEN "run"
                          ELSE IF t \in {Reaper, Main} THEN "parked" ELSE "free"]
  /\ reason = [t \in TCBs |-> "none"]
  /\ resume = [t \in TCBs |-> IF t = Reaper THEN "reap" ELSE "run"]
  /\ me = [t \in TCBs |-> t]
  /\ core = [t \in TCBs |-> NoTCB]
  /\ next = [t \in TCBs |-> NoTCB]
  /\ source = [c \in Cores |-> NoTCB]
  /\ zombie = [t \in TCBs |-> NoTCB]

Goto(t, label) == pc' = [pc EXCEPT ![t] = label]

\* block() returns on t's stack to the code that called it.  The locals of the call are
\* dead and reset, so that states that differ only in them are the same state.
Return(t) ==
  /\ Goto(t, resume[t])
  /\ reason' = [reason EXCEPT ![t] = "none"]
  /\ resume' = [resume EXCEPT ![t] = "run"]
  /\ core' = [core EXCEPT ![t] = NoTCB]
  /\ next' = [next EXCEPT ![t] = NoTCB]
  /\ UNCHANGED me

-----------------------------------------------------------------------------
(* block() *)

\* The protected section at the top of block().
Block(c, why) ==
  LET t == loaded[c] IN
  /\ reason' = [reason EXCEPT ![t] = why]
  /\ resume' = [resume EXCEPT ![t] = IF why = "yield" THEN "reap" ELSE pc[t]]
  /\ me' = [me EXCEPT ![t] = activeThreads[c]]
  /\ core' = [core EXCEPT ![t] = c]
  /\ noPreempt' = [noPreempt EXCEPT ![activeThreads[c]] = TRUE]
  /\ Goto(t, "remove")
  /\ UNCHANGED <<readyQ, waiting, activeThreads, loaded, savedIF, next, source, zombie>>

CanReturn(t) == reason[t] \in {"yield", "preempt"}

\* readyQ.remove() returns a thread.
RemoveReady(c) ==
  LET t == loaded[c] IN
  /\ pc[t] = "remove"
  /\ readyQ # <<>>
  /\ next' = [next EXCEPT ![t] = Head(readyQ)]
  /\ readyQ' = Tail(readyQ)
  /\ Goto(t, "claim")
  /\ UNCHANGED <<zombies, waiting, activeThreads, loaded, intr, noPreempt, savedIF,
                 reason, resume, me, core, source, zombie>>

\* Faulty: yield() may return although a thread is ready.
ReturnAnyway(c) ==
  LET t == loaded[c] IN
  /\ pc[t] = "remove"
  /\ CanReturn(t)
  /\ intr' = [intr EXCEPT ![c] = @ \/ reason[t] = "preempt"]
  /\ Return(t)
  /\ UNCHANGED <<readyQ, zombies, waiting, activeThreads, loaded, noPreempt, savedIF,
                 source, zombie>>

\* Nothing is ready: yield() returns, and the iret of a preemption enables interrupts.
RemoveReturn(c) ==
  LET t == loaded[c] IN
  /\ pc[t] = "remove"
  /\ readyQ = <<>>
  /\ CanReturn(t)
  /\ intr' = [intr EXCEPT ![c] = @ \/ reason[t] = "preempt"]
  /\ Return(t)
  /\ UNCHANGED <<readyQ, zombies, waiting, activeThreads, loaded, noPreempt, savedIF,
                 source, zombie>>

\* Nothing is ready and a thread must block: the idle TCB of this core is next.  An idle
\* TCB that finds nothing goes back to readyQ.remove(), which changes no state.
RemoveIdle(c) ==
  LET t == loaded[c] IN
  /\ pc[t] = "remove"
  /\ readyQ = <<>>
  /\ ~CanReturn(t)
  /\ me[t] \notin Cores
  /\ next' = [next EXCEPT ![t] = core[t]]
  /\ Goto(t, "claim")
  /\ UNCHANGED <<readyQ, zombies, waiting, activeThreads, loaded, intr, noPreempt,
                 savedIF, reason, resume, me, core, source, zombie>>

\* Faulty: next_tcb->saveArea.no_preempt = 1 is forgotten.
ClaimForgotten(c) ==
  LET t == loaded[c] IN
  /\ pc[t] = "claim"
  /\ Goto(t, "publish")
  /\ UNCHANGED <<readyQ, zombies, waiting, activeThreads, loaded, intr, noPreempt,
                 savedIF, blockVars, source, zombie>>

\* next_tcb->saveArea.no_preempt = 1
Claim(c) ==
  LET t == loaded[c] IN
  /\ pc[t] = "claim"
  /\ noPreempt' = [noPreempt EXCEPT ![next[t]] = TRUE]
  /\ Goto(t, "publish")
  /\ UNCHANGED <<readyQ, zombies, waiting, activeThreads, loaded, intr, savedIF,
                 blockVars, source, zombie>>

\* Faulty: the idle TCB is not published, as if it never became current.
PublishThreadsOnly(c) ==
  LET t == loaded[c] IN
  /\ pc[t] = "publish"
  /\ activeThreads' = [activeThreads EXCEPT ![core[t]] = IF next[t] \in Cores THEN @ ELSE next[t]]
  /\ Goto(t, "switch")
  /\ UNCHANGED <<readyQ, zombies, waiting, loaded, intr, noPreempt, savedIF, blockVars,
                 source, zombie>>

\* activeThreads[core_id] = next_tcb; tss[core_id].esp0 = next_tcb->interruptEsp()
Publish(c) ==
  LET t == loaded[c] IN
  /\ pc[t] = "publish"
  /\ activeThreads' = [activeThreads EXCEPT ![core[t]] = next[t]]
  /\ Goto(t, "switch")
  /\ UNCHANGED <<readyQ, zombies, waiting, loaded, intr, noPreempt, savedIF, blockVars,
                 source, zombie>>

\* gheith_contextSwitch up to the call of the handler: pushf, cli, clear both flags,
\* load the target's page directory and stack.
Switch(c) ==
  LET t == loaded[c] IN
  /\ pc[t] = "switch"
  /\ savedIF' = [savedIF EXCEPT ![me[t]] = intr[c]]
  /\ intr' = [intr EXCEPT ![c] = FALSE]
  /\ next' = [next EXCEPT ![t] = NoTCB]
  /\ core' = [core EXCEPT ![t] = NoTCB]
  /\ noPreempt' = [noPreempt EXCEPT ![me[t]] = FALSE, ![next[t]] = FALSE]
  /\ loaded' = [loaded EXCEPT ![c] = next[t]]
  /\ source' = [source EXCEPT ![c] = me[t]]
  /\ pc' = [pc EXCEPT ![t] = "parked", ![next[t]] = "finish"]
  /\ UNCHANGED <<readyQ, zombies, waiting, activeThreads, reason, resume, me, zombie>>

\* The handler puts the source TCB where its caller of block() wants it: schedule() for
\* yield(), zombies.add() for stop(), waiting.add() for Semaphore::down().
Handler(s) ==
  LET put(why) == s \in Threads /\ reason[s] \in why IN
  /\ readyQ' = IF put({"yield", "preempt"}) THEN Append(readyQ, s) ELSE readyQ
  /\ zombies' = IF put({"stop"}) THEN Append(zombies, s) ELSE zombies
  /\ waiting' = IF put({"wait"}) THEN waiting \cup {s} ELSE waiting

\* The handler, popf, and the return from block(): to the iret of a preempted thread, to
\* the sti of down(), to the code of a yielding, idle or new thread.
Finish(c) ==
  LET t == loaded[c] IN
  /\ pc[t] = "finish"
  /\ Handler(source[c])
  /\ source' = [source EXCEPT ![c] = NoTCB]
  /\ intr' = [intr EXCEPT ![c] = savedIF[t] \/ reason[t] \in {"preempt", "wait"}]
  /\ Return(t)
  /\ UNCHANGED <<activeThreads, loaded, noPreempt, savedIF, zombie>>

-----------------------------------------------------------------------------
(* The callers of block() *)

\* The reaper calls yield() between two rounds of delete_zombies().
Yield(c) ==
  /\ pc[loaded[c]] = "yield"
  /\ Block(c, "yield")
  /\ UNCHANGED <<zombies, intr>>

\* apitHandler() decides to yield.
Preempts(c) ==
  /\ intr[c]
  /\ activeThreads[c] \notin Cores
  /\ ~noPreempt[activeThreads[c]]

\* apitHandler(): the interrupt gate has disabled interrupts.  When it does not yield it
\* changes nothing here.
Timer(c) ==
  /\ Preempts(c)
  /\ Block(c, "preempt")
  /\ intr' = [intr EXCEPT ![c] = FALSE]
  /\ UNCHANGED zombies

\* Faulty: the thread is made a zombie before block(), while it still runs.
StopAddsFirst(c) ==
  /\ pc[loaded[c]] = "run"
  /\ loaded[c] # Reaper
  /\ Block(c, "stop")
  /\ zombies' = IF loaded[c] \in Threads THEN Append(zombies, loaded[c]) ELSE zombies
  /\ UNCHANGED intr

\* stop(): the end of a thread, and the loop of an idle TCB.
Stop(c) ==
  /\ pc[loaded[c]] = "run"
  /\ loaded[c] # Reaper
  /\ Block(c, "stop")
  /\ UNCHANGED <<zombies, intr>>

\* Semaphore::down() finds no permit.  Its lock keeps interrupts off until the handler
\* releases it.  A thread may wait in its own work, and for the heap lock in new and delete.
Wait(c) ==
  /\ pc[loaded[c]] \in {"run", "delete", "create"}
  /\ loaded[c] \in Threads
  /\ Block(c, "wait")
  /\ intr' = [intr EXCEPT ![c] = FALSE]
  /\ UNCHANGED zombies

-----------------------------------------------------------------------------
(* Thread code that uses the scheduler *)

\* Semaphore::up() passes a waiting thread to schedule().
Wake(c, w) ==
  /\ pc[loaded[c]] \in {"run", "delete", "create"}
  /\ loaded[c] \in Threads
  /\ w \in waiting
  /\ waiting' = waiting \ {w}
  /\ readyQ' = Append(readyQ, w)
  /\ UNCHANGED <<zombies, activeThreads, loaded, intr, noPreempt, savedIF, pc, blockVars,
                 source, zombie>>

\* thread() starts with delete_zombies().
CallThread(c) ==
  LET t == loaded[c] IN
  /\ pc[t] = "run"
  /\ t \in Threads
  /\ \E n \in Threads : pc[n] = "free"
  /\ Goto(t, "reap")
  /\ UNCHANGED <<readyQ, zombies, waiting, activeThreads, loaded, intr, noPreempt,
                 savedIF, blockVars, source, zombie>>

\* Faulty: the zombie removed by the loop condition is dropped.
ReapDrops(c) ==
  LET t == loaded[c] IN
  /\ pc[t] = "reap"
  /\ IF zombies # <<>>
     THEN zombies' = Tail(zombies) /\ UNCHANGED pc
     ELSE Goto(t, IF t = Reaper THEN "yield" ELSE "create") /\ UNCHANGED zombies
  /\ UNCHANGED <<readyQ, waiting, activeThreads, loaded, intr, noPreempt, savedIF,
                 blockVars, source, zombie>>

\* delete_zombies() takes a zombie, or returns when there is none.
Reap(c) ==
  LET t == loaded[c] IN
  /\ pc[t] = "reap"
  /\ IF zombies # <<>>
     THEN /\ zombie' = [zombie EXCEPT ![t] = Head(zombies)]
          /\ zombies' = Tail(zombies)
          /\ Goto(t, "delete")
     ELSE /\ Goto(t, IF t = Reaper THEN "yield" ELSE "create")
          /\ UNCHANGED <<zombies, zombie>>
  /\ UNCHANGED <<readyQ, waiting, activeThreads, loaded, intr, noPreempt, savedIF,
                 blockVars, source>>

\* delete it
Delete(c) ==
  LET t == loaded[c] IN
  /\ pc[t] = "delete"
  /\ pc' = [pc EXCEPT ![zombie[t]] = "free", ![t] = "reap"]
  /\ zombie' = [zombie EXCEPT ![t] = NoTCB]
  /\ UNCHANGED <<readyQ, zombies, waiting, activeThreads, loaded, intr, noPreempt,
                 savedIF, blockVars, source>>

\* new TCBImpl(work), whose stack makes it start with interrupts on; schedule(tcb)
Create(c, n) ==
  LET t == loaded[c] IN
  /\ pc[t] = "create"
  /\ n \in Threads /\ pc[n] = "free"
  /\ pc' = [pc EXCEPT ![n] = "parked", ![t] = "run"]
  /\ reason' = [reason EXCEPT ![n] = "none"]
  /\ resume' = [resume EXCEPT ![n] = "run"]
  /\ savedIF' = [savedIF EXCEPT ![n] = TRUE]
  /\ noPreempt' = [noPreempt EXCEPT ![n] = FALSE]
  /\ readyQ' = Append(readyQ, n)
  /\ UNCHANGED <<zombies, waiting, activeThreads, loaded, intr, me, core, next, source, zombie>>

-----------------------------------------------------------------------------
\* Inside block(), and on the way out of it.
Dispatch(c) ==
  \/ RemoveReady(c)
  \/ RemoveReturn(c)
  \/ RemoveIdle(c)
  \/ Claim(c)
  \/ Publish(c)
  \/ Switch(c)
  \/ Finish(c)

\* The reaper's loop and thread().
ThreadCode(c) ==
  \/ Reap(c)
  \/ Delete(c)
  \/ \E n \in Threads : Create(c, n)
  \/ Yield(c)

Next ==
  \E c \in Cores :
    \/ Dispatch(c)
    \/ ThreadCode(c)
    \/ CallThread(c)
    \/ Timer(c)
    \/ Stop(c)
    \/ Wait(c)
    \/ \E w \in Threads : Wake(c, w)

Spec == Init /\ [][Next]_vars

\* What runs on the stack of t, on whatever core.
OnCore(t, A(_)) == \E c \in Cores : loaded[c] = t /\ A(c)

\* Waiting for the heap lock, in new or delete, not in the thread's own work.
NeedsHeap(w) == resume[w] \in {"delete", "create"}
HeapLockPasses(w) == NeedsHeap(w) /\ \E c \in Cores : Wake(c, w)

\* What the hardware and the kernel guarantee, and nothing that the threads would have to
\* do: a thread may run for ever, and nobody has to wake one that waits.
\*   - Cores execute: block(), once entered, runs to its end on its core, and an idle TCB
\*     repeats the loop of stop().
\*   - The timer of a core is periodic (Pit::init): a thread that stays preemptible on a
\*     core is preempted.
\*   - A time slice is longer than a step of the reaper or of thread(): their code runs on
\*     although the thread is preempted again and again (strong fairness).
\*   - The heap lock is held only inside malloc() and free(), and comes round.
Fairness ==
  /\ \A c \in Cores : WF_vars(Dispatch(c))
  /\ \A c \in Cores : WF_vars(loaded[c] = c /\ Stop(c))
  /\ \A c \in Cores : WF_vars(Timer(c))
  /\ \A t \in Threads : SF_vars(OnCore(t, ThreadCode))
  /\ \A w \in Threads : SF_vars(HeapLockPasses(w))

FairSpec == Spec /\ Fairness

-----------------------------------------------------------------------------
(* Properties *)

\* The queues hold TCBs, a core runs and is about to run TCBs, and the zombie
\* queue holds threads only: an idle TCB is never handed to delete_zombies().
TypeOK ==
  /\ readyQ \in Seq(Threads)
  /\ zombies \in Seq(Threads)
  /\ waiting \subseteq Threads
  /\ activeThreads \in [Cores -> TCBs]
  /\ loaded \in [Cores -> TCBs]
  /\ intr \in [Cores -> BOOLEAN]
  /\ noPreempt \in [TCBs -> BOOLEAN]
  /\ savedIF \in [TCBs -> BOOLEAN]
  /\ pc \in [TCBs -> Labels]
  /\ reason \in [TCBs -> {"none", "yield", "preempt", "stop", "wait"}]
  /\ resume \in [TCBs -> Code]
  /\ me \in [TCBs -> TCBs]
  /\ core \in [TCBs -> Cores \cup {NoTCB}]
  /\ next \in [TCBs -> TCBs \cup {NoTCB}]
  /\ source \in [Cores -> TCBs \cup {NoTCB}]
  /\ zombie \in [TCBs -> Threads \cup {NoTCB}]

\* The cores on which block() has chosen t and not yet switched to it.
ChosenBy(t) == {c \in Cores : pc[loaded[c]] \in Inside \ {"remove"} /\ next[loaded[c]] = t}

\* All the places a TCB can be reached from.
Homes(t) ==
       ({"loaded"} \X {c \in Cores : loaded[c] = t})
  \cup ({"source"} \X {c \in Cores : source[c] = t})
  \cup ({"chosen"} \X ChosenBy(t))
  \cup ({"ready"} \X {i \in DOMAIN readyQ : readyQ[i] = t})
  \cup ({"zombie"} \X {i \in DOMAIN zombies : zombies[i] = t})
  \cup ({"waiting"} \X (waiting \cap {t}))
  \cup ({"deleted"} \X {u \in TCBs : zombie[u] = t})
  \cup ({"heap"} \X {u \in {t} : pc[u] = "free"})

\* A TCB is in exactly one place: no thread runs on two cores, is ready while its stack is
\* still in use, is queued twice, is deleted while anything can still switch to it, or is
\* forgotten.  An idle TCB is on its core or nowhere.
OneHome ==
  /\ TypeOK
  /\ \A t \in Threads : Cardinality(Homes(t)) = 1
  /\ \A c \in Cores : Cardinality(Homes(c)) <= 1

\* When apitHandler() decides to preempt, the thread it looks at is the one on whose stack
\* it runs, and that thread is not inside block().
PreemptionSafe ==
  \A c \in Cores :
    Preempts(c) => activeThreads[c] = loaded[c] /\ pc[loaded[c]] \in Code

\* The four assertions of the idle loop in block(): idle TCBs do not hop between cores, and
\* they poll with interrupts on.
IdleStays ==
  \A c, d \in Cores :
    loaded[c] = d /\ pc[d] = "remove" /\ readyQ = <<>> /\ ~CanReturn(d) =>
      /\ core[d] = c
      /\ intr[c]
      /\ me[d] = c
      /\ activeThreads[c] = d

\* Outside block(), current() is the thread that asks, and idle TCBs are at home.
CurrentIsLoaded ==
  /\ \A c \in Cores : pc[loaded[c]] \in Code => activeThreads[c] = loaded[c]
  /\ IdleStays

\* Core c runs a thread that the timer passes over, because block() left no_preempt set on
\* it when it returned early (see Preemptible).
Stuck(c) == pc[loaded[c]] \in Code /\ noPreempt[loaded[c]]

\* The only way to keep the cores from the ready threads: from some time on every core
\* runs such a thread, and none of these threads calls block() again.
CoresTaken == <>[](\A c \in Cores : Stuck(c))

\* A ready thread gets a core, however long the threads on the cores run, unless the cores
\* are taken.
ReadyRuns ==
  \/ CoresTaken
  \/ \A t \in Threads :
       (\E i \in DOMAIN readyQ : readyQ[i] = t) ~> (\E c \in Cores : loaded[c] = t)

\* Every thread that still exists and is not a zombie waits for another one.
AllWait ==
  \A t \in Threads :
    \/ pc[t] = "free"
    \/ t \in waiting
    \/ \E i \in DOMAIN zombies : zombies[i] = t
    \/ \E u \in waiting : zombie[u] = t

\* The reaper, or a caller of thread(), deletes every stopped thread, unless the cores are
\* taken.
Reclaimed ==
  \/ CoresTaken
  \/ \A t \in Threads :
       (\E i \in DOMAIN zombies : zombies[i] = t) ~> (pc[t] = "free" \/ AllWait)

\* A thread that runs outside block() can be preempted.
Preemptible ==
  \A c \in Cores : pc[loaded[c]] \in Code => ~noPreempt[loaded[c]]
=============================================================================
