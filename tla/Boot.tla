-------------------------------- MODULE Boot --------------------------------
(***************************************************************************)
(* The start of the kernel: kernelInit (kernel/init.cc) on the first       *)
(* processor and on the ones it wakes up, the count of processors from the *)
(* ACPI table (kernel/config.cc), and the interrupt controller, which every*)
(* processor masks (SMP::init) and opens for the keyboard (KeyBoard::init).*)
(*                                                                         *)
(* Processor 0 is the first; a processor is named by its APIC id.  The     *)
(* table lists ACPI processor ids, another numbering: the walk only counts *)
(* them (those that are not 0), and the IPIs go to the APIC ids 1, 2, ...  *)
(* whatever the table says.  The steps that only set up private state of a *)
(* core are taken together.                                                *)
(***************************************************************************)
EXTENDS Naturals, Sequences, FiniteSets

CONSTANTS
  NumCores,   \* processors that answer an IPI: APIC ids 0..NumCores-1
  Tables      \* MADTs: [entries, after], after being what follows the table

Cores == 0..(NumCores - 1)

\* A processor's entry has its ACPI id, any other entry 0.
Entries == [type : {"apic", "ioapic", "other"}, processorId : Nat]

\* Assumed by the modules that give the constants their values.
BootAssumption ==
  /\ NumCores \in Nat \ {0}
  /\ \A t \in Tables : t.entries # <<>> /\ t.entries \in Seq(Entries) /\ t.after \in Entries

VARIABLES
  table,         \* the MADT of this machine
  totalProcs,    \* kConfig.totalProcs
  smpInitDone,
  running,       \* SMP::running
  here,          \* howManyAreHere
  pc,            \* where each processor is in kernelInit
  stack,         \* the boot stack each one got from pickKernelStack
  nextId,        \* the loop variable of the first processor
  open,          \* the PIC lets the keyboard's interrupts through
  globals,       \* how often the kernel's globals were initialised (history)
  mains          \* threads made for kernelMain

vars == <<table, totalProcs, smpInitDone, running, here, pc, stack, nextId,
          open, globals, mains>>

Init ==
  /\ table \in Tables
  /\ totalProcs = 0
  /\ smpInitDone = FALSE
  /\ running = 0
  /\ here = 0
  /\ pc = [c \in Cores |-> IF c = 0 THEN "reset" ELSE "off"]
  /\ stack = [c \in Cores |-> NumCores]
  /\ nextId = 1
  /\ open = TRUE
  /\ globals = 0
  /\ mains = 0

Goto(c, from, to) == pc[c] = from /\ pc' = [pc EXCEPT ![c] = to]

-----------------------------------------------------------------------------
(* configInit *)

\* The walk over the table advances before it looks: it never sees the first
\* entry, and sees what follows the last one.
Seen == Tail(table.entries) \o <<table.after>>

\* An entry for processor 0 is passed over; nOtherProcs + 1.
CountProcs ==
  1 + Cardinality({k \in DOMAIN Seen : Seen[k].type = "apic" /\ Seen[k].processorId # 0})

-----------------------------------------------------------------------------
(* kernelInit *)

\* pickKernelStack, called by the boot code before kernelInit.
PickStack(c) ==
  /\ Goto(c, "reset", "enter")
  /\ stack' = [stack EXCEPT ![c] = IF smpInitDone THEN c ELSE 0]
  /\ UNCHANGED <<table, totalProcs, smpInitDone, running, here, nextId, open, globals, mains>>

Enter(c) ==
  /\ Goto(c, "enter", IF smpInitDone THEN "count" ELSE "globals")
  /\ UNCHANGED <<table, totalProcs, smpInitDone, running, here, stack, nextId, open,
                 globals, mains>>

\* configInit, heapInit, the global constructors, PhysMem, VMM, SYS, threads.
InitGlobals(c) ==
  /\ Goto(c, "globals", "lapic")
  /\ totalProcs' = CountProcs
  /\ globals' = globals + 1
  /\ UNCHANGED <<table, smpInitDone, running, here, stack, nextId, open, mains>>

\* Faulty: forgets smpInitDone.
InitLapicOnly(c) ==
  /\ Goto(c, "lapic", "first")
  /\ open' = FALSE
  /\ UNCHANGED <<table, totalProcs, smpInitDone, running, here, stack, nextId, globals, mains>>

\* SMP::init(true) masks the PIC; smpInitDone = true; IDT, calibration.
InitLapic(c) ==
  /\ Goto(c, "lapic", "first")
  /\ open' = FALSE
  /\ smpInitDone' = TRUE
  /\ UNCHANGED <<table, totalProcs, running, here, stack, nextId, globals, mains>>

CountFirst(c) ==
  /\ Goto(c, "first", "wake")
  /\ running' = running + 1
  /\ UNCHANGED <<table, totalProcs, smpInitDone, here, stack, nextId, open, globals, mains>>

\* Faulty: one processor too many.
WakeTooMany(c) ==
  /\ pc[c] = "wake"
  /\ nextId <= totalProcs
  /\ pc' = [i \in Cores |-> IF i = c THEN "await" ELSE IF i = nextId THEN "reset" ELSE pc[i]]
  /\ UNCHANGED <<table, totalProcs, smpInitDone, running, here, stack, nextId, open, globals, mains>>

\* The two IPIs reset processor nextId; nobody answers when there is none.
Wake(c) ==
  /\ pc[c] = "wake"
  /\ nextId < totalProcs
  /\ pc' = [i \in Cores |-> IF i = c THEN "await" ELSE IF i = nextId THEN "reset" ELSE pc[i]]
  /\ UNCHANGED <<table, totalProcs, smpInitDone, running, here, stack, nextId, open, globals, mains>>

\* while (SMP::running <= id);
Await(c) ==
  /\ Goto(c, "await", "wake")
  /\ running > nextId
  /\ nextId' = nextId + 1
  /\ UNCHANGED <<table, totalProcs, smpInitDone, running, here, stack, open, globals, mains>>

AllAwake(c) ==
  /\ Goto(c, "wake", "keyboard")
  /\ nextId >= totalProcs
  /\ UNCHANGED <<table, totalProcs, smpInitDone, running, here, stack, nextId, open, globals, mains>>

\* The others count themselves before they are ready ...
CountSelf(c) ==
  /\ Goto(c, "count", "mask")
  /\ running' = running + 1
  /\ UNCHANGED <<table, totalProcs, smpInitDone, here, stack, nextId, open, globals, mains>>

\* ... and SMP::init(false) masks the PIC again, whoever has opened it by now.
Mask(c) ==
  /\ Goto(c, "mask", "keyboard")
  /\ open' = FALSE
  /\ UNCHANGED <<table, totalProcs, smpInitDone, running, here, stack, nextId, globals, mains>>

\* Faulty: only the first processor opens the PIC.
KeyBoardFirst(c) ==
  /\ Goto(c, "keyboard", "arrive")
  /\ open' = (c = 0 \/ open)
  /\ UNCHANGED <<table, totalProcs, smpInitDone, running, here, stack, nextId, globals, mains>>

\* VMM::per_core_init, Pit::init, KeyBoard::init, the TSS, sti.
KeyBoard(c) ==
  /\ Goto(c, "keyboard", "arrive")
  /\ open' = TRUE
  /\ UNCHANGED <<table, totalProcs, smpInitDone, running, here, stack, nextId, globals, mains>>

\* howManyAreHere.add_fetch(1): the last one starts kernelMain.
Arrive(c) ==
  /\ Goto(c, "arrive", IF here + 1 = totalProcs THEN "main" ELSE "stop")
  /\ here' = here + 1
  /\ UNCHANGED <<table, totalProcs, smpInitDone, running, stack, nextId, open, globals, mains>>

StartMain(c) ==
  /\ Goto(c, "main", "stop")
  /\ mains' = mains + 1
  /\ UNCHANGED <<table, totalProcs, smpInitDone, running, here, stack, nextId, open, globals>>

Core(c) ==
  \/ PickStack(c) \/ Enter(c) \/ InitGlobals(c) \/ InitLapic(c) \/ CountFirst(c)
  \/ Wake(c) \/ Await(c) \/ AllAwake(c) \/ CountSelf(c) \/ Mask(c)
  \/ KeyBoard(c) \/ Arrive(c) \/ StartMain(c)

Next == \E c \in Cores : Core(c)

\* A processor that was started runs.
FairSpec == Init /\ [][Next]_vars /\ \A c \in Cores : WF_vars(Core(c))

-----------------------------------------------------------------------------
(* Properties *)

Started == {c \in Cores : pc[c] \notin {"off", "reset"}}

\* The types of the variables.
TypeOK ==
  /\ table \in Tables
  /\ totalProcs \in Nat /\ nextId \in 1..(IF totalProcs = 0 THEN 1 ELSE totalProcs)
  /\ smpInitDone \in BOOLEAN /\ open \in BOOLEAN
  /\ running \in 0..NumCores /\ here \in 0..running
  /\ stack \in [Cores -> 0..NumCores]

\* No two processors ever boot on the same stack, and the heap, the frames and
\* the ready queue are initialised once, before a second processor runs
\* (smpInitDone in pickKernelStack and kernelInit, init.cc:30-32 and 46-118).
BootedApart ==
  /\ TypeOK
  /\ \A c, d \in Started : stack[c] = stack[d] => c = d
  /\ globals <= 1
  /\ Started \ {0} # {} => globals = 1

\* Each processor of the table is counted once, wherever the first one's entry
\* stands, if the entry the walk never sees is no other processor's and what
\* follows the table is no processor's (config.cc:141-171).
CountedOnce ==
  /\ globals = 1
  /\ table.entries[1].type = "apic" => table.entries[1].processorId = 0
  /\ table.after.type = "apic" => table.after.processorId = 0
  => totalProcs = 1 + Cardinality({k \in DOMAIN table.entries :
                        table.entries[k].type = "apic" /\ table.entries[k].processorId # 0})

\* The processors are counted right, and kernelMain starts at most once, when every
\* one that was counted has counted itself and
\* set up its core, and the keyboard's interrupts get through: the masks of
\* late processors come before their own KeyBoard::init (init.cc:140-163).
MainLast ==
  /\ CountedOnce
  /\ mains <= 1
  /\ mains = 1 => /\ Cardinality({c \in Cores : pc[c] = "stop"}) = totalProcs
                  /\ open

\* kernelMain starts, if no more processors are counted than answer: the IPIs go
\* to the ids 1, 2, ... and each is waited for (init.cc:131-138).
BootCompletes == (globals = 1 /\ totalProcs <= NumCores) ~> (mains = 1)
=============================================================================
