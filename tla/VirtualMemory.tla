--------------------------- MODULE VirtualMemory ---------------------------
(***************************************************************************)
(* Physical frames (kernel/physmem.cc), page directories and the page-fault*)
(* handler (kernel/vmm.cc, pageFaultHandler_ of kernel/machine.S), and what*)
(* fork, execl and the end of a process do to an address space             *)
(* (kernel/sys.cc, TCB::~TCB), with the TLB and CR2 of every core.         *)
(*                                                                         *)
(* Each process has one thread and one address space.  Cores switch between*)
(* threads at any point of the kernel code below (the gates are trap gates,*)
(* interrupts stay on); contextSwitch loads CR3, which empties the TLB, and*)
(* saves and restores CR2.  alloc_frame() and dealloc_frame() are critical *)
(* sections of an InterruptSafeLock and are atomic.                        *)
(***************************************************************************)
EXTENDS Naturals, Sequences, FiniteSets

CONSTANTS
  Cores,
  Procs,      \* the TCBs, each used once: their number bounds the processes ever made
  Root,       \* the process of kernelMain()
  NumPages,   \* user pages an address space may use, in the order of fork's loop
  RegionOf,   \* RegionOf[i]: the page-directory entry of page i
  NumFrames,  \* frames between avail and limit at boot
  MaxValue,   \* the contents of a page are 0..MaxValue
  Idle        \* the idle thread, with an address space of its own

Pages == 1..NumPages
ApicPages == {NumPages + 1, NumPages + 2}     \* kConfig.ioAPIC and kConfig.localAPIC
Entries == Pages \cup ApicPages               \* the entries of the page tables
Values == 0..MaxValue
Frames == 1..NumFrames
Apic == 1019                                  \* the page-directory entry of the two APICs
Regions == {Apic} \cup {RegionOf[i] : i \in Pages}
Device(i) == NumFrames + i                    \* the APIC at page i: no frame
None == 0                                     \* an entry whose present bit is off
Link == MaxValue + 1                          \* the contents of a freed frame: Frame::next

ASSUME VirtualMemoryAssumption ==
  /\ Root \in Procs
  /\ Idle \notin Procs
  /\ NumPages \in Nat \ {0}
  /\ NumFrames \in Nat /\ NumFrames >= 2      \* Root has a directory and a page table
  /\ MaxValue \in Nat
  /\ RegionOf \in [Pages -> 512..1023]

VARIABLES
  firstFree,  \* the list that starts at firstFree
  avail,      \* the next frame never used
  content,    \* content[f]: what is stored in frame f
  pd,         \* pd[p]: the frame of p's page directory
  pde,        \* pde[p][r]: the frame of the page table of region r
  pte,        \* pte[p][i]: the frame, or the device, page i is mapped to
  on,         \* on[c]: the thread core c runs, whose pd is in CR3
  tlb,        \* tlb[c][i]: the translation of page i cached by core c
  cr2,        \* cr2[c]: the page of the last fault on core c
  savedCr2,   \* savedCr2[p]: saveArea.cr2
  pc,         \* where the thread of p is
  page,       \* page[p]: va, or the index of a loop
  pa,         \* pa[p]: the frame in the local pa
  child,      \* child[p]: newThread of fork
  panicked,   \* alloc_frame() found no frame
  wanted,     \* wanted[p]: the page p faulted on (history)
  mem         \* mem[p][i]: what p's own stores put in its page i (history)

frameVars == <<firstFree, avail, content>>
tableVars == <<pd, pde, pte>>
coreVars == <<on, tlb, cr2, savedCr2>>
vars == <<frameVars, tableVars, coreVars, pc, page, pa, child, panicked, wanted, mem>>

NoTable == [r \in Regions |-> None]
NoMap == [i \in Entries |-> None]
NoTlb == [i \in Pages |-> None]
OnlyApic == [i \in Entries |-> IF i \in ApicPages THEN Device(i) ELSE None]
Zero == [i \in Pages |-> 0]

\* Root's address space was made by the constructor of its TCB.
Init ==
  /\ firstFree = <<>>
  /\ avail = 3
  /\ content = [f \in Frames |-> 0]
  /\ pd = [p \in Procs |-> IF p = Root THEN 1 ELSE None]
  /\ pde = [p \in Procs |-> IF p = Root THEN [NoTable EXCEPT ![Apic] = 2] ELSE NoTable]
  /\ pte = [p \in Procs |-> IF p = Root THEN OnlyApic ELSE NoMap]
  /\ on = [c \in Cores |-> Idle]
  /\ tlb = [c \in Cores |-> NoTlb]
  /\ cr2 = [c \in Cores |-> None]
  /\ savedCr2 = [p \in Procs |-> None]
  /\ pc = [p \in Procs |-> IF p = Root THEN "user" ELSE "none"]
  /\ page = [p \in Procs |-> None]
  /\ pa = [p \in Procs |-> None]
  /\ child = [p \in Procs |-> Idle]
  /\ panicked = FALSE
  /\ wanted = [p \in Procs |-> None]
  /\ mem = [p \in Procs |-> Zero]

Running(p) == ~panicked /\ \E c \in Cores : on[c] = p

CoreOf(p) == CHOOSE c \in Cores : on[c] = p

At(p, from, to) ==
  /\ Running(p)
  /\ pc[p] = from
  /\ pc' = [pc EXCEPT ![p] = to]

-----------------------------------------------------------------------------
(* alloc_frame() and dealloc_frame() *)

\* What alloc_frame() returns: the head of the list, or else the next unused frame.
Fresh == IF firstFree # <<>> THEN Head(firstFree) ELSE avail

Available == firstFree # <<>> \/ avail <= NumFrames

\* alloc_frame(): the frame is zeroed.
AllocFrame ==
  /\ Available
  /\ IF firstFree # <<>>
     THEN firstFree' = Tail(firstFree) /\ UNCHANGED avail
     ELSE avail' = avail + 1 /\ UNCHANGED firstFree
  /\ content' = [content EXCEPT ![Fresh] = 0]

\* dealloc_frame() of the frames of s, the last one first: each is linked in front.
DeallocFrames(s) ==
  /\ firstFree' = s \o firstFree
  /\ content' = [f \in Frames |-> IF \E k \in DOMAIN s : s[k] = f THEN Link ELSE content[f]]

\* map(pd, va, pa): the page table is allocated when its directory entry is not present.
Map(q, i, f) ==
  LET r == RegionOf[i] IN
  /\ pte' = [pte EXCEPT ![q][i] = f]
  /\ \/ /\ pde[q][r] # None
        /\ UNCHANGED <<frameVars, pde>>
     \/ /\ pde[q][r] = None
        /\ AllocFrame
        /\ pde' = [pde EXCEPT ![q][r] = Fresh]

-----------------------------------------------------------------------------
(* Memory accesses and page faults *)

\* The translation the core of p uses: the cached one before the page table.
Translate(p, i) ==
  IF tlb[CoreOf(p)][i] # None THEN tlb[CoreOf(p)][i] ELSE pte[p][i]

\* A store, by user code or by the kernel on its behalf (read, ELF::load, execl).
Store(p, i, v) ==
  LET f == Translate(p, i) IN
  /\ Running(p) /\ pc[p] = "user"
  /\ f # None
  /\ content' = [content EXCEPT ![f] = v]
  /\ tlb' = [tlb EXCEPT ![CoreOf(p)][i] = f]
  /\ mem' = [mem EXCEPT ![p][i] = v]
  /\ UNCHANGED <<firstFree, avail, tableVars, on, cr2, savedCr2, pc, page, pa, child,
                 panicked, wanted>>

\* An access to a page that is not mapped.
PageFault(p, i) ==
  /\ At(p, "user", "fault")
  /\ Translate(p, i) = None
  /\ cr2' = [cr2 EXCEPT ![CoreOf(p)] = i]
  /\ wanted' = [wanted EXCEPT ![p] = i]
  /\ UNCHANGED <<frameVars, tableVars, on, tlb, savedCr2, page, pa, child, panicked, mem>>

\* pageFaultHandler_ reads CR2.
FaultReadCr2(p) ==
  /\ At(p, "fault", "faultAlloc")
  /\ page' = [page EXCEPT ![p] = cr2[CoreOf(p)]]
  /\ UNCHANGED <<frameVars, tableVars, coreVars, pa, child, panicked, wanted, mem>>

\* vmm_pageFault: auto pa = alloc_frame()
FaultAlloc(p) ==
  /\ At(p, "faultAlloc", "faultMap")
  /\ AllocFrame
  /\ pa' = [pa EXCEPT ![p] = Fresh]
  /\ UNCHANGED <<tableVars, coreVars, page, child, panicked, wanted, mem>>

\* vmm_pageFault: map(me->pd, va, pa), and the faulting instruction is restarted.
FaultMap(p) ==
  /\ At(p, "faultMap", "user")
  /\ Map(p, page[p], pa[p])
  /\ pa' = [pa EXCEPT ![p] = None]
  /\ page' = [page EXCEPT ![p] = None]
  /\ wanted' = [wanted EXCEPT ![p] = None]
  /\ UNCHANGED <<pd, coreVars, child, panicked, mem>>

-----------------------------------------------------------------------------
(* fork *)

\* makeThread(): new TCB, whose constructor calls make_pd(), which allocates the directory
\* and copies the entries of kernel memory from `shared`.
Fork(p, q) ==
  /\ Running(p) /\ pc[p] = "user"
  /\ pc[q] = "none"
  /\ AllocFrame
  /\ pc' = [pc EXCEPT ![p] = "forkApic", ![q] = "embryo"]
  /\ child' = [child EXCEPT ![p] = q]
  /\ pd' = [pd EXCEPT ![q] = Fresh]
  /\ UNCHANGED <<pde, pte, coreVars, page, pa, panicked, wanted, mem>>

\* make_pd(): map() of the two APICs, which share a page table.
ForkApic(p) ==
  /\ At(p, "forkApic", "forkNext")
  /\ AllocFrame
  /\ pde' = [pde EXCEPT ![child[p]][Apic] = Fresh]
  /\ pte' = [pte EXCEPT ![child[p]] = OnlyApic]
  /\ page' = [page EXCEPT ![p] = 1]
  /\ UNCHANGED <<pd, coreVars, pa, child, panicked, wanted, mem>>

\* Faulty: the loops do not skip the APICs.
RemainingAll(p) == {i \in Entries : i >= page[p] /\ pte[p][i] # None}

\* The pages the loops of fork and execl have yet to copy or unmap: all that are present,
\* but those of the two APICs.
Remaining(p) == {i \in Entries \ ApicPages : i >= page[p] /\ pte[p][i] # None}

IsNext(p, i) == i \in Remaining(p) /\ \A j \in Remaining(p) : i <= j

\* The loop finds the next mapped page and allocates a frame for its copy.
ForkAlloc(p, i) ==
  /\ At(p, "forkNext", "forkMap")
  /\ IsNext(p, i)
  /\ AllocFrame
  /\ page' = [page EXCEPT ![p] = i]
  /\ pa' = [pa EXCEPT ![p] = Fresh]
  /\ UNCHANGED <<tableVars, coreVars, child, panicked, wanted, mem>>

\* map(newThread->pd, va, pa)
ForkMap(p) ==
  /\ At(p, "forkMap", "forkCopy")
  /\ Map(child[p], page[p], pa[p])
  /\ UNCHANGED <<pd, coreVars, page, pa, child, panicked, wanted, mem>>

\* Faulty: copies the frame of the first page every time.
ForkCopyFirst(p) ==
  /\ At(p, "forkCopy", "forkNext")
  /\ content' = [content EXCEPT ![pa[p]] =
                   IF Translate(p, 1) = None THEN 0 ELSE content[Translate(p, 1)]]
  /\ page' = [page EXCEPT ![p] = @ + 1]
  /\ pa' = [pa EXCEPT ![p] = None]
  /\ UNCHANGED <<firstFree, avail, tableVars, coreVars, child, panicked, wanted, mem>>

\* memcpy(pa, va, 4096), reading through the parent's translation
ForkCopy(p) ==
  /\ At(p, "forkCopy", "forkNext")
  /\ content' = [content EXCEPT ![pa[p]] = content[Translate(p, page[p])]]
  /\ page' = [page EXCEPT ![p] = @ + 1]
  /\ pa' = [pa EXCEPT ![p] = None]
  /\ UNCHANGED <<firstFree, avail, tableVars, coreVars, child, panicked, wanted, mem>>

\* schedule(newThread); return
ForkDone(p) ==
  /\ Running(p) /\ pc[p] = "forkNext"
  /\ Remaining(p) = {}
  /\ pc' = [pc EXCEPT ![p] = "user", ![child[p]] = "user"]
  /\ mem' = [mem EXCEPT ![child[p]] = mem[p]]
  /\ page' = [page EXCEPT ![p] = None]
  /\ child' = [child EXCEPT ![p] = Idle]
  /\ UNCHANGED <<frameVars, tableVars, coreVars, pa, panicked, wanted>>

-----------------------------------------------------------------------------
(* execl *)

\* execl starts to unmap the whole address space.
Execl(p) ==
  /\ At(p, "user", "execNext")
  /\ page' = [page EXCEPT ![p] = 1]
  /\ UNCHANGED <<frameVars, tableVars, coreVars, pa, child, panicked, wanted, mem>>

\* Faulty: the entry of the page table stays present.
ExeclKeepsEntry(p, i) ==
  /\ At(p, "execNext", "execFree")
  /\ IsNext(p, i)
  /\ pa' = [pa EXCEPT ![p] = pte[p][i]]
  /\ page' = [page EXCEPT ![p] = i]
  /\ UNCHANGED <<frameVars, tableVars, coreVars, child, panicked, wanted, mem>>

\* unmap(): pt[pti] = 0
ExeclClear(p, i) ==
  /\ At(p, "execNext", "execFree")
  /\ IsNext(p, i)
  /\ pte' = [pte EXCEPT ![p][i] = None]
  /\ pa' = [pa EXCEPT ![p] = pte[p][i]]
  /\ page' = [page EXCEPT ![p] = i]
  /\ mem' = [mem EXCEPT ![p][i] = 0]
  /\ UNCHANGED <<frameVars, pd, pde, coreVars, child, panicked, wanted>>

\* unmap(): dealloc_frame(pa)
ExeclFree(p) ==
  /\ At(p, "execFree", "execFlush")
  /\ DeallocFrames(<<pa[p]>>)
  /\ pa' = [pa EXCEPT ![p] = None]
  /\ UNCHANGED <<avail, tableVars, coreVars, page, child, panicked, wanted, mem>>

\* Faulty: without the invlpg().
ExeclSkipsFlush(p) ==
  /\ At(p, "execFlush", "execNext")
  /\ page' = [page EXCEPT ![p] = @ + 1]
  /\ UNCHANGED <<frameVars, tableVars, coreVars, pa, child, panicked, wanted, mem>>

\* unmap(): invlpg(va), on the core that runs the process
ExeclFlush(p) ==
  /\ At(p, "execFlush", "execNext")
  /\ tlb' = [tlb EXCEPT ![CoreOf(p)][page[p]] = None]
  /\ page' = [page EXCEPT ![p] = @ + 1]
  /\ UNCHANGED <<frameVars, tableVars, on, cr2, savedCr2, pa, child, panicked, wanted, mem>>

\* The new program is loaded by accesses like any other.
ExeclDone(p) ==
  /\ At(p, "execNext", "user")
  /\ Remaining(p) = {}
  /\ page' = [page EXCEPT ![p] = None]
  /\ UNCHANGED <<frameVars, tableVars, coreVars, pa, child, panicked, wanted, mem>>

-----------------------------------------------------------------------------
(* The end of a process, and the cores *)

\* exit: the thread calls stop() and never runs user code again.
Exit(p) ==
  /\ At(p, "user", "exited")
  /\ mem' = [mem EXCEPT ![p] = Zero]
  /\ UNCHANGED <<frameVars, tableVars, coreVars, page, pa, child, panicked, wanted>>

\* The page tables of p, the one of the last region first.
LastFirst(p, order) ==
  /\ {order[k] : k \in DOMAIN order} = {r \in Regions : pde[p][r] # None}
  /\ \A j, k \in DOMAIN order : j < k => order[j] > order[k]

\* delete of the TCB, which is a zombie only after its core has switched away from it:
\* delete_pd() frees the page tables and the directory, and forgets the frames they map.
DeletePd(p) ==
  /\ ~panicked
  /\ pc[p] = "exited" /\ ~Running(p)
  /\ \E n \in 0..Cardinality(Regions) : \E order \in [1..n -> Regions] :
       /\ LastFirst(p, order)
       /\ DeallocFrames(<<pd[p]>> \o [k \in 1..n |-> pde[p][order[k]]])
  /\ pc' = [pc EXCEPT ![p] = "deleted"]
  /\ pd' = [pd EXCEPT ![p] = None]
  /\ pde' = [pde EXCEPT ![p] = NoTable]
  /\ pte' = [pte EXCEPT ![p] = NoMap]
  /\ UNCHANGED <<avail, coreVars, page, pa, child, panicked, wanted, mem>>

\* A thread that has been scheduled and is on no core; every core has an idle thread.
Switchable(p) == p \in Procs => pc[p] \notin {"none", "embryo", "exited", "deleted"} /\ ~Running(p)

\* Faulty: CR2 is neither saved nor restored.
SwitchKeepsCr2(c, p) ==
  /\ ~panicked
  /\ p # on[c] /\ Switchable(p)
  /\ on' = [on EXCEPT ![c] = p]
  /\ tlb' = [tlb EXCEPT ![c] = NoTlb]
  /\ UNCHANGED <<frameVars, tableVars, cr2, savedCr2, pc, page, pa, child, panicked, wanted,
                 mem>>

\* gheith_contextSwitch: CR2 is saved and restored, CR3 is loaded.
ContextSwitch(c, p) ==
  LET q == on[c] IN
  /\ ~panicked
  /\ p # q /\ Switchable(p)
  /\ on' = [on EXCEPT ![c] = p]
  /\ savedCr2' = IF q = Idle THEN savedCr2 ELSE [savedCr2 EXCEPT ![q] = cr2[c]]
  /\ cr2' = [cr2 EXCEPT ![c] = IF p = Idle THEN None ELSE savedCr2[p]]
  /\ tlb' = [tlb EXCEPT ![c] = NoTlb]
  /\ UNCHANGED <<frameVars, tableVars, pc, page, pa, child, panicked, wanted, mem>>

\* Debug::panic("no more frames") in the next call of alloc_frame()
OutOfFrames(p) ==
  /\ Running(p)
  /\ ~Available
  /\ \/ pc[p] \in {"faultAlloc", "forkApic"}
     \/ pc[p] = "user" /\ \E q \in Procs : pc[q] = "none"
     \/ pc[p] = "forkNext" /\ Remaining(p) # {}
     \/ pc[p] = "faultMap" /\ pde[p][RegionOf[page[p]]] = None
     \/ pc[p] = "forkMap" /\ pde[child[p]][RegionOf[page[p]]] = None
  /\ panicked' = TRUE
  /\ UNCHANGED <<frameVars, tableVars, coreVars, pc, page, pa, child, wanted, mem>>

-----------------------------------------------------------------------------
Fault(p) == FaultReadCr2(p) \/ FaultAlloc(p) \/ FaultMap(p)

ForkStep(p) ==
  \/ ForkApic(p)
  \/ \E i \in Entries : ForkAlloc(p, i)
  \/ ForkMap(p)
  \/ ForkCopy(p)
  \/ ForkDone(p)

ExeclStep(p) ==
  \/ \E i \in Entries : ExeclClear(p, i)
  \/ ExeclFree(p)
  \/ ExeclFlush(p)
  \/ ExeclDone(p)

Next ==
  \/ \E p \in Procs :
       \/ \E i \in Pages, v \in Values : Store(p, i, v)
       \/ \E i \in Pages : PageFault(p, i)
       \/ Fault(p)
       \/ \E q \in Procs : Fork(p, q)
       \/ ForkStep(p)
       \/ Execl(p)
       \/ ExeclStep(p)
       \/ Exit(p)
       \/ DeletePd(p)
       \/ OutOfFrames(p)
  \/ \E c \in Cores, p \in Procs \cup {Idle} : ContextSwitch(c, p)

Spec == Init /\ [][Next]_vars

-----------------------------------------------------------------------------
(* Properties *)

\* The uses of a frame: where the kernel would find it.
Uses(f) ==
       ({"free"} \X {k \in DOMAIN firstFree : firstFree[k] = f})
  \cup ({"unused"} \X {g \in {f} : g >= avail})
  \cup ({"directory"} \X {p \in Procs : pd[p] = f})
  \cup ({"table"} \X {x \in Procs \X Regions : pde[x[1]][x[2]] = f})
  \cup ({"page"} \X {x \in Procs \X Pages : pte[x[1]][x[2]] = f})

\* A frame in the local pa of a fault or of execl has no other use yet, or no more.
InHand(f) == {p \in Procs : pa[p] = f /\ pc[p] \in {"faultMap", "forkMap", "execFree"}}

\* A frame has one use: no two pages, in one process or in two, share a frame, and no frame
\* is given out, or freed, while a directory, a table or a page still uses it.  Only frames
\* are freed: the page of a device never is.
FrameExclusive ==
  /\ \A f \in Frames : Cardinality(Uses(f)) + Cardinality(InHand(f)) <= 1
  /\ \A k \in DOMAIN firstFree : firstFree[k] \in Frames

\* Every process finds in its pages what it stored there, or what its parent had stored
\* before fork; a page it never stored to, also after execl, is zero.  Through all of it,
\* the kernel finds the two APICs in its address space.
MemoryIsOwn ==
  \A p \in Procs : pc[p] \notin {"none", "embryo", "exited", "deleted"} =>
    /\ \A i \in Pages : mem[p][i] = IF pte[p][i] = None THEN 0 ELSE content[pte[p][i]]
    /\ \A i \in ApicPages : pte[p][i] = Device(i)

\* What a core has cached for the process it runs is in the page table, except for the page
\* that execl is unmapping.
TlbCoherent ==
  \A c \in Cores : \A i \in Pages :
    tlb[c][i] # None =>
      \/ on[c] \in Procs /\ tlb[c][i] = pte[on[c]][i]
      \/ on[c] \in Procs /\ pc[on[c]] \in {"execFree", "execFlush"} /\ page[on[c]] = i

\* The page-fault handler works on the page of its own fault, also when the thread was
\* preempted before it read CR2 and another thread faulted meanwhile.
FaultServed ==
  \A p \in Procs :
    pc[p] \in {"faultAlloc", "faultMap"} => page[p] = wanted[p] /\ pte[p][page[p]] = None
=============================================================================
