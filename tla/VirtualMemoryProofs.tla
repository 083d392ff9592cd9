------------------------- MODULE VirtualMemoryProofs -------------------------
(***************************************************************************)
(* Proofs about module VirtualMemory, for every set of processes, cores,   *)
(* pages and frames: a physical frame has one use (FrameExclusive), a core *)
(* has cached nothing but the page table of the process it runs            *)
(* (TlbCoherent), a page fault is served for the page that faulted         *)
(* (FaultServed), and what a process reads is what it wrote (MemoryIsOwn). *)
(*                                                                         *)
(* None of them is inductive.  MemoryInv treats all that the kernel keeps  *)
(* of a frame, in a directory, in a page table or in the local pa of a     *)
(* call, as places (Frame): the frame in a place is in use (PlacesUsed),   *)
(* and no two places have the same one (PlacesApart).  To that it adds     *)
(* what a core may have cached (CoreOk), what an address space is at each  *)
(* step of fork, execl and exit (SpaceOk, ForkOk), and where the address   *)
(* of a pending fault is, in CR2 or in the saved CR2 (FaultOk).            *)
(*                                                                         *)
(* ApicInv, for the last conjunct of MemoryIsOwn, is about the entries of  *)
(* the two APICs alone; it needs MemoryInv, and MemoryInv does not need it.*)
(*                                                                         *)
(* Allocates and Deallocates say what alloc_frame() and dealloc_frame() do *)
(* to the frames in use; StepKeeps and LocalStep reduce a step of p to its *)
(* own core, space and fault, for what it leaves alone of the others.      *)
(***************************************************************************)
EXTENDS VirtualMemory, Integers, TLAPS, FiniteSetTheorems

\* Where the thread of a process can be.
Labels == {"none", "embryo", "user", "fault", "faultAlloc", "faultMap", "forkApic", "forkNext",
           "forkMap", "forkCopy", "execNext", "execFree", "execFlush", "exited", "deleted"}

\* Inside fork.
Forking == {"forkApic", "forkNext", "forkMap", "forkCopy"}
\* Inside the loop of fork over the pages.
Looping == {"forkNext", "forkMap", "forkCopy"}

\* The frame in the local pa has no other use.
Handing == {"faultMap", "forkMap", "execFree"}

\* The process can run user code again.
Live == Labels \ {"none", "embryo", "exited", "deleted"}

\* The types of the variables.
MemoryTypes ==
  /\ firstFree \in Seq(Frames) /\ avail \in Nat \ {0} /\ content \in [Frames -> Nat]
  /\ pd \in [Procs -> Nat] /\ pde \in [Procs -> [Regions -> Nat]]
  /\ pte \in [Procs -> [Entries -> Nat]]
  /\ on \in [Cores -> Procs \cup {Idle}] /\ tlb \in [Cores -> [Pages -> Nat]]
  /\ cr2 \in [Cores -> Nat] /\ savedCr2 \in [Procs -> Nat]
  /\ pc \in [Procs -> Labels] /\ page \in [Procs -> Nat] /\ pa \in [Procs -> Nat]
  /\ child \in [Procs -> Procs \cup {Idle}] /\ panicked \in BOOLEAN
  /\ wanted \in [Procs -> Nat] /\ mem \in [Procs -> [Pages -> Nat]]

\* f is in queue w.
Among(w, f) == \E k \in DOMAIN w : w[k] = f

\* No frame is in list w twice.
Distinct(w) == \A j, k \in DOMAIN w : w[j] = w[k] => j = k

\* alloc_frame() has given f out, and dealloc_frame() has not taken it back.
InUse(f) == f \in Frames /\ f < avail /\ ~Among(firstFree, f)

\* The kinds of places the kernel keeps a frame in.
Kinds == {"pd", "pde", "pte", "pa"}

\* The frame in place x of kind k of process p.
Frame(k, p, x) ==
  CASE k = "pd"  -> IF x = 0 THEN pd[p] ELSE None
    [] k = "pde" -> IF x \in Regions THEN pde[p][x] ELSE None
    [] k = "pte" -> IF x \in Pages THEN pte[p][x] ELSE None
    [] k = "pa"  -> IF x = 0 /\ pc[p] \in Handing THEN pa[p] ELSE None

\* The list of free frames.
FreeOk ==
  /\ Distinct(firstFree)
  /\ \A k \in DOMAIN firstFree : firstFree[k] < avail

\* A frame in a place is in use.
PlacesUsed ==
  \A k \in Kinds, p \in Procs, x \in Nat : Frame(k, p, x) # None => InUse(Frame(k, p, x))

\* No two places have the same frame.
PlacesApart ==
  \A k, l \in Kinds, p, q \in Procs, x, y \in Nat :
    Frame(k, p, x) = Frame(l, q, y) /\ Frame(k, p, x) # None => k = l /\ p = q /\ x = y

\* What is stored in page i of p.
Value(p, i) == IF pte[p][i] = None THEN 0 ELSE content[pte[p][i]]

\* A core runs a process that exists and that no other core runs, and has cached nothing but
\* its page table.
CoreOk(c) ==
  /\ on[c] \in Procs => /\ pc[on[c]] \notin {"none", "embryo", "deleted"}
                        /\ \A d \in Cores : on[d] = on[c] => d = c
  /\ \A i \in Pages : tlb[c][i] # None =>
       /\ on[c] \in Procs
       /\ \/ tlb[c][i] = pte[on[c]][i]
          \/ pc[on[c]] \in {"execFree", "execFlush"} /\ page[on[c]] = i

\* The address space of p: none before fork, and a directory until delete_pd().
SpaceOk(p) ==
  /\ pc[p] = "none" => \A k \in Kinds, x \in Nat : Frame(k, p, x) = None
  /\ pc[p] \notin {"none", "deleted"} => pd[p] # None
  /\ pc[p] \in {"faultMap", "forkMap", "forkCopy", "execFree"} => pa[p] # None
  /\ pc[p] \in Live => \A i \in Pages : mem[p][i] = Value(p, i)

\* The fault of p is on a page that is not mapped; it is in CR2 while p runs, and saved while
\* it does not.
FaultOk(p) ==
  /\ pc[p] \in {"fault", "faultAlloc", "faultMap"} =>
       wanted[p] \in Pages /\ pte[p][wanted[p]] = None
  /\ pc[p] = "fault" => /\ \A c \in Cores : on[c] = p => cr2[c] = wanted[p]
                        /\ (\A c \in Cores : on[c] # p) => savedCr2[p] = wanted[p]
  /\ pc[p] \in {"faultAlloc", "faultMap"} => page[p] = wanted[p]
  /\ pc[p] = "faultMap" => content[pa[p]] = 0

\* fork has copied the pages before page[p] and mapped none after it.
ForkOk(p) ==
  /\ pc[p] \in Forking => child[p] \in Procs /\ pc[child[p]] = "embryo"
  /\ pc[p] = "forkApic" => \A i \in Pages : pte[child[p]][i] = None
  /\ pc[p] \in Looping =>
       /\ \A i \in Pages : i < page[p] => Value(child[p], i) = Value(p, i)
       /\ \A i \in Pages : i > page[p] => pte[child[p]][i] = None
       /\ pc[p] # "forkCopy" => \A i \in Pages : i = page[p] => pte[child[p]][i] = None
  /\ pc[p] \in {"forkMap", "forkCopy", "execFree", "execFlush"} => page[p] \in Pages
  /\ pc[p] \in {"forkMap", "forkCopy"} => pte[p][page[p]] # None
  /\ pc[p] = "forkCopy" => pte[child[p]][page[p]] = pa[p]

\* A process has one parent.
OneParent ==
  \A p, q \in Procs :
    (/\ pc[p] \in Forking /\ pc[q] \in Forking
     /\ child[p] = child[q]) => p = q

\* The inductive invariant.
MemoryInv ==
  /\ MemoryTypes /\ FreeOk /\ PlacesUsed /\ PlacesApart /\ OneParent
  /\ \A c \in Cores : CoreOk(c)
  /\ \A p \in Procs : SpaceOk(p) /\ FaultOk(p) /\ ForkOk(p)

\* The constants, and what the entries that are not present are.
LEMMA Facts ==
  /\ Pages \subseteq Nat \ {0} /\ Regions \subseteq Nat \ {0} /\ Frames \subseteq Nat \ {0}
  /\ Apic \in Regions /\ (\A i \in Pages : RegionOf[i] \in Regions)
  /\ Idle \notin Procs /\ Root \in Procs /\ None = 0 /\ MaxValue \in Nat /\ NumFrames \in Nat
  /\ Values \subseteq Nat /\ Link \in Nat /\ NumPages \in Nat
  /\ Pages \subseteq Entries /\ ApicPages \subseteq Entries /\ Entries \subseteq Nat
  /\ Pages \cap ApicPages = {} /\ Entries \ ApicPages = Pages
  /\ \A i \in ApicPages : Device(i) \in Nat
<1>1. Pages \subseteq Nat \ {0} /\ Frames \subseteq Nat \ {0} /\ Values \subseteq Nat
  BY VirtualMemoryAssumption DEF Pages, Frames, Values
<1>2. Apic \in Regions /\ \A i \in Pages : RegionOf[i] \in Regions
  BY DEF Regions
<1>3. Regions \subseteq Nat \ {0}
  BY VirtualMemoryAssumption DEF Regions, Apic
<1>4. /\ Pages \subseteq Entries /\ ApicPages \subseteq Entries /\ Entries \subseteq Nat
      /\ Pages \cap ApicPages = {} /\ Entries \ ApicPages = Pages
      /\ \A i \in ApicPages : Device(i) \in Nat
  BY VirtualMemoryAssumption DEF Pages, ApicPages, Entries, Device
<1> QED
  BY <1>1, <1>2, <1>3, <1>4, VirtualMemoryAssumption DEF None, Link

\* The loops of fork and execl visit pages only.
LEMMA RemainingIs ==
  ASSUME NEW p
  PROVE  Remaining(p) = {i \in Pages : i >= page[p] /\ pte[p][i] # None}
  BY Facts DEF Remaining

\* A running process is on its core.
LEMMA RunningOn ==
  ASSUME NEW p \in Procs, Running(p)
  PROVE  CoreOf(p) \in Cores /\ on[CoreOf(p)] = p
  BY DEF Running, CoreOf

\* alloc_frame() gives out a frame that was not in use, zeroed.
LEMMA Allocates ==
  ASSUME MemoryTypes, FreeOk, AllocFrame
  PROVE  /\ FreeOk' /\ firstFree' \in Seq(Frames) /\ avail' \in Nat \ {0} /\ content' \in [Frames -> Nat]
         /\ Fresh \in Frames /\ ~InUse(Fresh) /\ content'[Fresh] = 0
         /\ \A f : InUse(f) => InUse(f)' /\ content'[f] = content[f]
         /\ \A f : f = Fresh => InUse(f)'
<1>1. CASE firstFree # <<>>
  <2>1. /\ firstFree' = Tail(firstFree) /\ avail' = avail /\ Fresh = Head(firstFree)
        /\ content' = [content EXCEPT ![Fresh] = 0]
    BY <1>1 DEF AllocFrame, Fresh
  <2>2. /\ Len(firstFree) \in Nat \ {0} /\ DOMAIN firstFree = 1..Len(firstFree)
        /\ Fresh = firstFree[1] /\ Fresh \in Frames
        /\ firstFree' \in Seq(Frames) /\ DOMAIN firstFree' = 1..(Len(firstFree) - 1)
        /\ \A k \in 1..(Len(firstFree) - 1) : firstFree'[k] = firstFree[k + 1]
    BY <1>1, <2>1 DEF MemoryTypes
  <2>3. 1 \in DOMAIN firstFree
    BY <2>2
  <2>4. Among(firstFree, Fresh) /\ Fresh < avail
    BY <2>2, <2>3 DEF Among, FreeOk
  <2>5. ASSUME NEW f, Among(firstFree', f) PROVE Among(firstFree, f) /\ f # Fresh
    <3>1. PICK k \in 1..(Len(firstFree) - 1) : firstFree'[k] = f
      BY <2>2, <2>5 DEF Among
    <3>2. firstFree[k + 1] = f /\ k + 1 \in DOMAIN firstFree /\ k + 1 # 1
      BY <2>2, <3>1
    <3> QED
      BY <2>2, <2>3, <3>2 DEF Among, FreeOk, Distinct
  <2>6. ASSUME NEW j \in DOMAIN firstFree', NEW k \in DOMAIN firstFree', firstFree'[j] = firstFree'[k]
        PROVE  j = k
    <3>1. /\ firstFree[j + 1] = firstFree[k + 1] /\ j \in Nat /\ k \in Nat
          /\ j + 1 \in DOMAIN firstFree /\ k + 1 \in DOMAIN firstFree
      BY <2>2, <2>6
    <3>2. j + 1 = k + 1
      BY <3>1 DEF FreeOk, Distinct
    <3> QED
      BY <3>1, <3>2
  <2>7. ASSUME NEW k \in DOMAIN firstFree' PROVE firstFree'[k] < avail'
    <3>1. firstFree'[k] = firstFree[k + 1] /\ k + 1 \in DOMAIN firstFree
      BY <2>2
    <3> QED
      BY <2>1, <3>1 DEF FreeOk
  <2>8. FreeOk'
    BY <2>6, <2>7 DEF FreeOk, Distinct
  <2>9. ~InUse(Fresh) /\ \A f : InUse(f) => f # Fresh
    BY <2>4 DEF InUse
  <2>10. \A f : (InUse(f) => InUse(f)') /\ (f = Fresh => InUse(f)')
    BY <2>1, <2>2, <2>4, <2>5 DEF InUse
  <2>11. content' \in [Frames -> Nat] /\ content'[Fresh] = 0 /\ avail' \in Nat \ {0}
    BY <2>1, <2>2 DEF MemoryTypes
  <2>12. \A f : InUse(f) => content'[f] = content[f]
    BY <2>1, <2>9 DEF InUse, MemoryTypes
  <2> QED
    BY <2>2, <2>8, <2>9, <2>10, <2>11, <2>12
<1>2. CASE firstFree = <<>>
  <2>1. /\ firstFree' = firstFree /\ avail' = avail + 1 /\ Fresh = avail /\ avail <= NumFrames
        /\ content' = [content EXCEPT ![Fresh] = 0]
    BY <1>2 DEF AllocFrame, Fresh, Available
  <2>2. PICK a \in Nat \ {0} : a = avail
    BY DEF MemoryTypes
  <2>3. ~Among(firstFree, a)
    BY <1>2 DEF Among
  <2>4. DOMAIN firstFree = {}
    BY <1>2
  <2>5. Fresh \in Nat /\ Fresh \in Frames /\ NumFrames \in Nat
    BY <2>1, <2>2, Facts DEF Frames
  <2>6. FreeOk' /\ firstFree' \in Seq(Frames)
    BY <2>1, <2>4 DEF FreeOk, Distinct, MemoryTypes
  <2>7. avail' \in Nat \ {0} /\ content' \in [Frames -> Nat] /\ content'[Fresh] = 0
    BY <2>1, <2>2, <2>5 DEF MemoryTypes
  <2>8. ~InUse(Fresh)
    BY <2>1, <2>2 DEF InUse
  <2>9. \A f : InUse(f) => InUse(f)' /\ content'[f] = content[f]
    BY <2>1, <2>2, <2>4 DEF InUse, Among, Frames, MemoryTypes
  <2>10. \A f : f = Fresh => InUse(f)'
    BY <2>1, <2>2, <2>4, <2>5 DEF InUse, Among
  <2> QED
    BY <2>5, <2>6, <2>7, <2>8, <2>9, <2>10
<1> QED
  BY <1>1, <1>2

\* dealloc_frame() of frames that are in use: they are free, and the others stay in use.
LEMMA Deallocates ==
  ASSUME MemoryTypes, FreeOk, NEW s \in Seq(Frames), Distinct(s),
         \A k \in DOMAIN s : InUse(s[k]), DeallocFrames(s), avail' = avail
  PROVE  /\ FreeOk' /\ firstFree' \in Seq(Frames) /\ content' \in [Frames -> Nat]
         /\ \A f : InUse(f) /\ ~Among(s, f) => InUse(f)' /\ content'[f] = content[f]
<1> DEFINE m == Len(s)
           n == Len(firstFree)
<1>1. /\ m \in Nat /\ n \in Nat /\ DOMAIN s = 1..m /\ DOMAIN firstFree = 1..n
      /\ firstFree' = s \o firstFree
  BY DEF MemoryTypes, DeallocFrames
<1>2. /\ firstFree' \in Seq(Frames) /\ DOMAIN firstFree' = 1..(m + n)
      /\ \A k \in 1..m : firstFree'[k] = s[k]
      /\ \A k \in (m + 1)..(m + n) : firstFree'[k] = firstFree[k - m]
  BY <1>1 DEF MemoryTypes
<1> HIDE DEF m, n
<1>3. ASSUME NEW k \in 1..(m + n)
      PROVE  \/ k \in DOMAIN s /\ firstFree'[k] = s[k]
             \/ k - m \in DOMAIN firstFree /\ firstFree'[k] = firstFree[k - m]
  BY <1>1, <1>2
<1>4. ASSUME NEW f, Among(firstFree', f) PROVE Among(s, f) \/ Among(firstFree, f)
  BY <1>2, <1>3, <1>4 DEF Among
<1>5. \A k \in DOMAIN firstFree' : firstFree'[k] < avail'
  BY <1>2, <1>3 DEF InUse, FreeOk
<1>6. ASSUME NEW j \in 1..(m + n), NEW k \in 1..(m + n), firstFree'[j] = firstFree'[k] PROVE j = k
  <2>1. CASE j \in DOMAIN s /\ firstFree'[j] = s[j] /\ k \in DOMAIN s /\ firstFree'[k] = s[k]
    BY <1>6, <2>1 DEF Distinct
  <2>2. CASE /\ j - m \in DOMAIN firstFree /\ firstFree'[j] = firstFree[j - m]
             /\ k - m \in DOMAIN firstFree /\ firstFree'[k] = firstFree[k - m]
    <3>1. j - m = k - m
      BY <1>6, <2>2 DEF Distinct, FreeOk
    <3> QED
      BY <1>1, <3>1
  <2>3. CASE /\ j \in DOMAIN s /\ firstFree'[j] = s[j]
             /\ k - m \in DOMAIN firstFree /\ firstFree'[k] = firstFree[k - m]
    BY <1>6, <2>3 DEF InUse, Among
  <2>4. CASE /\ j - m \in DOMAIN firstFree /\ firstFree'[j] = firstFree[j - m]
             /\ k \in DOMAIN s /\ firstFree'[k] = s[k]
    BY <1>6, <2>4 DEF InUse, Among
  <2> QED
    BY <1>3, <2>1, <2>2, <2>3, <2>4
<1>7. FreeOk'
  BY <1>2, <1>5, <1>6 DEF FreeOk, Distinct
<1>8. content' \in [Frames -> Nat]
  BY Facts DEF DeallocFrames, MemoryTypes
<1>9. \A f : InUse(f) /\ ~Among(s, f) => InUse(f)' /\ content'[f] = content[f]
  BY <1>4 DEF InUse, DeallocFrames, Among
<1> QED
  BY <1>2, <1>7, <1>8, <1>9

\* A step that is not about process q: what it has, and what is in its frames, stays.
Undisturbed(q) ==
  /\ pc'[q] = pc[q] /\ page'[q] = page[q] /\ pa'[q] = pa[q] /\ child'[q] = child[q]
  /\ wanted'[q] = wanted[q] /\ mem'[q] = mem[q]
  /\ pd'[q] = pd[q] /\ pde'[q] = pde[q] /\ pte'[q] = pte[q]
  /\ \A i \in Pages : pte[q][i] # None => content'[pte[q][i]] = content[pte[q][i]]
  /\ pc[q] = "faultMap" => content'[pa[q]] = content[pa[q]]

\* The frames of q keep their contents when only frames of p, or free ones, are written.
LEMMA UndisturbedIf ==
  ASSUME MemoryInv, NEW p \in Procs, NEW q \in Procs, p # q,
         pc'[q] = pc[q], page'[q] = page[q], pa'[q] = pa[q], child'[q] = child[q],
         wanted'[q] = wanted[q], mem'[q] = mem[q],
         pd'[q] = pd[q], pde'[q] = pde[q], pte'[q] = pte[q],
         \A f : InUse(f) =>
           content'[f] = content[f] \/ \E k \in Kinds, x \in Nat : Frame(k, p, x) = f
  PROVE  Undisturbed(q)
<1>1. ASSUME NEW l \in Kinds, NEW y \in Nat, NEW f, f = Frame(l, q, y), f # None
      PROVE  content'[f] = content[f]
  <2>1. InUse(f)
    BY <1>1 DEF MemoryInv, PlacesUsed
  <2>2. \A k \in Kinds, x \in Nat : Frame(k, p, x) # f
    BY <1>1 DEF MemoryInv, PlacesApart
  <2> QED
    BY <2>1, <2>2
<1>2. ASSUME NEW i \in Pages, pte[q][i] # None PROVE content'[pte[q][i]] = content[pte[q][i]]
  <2>1. Frame("pte", q, i) = pte[q][i] /\ "pte" \in Kinds /\ i \in Nat
    BY Facts DEF Frame, Kinds
  <2> QED
    BY <1>1, <1>2, <2>1
<1>3. ASSUME pc[q] = "faultMap" PROVE content'[pa[q]] = content[pa[q]]
  <2>1. Frame("pa", q, 0) = pa[q] /\ "pa" \in Kinds /\ pa[q] # None
    BY <1>3 DEF Frame, Kinds, Handing, MemoryInv, SpaceOk
  <2> QED
    BY <1>1, <2>1
<1> QED
  BY <1>2, <1>3 DEF Undisturbed

\* What an undisturbed process has in its pages stays.
LEMMA ValueStays ==
  ASSUME NEW q \in Procs, Undisturbed(q), NEW i \in Pages
  PROVE  Value(q, i)' = Value(q, i)
  BY DEF Undisturbed, Value

\* An undisturbed process, with an undisturbed child, keeps its part of the invariant.
LEMMA OthersKeep ==
  ASSUME MemoryInv, NEW q \in Procs, Undisturbed(q),
         pc[q] \in Forking => Undisturbed(child[q]),
         on' = on, savedCr2' = savedCr2, \A c \in Cores : on[c] = q => cr2'[c] = cr2[c]
  PROVE  SpaceOk(q)' /\ FaultOk(q)' /\ ForkOk(q)'
<1>1. SpaceOk(q) /\ FaultOk(q) /\ ForkOk(q)
  BY DEF MemoryInv
<1>2. \A k \in Kinds, x \in Nat : Frame(k, q, x)' = Frame(k, q, x)
  BY DEF Frame, Undisturbed, Kinds
<1>3. \A i \in Pages : Value(q, i)' = Value(q, i)
  BY ValueStays
<1>4. SpaceOk(q)'
  BY <1>1, <1>2, <1>3 DEF SpaceOk, Undisturbed
<1>5. FaultOk(q)'
  BY <1>1 DEF FaultOk, Undisturbed
<1>6. CASE pc[q] \in Forking
  <2>1. PICK e \in Procs : e = child[q]
    BY <1>1, <1>6 DEF ForkOk
  <2>2. child'[q] = e /\ Undisturbed(e) /\ \A i \in Pages : Value(e, i)' = Value(e, i)
    BY <1>6, <2>1, ValueStays DEF Undisturbed
  <2>3. pc'[e] = pc[e] /\ pte'[e] = pte[e] /\ pc'[q] = pc[q] /\ page'[q] = page[q] /\ pa'[q] = pa[q]
        /\ pte'[q] = pte[q]
    BY <2>2 DEF Undisturbed
  <2>4. \A i \in Pages : i < page'[q] /\ pc'[q] \in Looping => Value(e, i)' = Value(q, i)'
    BY <1>1, <1>3, <2>1, <2>2, <2>3 DEF ForkOk
  <2>5. \A i \in Pages : Value(child[q], i)' = Value(e, i)'
    BY <2>2 DEF Value
  <2> QED
    BY <1>1, <1>4, <1>5, <2>1, <2>2, <2>3, <2>4, <2>5 DEF ForkOk
<1>7. CASE pc[q] \notin Forking
  <2>1. pc'[q] \notin Forking /\ pc'[q] \notin Looping /\ pc'[q] \notin {"forkApic", "forkMap", "forkCopy"}
    BY <1>7 DEF Undisturbed, Forking, Looping
  <2>2. pc'[q] \in {"execFree", "execFlush"} => page'[q] \in Pages
    BY <1>1 DEF ForkOk, Undisturbed
  <2> QED
    BY <1>4, <1>5, <2>1, <2>2 DEF ForkOk
<1> QED
  BY <1>6, <1>7

\* A step of process p, which core c runs, and which may be making process e: what is left to
\* show is about p, e, c and the frames.
LEMMA StepKeeps ==
  ASSUME MemoryInv, NEW p \in Procs, NEW c \in Cores, on[c] = p, NEW e \in Procs,
         on' = on, savedCr2' = savedCr2,
         \A d \in Cores : d # c => tlb'[d] = tlb[d] /\ cr2'[d] = cr2[d],
         \A q \in Procs : q # p /\ q # e => Undisturbed(q),
         e # p => /\ pc[e] = "none" \/ (pc[e] = "embryo" /\ pc[p] \in Forking /\ e = child[p])
                  /\ pc'[e] \in {"embryo", "user"},
         pc'[p] \in Forking => child'[p] = e /\ e # p,
         MemoryTypes', FreeOk', PlacesUsed', PlacesApart', CoreOk(c)',
         SpaceOk(p)', FaultOk(p)', ForkOk(p)', SpaceOk(e)', FaultOk(e)', ForkOk(e)'
  PROVE  MemoryInv'
<1>1. pc[p] # "embryo" /\ pc[p] # "none"
  BY DEF MemoryInv, CoreOk
<1>2. ASSUME NEW q \in Procs, q # p, pc[q] \in Forking
      PROVE  /\ child[q] \in Procs /\ child[q] # e /\ child[q] # p
             /\ q # e /\ Undisturbed(q) /\ Undisturbed(child[q])
  <2>1. child[q] \in Procs /\ pc[child[q]] = "embryo"
    BY <1>2 DEF MemoryInv, ForkOk
  <2>2. child[q] # e
    BY <1>1, <1>2, <2>1 DEF MemoryInv, OneParent
  <2>3. q # e
    BY <1>2 DEF Forking
  <2> QED
    BY <1>1, <1>2, <2>1, <2>2, <2>3
<1>3. ASSUME NEW d \in Cores, d # c PROVE CoreOk(d)' /\ on[d] # p /\ (e # p => on[d] # e)
  <2>1. on[d] # p
    BY <1>3 DEF MemoryInv, CoreOk
  <2>2. e # p => on[d] # e
    BY DEF MemoryInv, CoreOk
  <2>3. on[d] \in Procs => Undisturbed(on[d])
    BY <2>1, <2>2
  <2>4. CoreOk(d) /\ tlb'[d] = tlb[d] /\ on' = on
    BY <1>3 DEF MemoryInv
  <2>5. CoreOk(d)'
    BY <2>3, <2>4 DEF CoreOk, Undisturbed
  <2> QED
    BY <2>1, <2>2, <2>5
<1>4. ASSUME NEW q \in Procs, q # p, q # e PROVE SpaceOk(q)' /\ FaultOk(q)' /\ ForkOk(q)'
  <2>1. \A d \in Cores : on[d] = q => cr2'[d] = cr2[d]
    BY <1>4
  <2>2. Undisturbed(q) /\ (pc[q] \in Forking => Undisturbed(child[q]))
    BY <1>2, <1>4
  <2> QED
    BY <2>1, <2>2, OthersKeep
<1>5. OneParent'
  <2> SUFFICES ASSUME NEW q \in Procs, NEW r \in Procs, pc'[q] \in Forking, pc'[r] \in Forking,
                      child'[q] = child'[r], q # r
               PROVE  FALSE
    BY DEF OneParent
  <2>1. q # e /\ r # e
    BY DEF Forking
  <2>2. CASE q # p /\ r # p
    <3>1. pc[q] \in Forking /\ pc[r] \in Forking /\ child[q] = child[r]
      BY <2>1, <2>2 DEF Undisturbed
    <3> QED
      BY <3>1 DEF MemoryInv, OneParent
  <2>3. CASE q = p
    <3>1. pc[r] \in Forking /\ child'[r] = child[r] /\ child'[p] = e
      BY <2>1, <2>3 DEF Undisturbed
    <3> QED
      BY <1>2, <2>3, <3>1
  <2>4. CASE r = p
    <3>1. pc[q] \in Forking /\ child'[q] = child[q] /\ child'[p] = e
      BY <2>1, <2>4 DEF Undisturbed
    <3> QED
      BY <1>2, <2>4, <3>1
  <2> QED
    BY <2>2, <2>3, <2>4
<1>6. \A d \in Cores : CoreOk(d)'
  BY <1>3
<1>7. \A q \in Procs : SpaceOk(q)' /\ FaultOk(q)' /\ ForkOk(q)'
  BY <1>4
<1> QED
  BY <1>5, <1>6, <1>7 DEF MemoryInv

\* What is known of a running process.
LEMMA ActorIs ==
  ASSUME MemoryInv, NEW p \in Procs, Running(p)
  PROVE  /\ CoreOf(p) \in Cores /\ on[CoreOf(p)] = p /\ CoreOk(CoreOf(p))
         /\ pc[p] \notin {"none", "embryo", "deleted"}
         /\ SpaceOk(p) /\ FaultOk(p) /\ ForkOk(p) /\ MemoryTypes
         /\ pc[p] \notin {"execFree", "execFlush"} =>
              \A i \in Pages : Translate(p, i) = pte[p][i]
<1>1. CoreOf(p) \in Cores /\ on[CoreOf(p)] = p
  BY RunningOn
<1>2. CoreOk(CoreOf(p))
  BY <1>1 DEF MemoryInv
<1>3. SpaceOk(p) /\ FaultOk(p) /\ ForkOk(p) /\ MemoryTypes
  BY DEF MemoryInv
<1> QED
  BY <1>1, <1>2, <1>3 DEF CoreOk, Translate

\* A step that gives out no frame and moves none.
LEMMA PlacesQuiet ==
  ASSUME MemoryInv, firstFree' = firstFree, avail' = avail,
         \A k \in Kinds, p \in Procs, x \in Nat : Frame(k, p, x)' \in {None, Frame(k, p, x)}
  PROVE  FreeOk' /\ PlacesUsed' /\ PlacesApart'
<1>1. FreeOk /\ PlacesUsed /\ PlacesApart
  BY DEF MemoryInv
<1>2. FreeOk'
  BY <1>1 DEF FreeOk, Distinct
<1>3. \A f : InUse(f)' <=> InUse(f)
  BY DEF InUse, Among
<1>4. \A k \in Kinds, p \in Procs, x \in Nat :
        Frame(k, p, x)' # None => Frame(k, p, x)' = Frame(k, p, x) /\ InUse(Frame(k, p, x))
  BY <1>1 DEF PlacesUsed
<1>5. PlacesUsed'
  BY <1>3, <1>4 DEF PlacesUsed, InUse
<1>6. PlacesApart'
  BY <1>1, <1>4 DEF PlacesApart
<1> QED
  BY <1>2, <1>5, <1>6

\* A store changes one page of its process.
LEMMA StoreKeeps ==
  ASSUME MemoryInv, NEW p \in Procs, NEW i \in Pages, NEW v \in Values, Store(p, i, v)
  PROVE  MemoryInv'
<1>1. PICK c \in Cores : c = CoreOf(p)
  BY RunningOn DEF Store
<1>2. /\ on[c] = p /\ CoreOk(c) /\ SpaceOk(p) /\ FaultOk(p) /\ ForkOk(p) /\ MemoryTypes
      /\ pc[p] = "user" /\ Translate(p, i) = pte[p][i]
  BY <1>1, ActorIs DEF Store
<1>3. PICK f : f = pte[p][i]
  OBVIOUS
<1>4. /\ f # None /\ content' = [content EXCEPT ![f] = v] /\ tlb' = [tlb EXCEPT ![c][i] = f]
      /\ mem' = [mem EXCEPT ![p][i] = v]
      /\ firstFree' = firstFree /\ avail' = avail /\ pd' = pd /\ pde' = pde /\ pte' = pte
      /\ on' = on /\ cr2' = cr2 /\ savedCr2' = savedCr2 /\ pc' = pc /\ page' = page /\ pa' = pa
      /\ child' = child /\ panicked' = panicked /\ wanted' = wanted
  BY <1>1, <1>2, <1>3 DEF Store, tableVars
<1>5. "pte" \in Kinds /\ i \in Nat /\ Frame("pte", p, i) = f
  BY <1>3, Facts DEF Frame, Kinds
<1>6. f \in Frames
  BY <1>4, <1>5 DEF MemoryInv, PlacesUsed, InUse
<1>7. MemoryTypes'
  BY <1>2, <1>4, <1>6, Facts DEF MemoryTypes
<1>8. FreeOk' /\ PlacesUsed' /\ PlacesApart'
  <2>1. \A k \in Kinds, q \in Procs, x \in Nat : Frame(k, q, x)' = Frame(k, q, x)
    BY <1>4 DEF Frame, Kinds
  <2> QED
    BY <1>4, <2>1, PlacesQuiet
<1>9. ASSUME NEW q \in Procs, q # p PROVE Undisturbed(q)
  <2>1. \A g : InUse(g) => content'[g] = content[g] \/ \E k \in Kinds, x \in Nat : Frame(k, p, x) = g
    BY <1>2, <1>4, <1>5 DEF MemoryTypes, InUse
  <2>2. mem'[q] = mem[q]
    BY <1>2, <1>4, <1>9 DEF MemoryTypes
  <2> QED
    BY <1>4, <1>9, <2>1, <2>2, UndisturbedIf
<1>10. \A d \in Cores : d # c => tlb'[d] = tlb[d] /\ cr2'[d] = cr2[d]
  BY <1>2, <1>4 DEF MemoryTypes
<1>11. CoreOk(c)'
  BY <1>2, <1>3, <1>4 DEF CoreOk, MemoryTypes
<1>12. SpaceOk(p)'
  <2>1. ASSUME NEW j \in Pages PROVE mem'[p][j] = Value(p, j)'
    <3>1. CASE j = i
      BY <1>2, <1>3, <1>4, <1>6, <3>1 DEF Value, MemoryTypes
    <3>2. CASE j # i
      <4>1. pte[p][j] = f => f = None
        <5>1. Frame("pte", p, j) = pte[p][j] /\ j \in Nat
          BY Facts DEF Frame
        <5> QED
          BY <1>5, <3>2, <5>1 DEF MemoryInv, PlacesApart
      <4>2. mem'[p][j] = mem[p][j] /\ mem[p][j] = Value(p, j)
        BY <1>2, <1>4, <3>2 DEF SpaceOk, Live, Labels, MemoryTypes
      <4>3. pte[p][j] # None => pte[p][j] \in Frames
        BY Facts DEF MemoryInv, PlacesUsed, InUse, Frame, Kinds
      <4>4. pte[p][j] # None => content'[pte[p][j]] = content[pte[p][j]]
        BY <1>2, <1>4, <4>1, <4>3 DEF MemoryTypes
      <4> QED
        BY <1>4, <4>2, <4>4 DEF Value
    <3> QED
      BY <3>1, <3>2
  <2> QED
    BY <1>2, <1>4, <2>1 DEF SpaceOk
<1>13. FaultOk(p)' /\ ForkOk(p)'
  BY <1>2, <1>4 DEF FaultOk, ForkOk, Forking, Looping
<1> QED
  BY ONLY MemoryInv, p \in Procs, c \in Cores, <1>2, <1>4, <1>7, <1>8, <1>9, <1>10, <1>11, <1>12,
          <1>13, StepKeeps DEF Forking

\* A step of p that touches neither a frame nor a page table.
LEMMA LocalStep ==
  ASSUME MemoryInv, NEW p \in Procs, NEW c \in Cores, on[c] = p,
         firstFree' = firstFree, avail' = avail, content' = content,
         pd' = pd, pde' = pde, pte' = pte, on' = on, savedCr2' = savedCr2,
         \A d \in Cores : d # c => tlb'[d] = tlb[d] /\ cr2'[d] = cr2[d],
         \A q \in Procs : q # p => /\ pc'[q] = pc[q] /\ page'[q] = page[q] /\ pa'[q] = pa[q]
                                   /\ child'[q] = child[q] /\ wanted'[q] = wanted[q]
                                   /\ mem'[q] = mem[q],
         pc'[p] \notin Handing, pc'[p] \notin Forking,
         MemoryTypes', CoreOk(c)', SpaceOk(p)', FaultOk(p)', ForkOk(p)'
  PROVE  MemoryInv'
<1>1. \A k \in Kinds, q \in Procs, x \in Nat : Frame(k, q, x)' \in {None, Frame(k, q, x)}
  BY DEF Frame, Kinds
<1>2. FreeOk' /\ PlacesUsed' /\ PlacesApart'
  BY <1>1, PlacesQuiet
<1>3. ASSUME NEW q \in Procs, q # p PROVE Undisturbed(q)
  BY <1>3 DEF Undisturbed
<1> QED
  BY ONLY MemoryInv, p \in Procs, c \in Cores, on[c] = p, on' = on, savedCr2' = savedCr2,
          \A d \in Cores : d # c => tlb'[d] = tlb[d] /\ cr2'[d] = cr2[d],
          pc'[p] \notin Forking, MemoryTypes', CoreOk(c)', SpaceOk(p)', FaultOk(p)', ForkOk(p)',
          <1>2, <1>3, StepKeeps

\* An access to a page that is not mapped leaves its page in CR2.
LEMMA PageFaultKeeps ==
  ASSUME MemoryInv, NEW p \in Procs, NEW i \in Pages, PageFault(p, i)
  PROVE  MemoryInv'
<1>1. PICK c \in Cores : c = CoreOf(p)
  BY RunningOn DEF PageFault, At
<1>2. /\ on[c] = p /\ CoreOk(c) /\ SpaceOk(p) /\ FaultOk(p) /\ ForkOk(p) /\ MemoryTypes
      /\ pc[p] = "user" /\ pte[p][i] = None
  BY <1>1, ActorIs DEF PageFault, At
<1>3. /\ pc' = [pc EXCEPT ![p] = "fault"] /\ cr2' = [cr2 EXCEPT ![c] = i]
      /\ wanted' = [wanted EXCEPT ![p] = i]
      /\ firstFree' = firstFree /\ avail' = avail /\ content' = content
      /\ pd' = pd /\ pde' = pde /\ pte' = pte
      /\ on' = on /\ tlb' = tlb /\ savedCr2' = savedCr2 /\ page' = page /\ pa' = pa
      /\ child' = child /\ panicked' = panicked /\ mem' = mem
  BY <1>1 DEF PageFault, At, frameVars, tableVars
<1>4. /\ \A d \in Cores : d # c => tlb'[d] = tlb[d] /\ cr2'[d] = cr2[d]
      /\ \A q \in Procs : q # p => /\ pc'[q] = pc[q] /\ page'[q] = page[q] /\ pa'[q] = pa[q]
                                   /\ child'[q] = child[q] /\ wanted'[q] = wanted[q]
                                   /\ mem'[q] = mem[q]
      /\ pc'[p] = "fault" /\ wanted'[p] = i /\ cr2'[c] = i
  BY <1>2, <1>3 DEF MemoryTypes
<1>5. MemoryTypes'
  BY <1>2, <1>3, Facts DEF MemoryTypes, Labels
<1>6. CoreOk(c)'
  BY <1>2, <1>3, <1>4 DEF CoreOk
<1>7. SpaceOk(p)'
  <2>1. \A j \in Pages : Value(p, j)' = Value(p, j)
    BY <1>3 DEF Value
  <2> QED
    BY <1>2, <1>3, <1>4, <2>1 DEF SpaceOk, Live, Labels
<1>8. FaultOk(p)'
  BY <1>2, <1>3, <1>4 DEF FaultOk, CoreOk
<1>9. ForkOk(p)' /\ pc'[p] \notin Handing /\ pc'[p] \notin Forking
  BY <1>4 DEF ForkOk, Forking, Looping, Handing
<1> QED
  BY ONLY MemoryInv, p \in Procs, c \in Cores, <1>2, <1>3, <1>4, <1>5, <1>6, <1>7, <1>8, <1>9,
          LocalStep

\* The handler reads CR2, which holds the page of its own fault.
LEMMA FaultReadKeeps ==
  ASSUME MemoryInv, NEW p \in Procs, FaultReadCr2(p)
  PROVE  MemoryInv'
<1>1. PICK c \in Cores : c = CoreOf(p)
  BY RunningOn DEF FaultReadCr2, At
<1>2. /\ on[c] = p /\ CoreOk(c) /\ SpaceOk(p) /\ FaultOk(p) /\ ForkOk(p) /\ MemoryTypes
      /\ pc[p] = "fault"
  BY <1>1, ActorIs DEF FaultReadCr2, At
<1>3. /\ pc' = [pc EXCEPT ![p] = "faultAlloc"] /\ page' = [page EXCEPT ![p] = cr2[c]]
      /\ firstFree' = firstFree /\ avail' = avail /\ content' = content
      /\ pd' = pd /\ pde' = pde /\ pte' = pte /\ cr2' = cr2 /\ wanted' = wanted
      /\ on' = on /\ tlb' = tlb /\ savedCr2' = savedCr2 /\ pa' = pa
      /\ child' = child /\ panicked' = panicked /\ mem' = mem
  BY <1>1 DEF FaultReadCr2, At, frameVars, tableVars, coreVars
<1>4. /\ \A d \in Cores : d # c => tlb'[d] = tlb[d] /\ cr2'[d] = cr2[d]
      /\ \A q \in Procs : q # p => /\ pc'[q] = pc[q] /\ page'[q] = page[q] /\ pa'[q] = pa[q]
                                   /\ child'[q] = child[q] /\ wanted'[q] = wanted[q]
                                   /\ mem'[q] = mem[q]
      /\ pc'[p] = "faultAlloc" /\ page'[p] = cr2[c]
  BY <1>2, <1>3 DEF MemoryTypes
<1>5. MemoryTypes'
  BY <1>2, <1>3 DEF MemoryTypes, Labels
<1>6. CoreOk(c)'
  BY <1>2, <1>3, <1>4 DEF CoreOk
<1>7. SpaceOk(p)'
  <2>1. \A j \in Pages : Value(p, j)' = Value(p, j)
    BY <1>3 DEF Value
  <2> QED
    BY <1>2, <1>3, <1>4, <2>1 DEF SpaceOk, Live, Labels
<1>8. FaultOk(p)'
  BY <1>2, <1>3, <1>4 DEF FaultOk
<1>9. ForkOk(p)' /\ pc'[p] \notin Handing /\ pc'[p] \notin Forking
  BY <1>4 DEF ForkOk, Forking, Looping, Handing
<1> QED
  BY ONLY MemoryInv, p \in Procs, c \in Cores, <1>2, <1>3, <1>4, <1>5, <1>6, <1>7, <1>8, <1>9,
          LocalStep

\* execl starts or ends its loop, or the process exits.
LEMMA CallsKeep ==
  ASSUME MemoryInv, NEW p \in Procs, Execl(p) \/ ExeclDone(p) \/ Exit(p)
  PROVE  MemoryInv'
<1>1. PICK c \in Cores : c = CoreOf(p)
  BY RunningOn DEF Execl, ExeclDone, Exit, At
<1>2. /\ on[c] = p /\ CoreOk(c) /\ SpaceOk(p) /\ FaultOk(p) /\ ForkOk(p) /\ MemoryTypes
      /\ pc[p] \in {"user", "execNext"}
  BY <1>1, ActorIs DEF Execl, ExeclDone, Exit, At
<1>3. PICK l \in {"user", "execNext", "exited"}, n \in Nat, m \in [Pages -> Nat] :
        /\ pc' = [pc EXCEPT ![p] = l] /\ page' = [page EXCEPT ![p] = n]
        /\ mem' = [mem EXCEPT ![p] = m] /\ (l = "exited" \/ m = mem[p])
  <2>1. /\ mem[p] \in [Pages -> Nat] /\ page[p] \in Nat /\ Zero \in [Pages -> Nat] /\ None \in Nat
        /\ mem = [mem EXCEPT ![p] = mem[p]] /\ page = [page EXCEPT ![p] = page[p]]
    BY <1>2, Facts DEF MemoryTypes, Zero
  <2>2. CASE Execl(p)
    <3>1. /\ pc' = [pc EXCEPT ![p] = "execNext"] /\ page' = [page EXCEPT ![p] = 1]
          /\ mem' = [mem EXCEPT ![p] = mem[p]]
      BY <2>1, <2>2 DEF Execl, At
    <3> QED
      BY <2>1, <3>1
  <2>3. CASE ExeclDone(p)
    <3>1. /\ pc' = [pc EXCEPT ![p] = "user"] /\ page' = [page EXCEPT ![p] = None]
          /\ mem' = [mem EXCEPT ![p] = mem[p]]
      BY <2>1, <2>3 DEF ExeclDone, At
    <3> QED
      BY <2>1, <3>1
  <2>4. CASE Exit(p)
    <3>1. /\ pc' = [pc EXCEPT ![p] = "exited"] /\ page' = [page EXCEPT ![p] = page[p]]
          /\ mem' = [mem EXCEPT ![p] = Zero]
      BY <2>1, <2>4 DEF Exit, At
    <3> QED
      BY <2>1, <3>1
  <2> QED
    BY <2>2, <2>3, <2>4
<1>4. /\ firstFree' = firstFree /\ avail' = avail /\ content' = content
      /\ pd' = pd /\ pde' = pde /\ pte' = pte /\ cr2' = cr2 /\ wanted' = wanted
      /\ on' = on /\ tlb' = tlb /\ savedCr2' = savedCr2 /\ pa' = pa
      /\ child' = child /\ panicked' = panicked
  BY DEF Execl, ExeclDone, Exit, frameVars, tableVars, coreVars
<1>5. /\ \A d \in Cores : d # c => tlb'[d] = tlb[d] /\ cr2'[d] = cr2[d]
      /\ \A q \in Procs : q # p => /\ pc'[q] = pc[q] /\ page'[q] = page[q] /\ pa'[q] = pa[q]
                                   /\ child'[q] = child[q] /\ wanted'[q] = wanted[q]
                                   /\ mem'[q] = mem[q]
      /\ pc'[p] = l /\ mem'[p] = m
  BY <1>2, <1>3, <1>4 DEF MemoryTypes
<1>6. MemoryTypes'
  BY <1>2, <1>3, <1>4 DEF MemoryTypes, Labels
<1>7. CoreOk(c)'
  BY <1>2, <1>4, <1>5 DEF CoreOk
<1>8. SpaceOk(p)'
  <2>1. \A j \in Pages : Value(p, j)' = Value(p, j)
    BY <1>4 DEF Value
  <2> QED
    BY <1>2, <1>3, <1>4, <1>5, <2>1 DEF SpaceOk, Live, Labels
<1>9. FaultOk(p)' /\ ForkOk(p)' /\ pc'[p] \notin Handing /\ pc'[p] \notin Forking
  BY <1>5 DEF FaultOk, ForkOk, Forking, Looping, Handing
<1> QED
  BY ONLY MemoryInv, p \in Procs, c \in Cores, <1>2, <1>4, <1>5, <1>6, <1>7, <1>8, <1>9,
          LocalStep

\* invlpg() drops the one entry of the TLB that is not in the page table any more.
LEMMA FlushKeeps ==
  ASSUME MemoryInv, NEW p \in Procs, ExeclFlush(p)
  PROVE  MemoryInv'
<1>1. PICK c \in Cores : c = CoreOf(p)
  BY RunningOn DEF ExeclFlush, At
<1>2. /\ on[c] = p /\ CoreOk(c) /\ SpaceOk(p) /\ FaultOk(p) /\ ForkOk(p) /\ MemoryTypes
      /\ pc[p] = "execFlush"
  BY <1>1, ActorIs DEF ExeclFlush, At
<1>3. PICK i \in Pages : i = page[p]
  BY <1>2 DEF ForkOk
<1>4. /\ pc' = [pc EXCEPT ![p] = "execNext"] /\ page' = [page EXCEPT ![p] = i + 1]
      /\ tlb' = [tlb EXCEPT ![c][i] = None]
      /\ firstFree' = firstFree /\ avail' = avail /\ content' = content
      /\ pd' = pd /\ pde' = pde /\ pte' = pte /\ cr2' = cr2 /\ wanted' = wanted
      /\ on' = on /\ savedCr2' = savedCr2 /\ pa' = pa
      /\ child' = child /\ panicked' = panicked /\ mem' = mem
  BY <1>1, <1>3 DEF ExeclFlush, At, frameVars, tableVars, coreVars
<1>5. /\ \A d \in Cores : d # c => tlb'[d] = tlb[d] /\ cr2'[d] = cr2[d]
      /\ \A q \in Procs : q # p => /\ pc'[q] = pc[q] /\ page'[q] = page[q] /\ pa'[q] = pa[q]
                                   /\ child'[q] = child[q] /\ wanted'[q] = wanted[q]
                                   /\ mem'[q] = mem[q]
      /\ pc'[p] = "execNext" /\ tlb'[c][i] = None
      /\ \A j \in Pages : j # i => tlb'[c][j] = tlb[c][j]
  BY <1>2, <1>4 DEF MemoryTypes
<1>6. MemoryTypes'
  <2>1. i + 1 \in Nat /\ None \in Nat /\ "execNext" \in Labels
    BY <1>3, Facts DEF Labels
  <2> QED
    BY <1>2, <1>4, <2>1 DEF MemoryTypes
<1>7. CoreOk(c)'
  BY <1>2, <1>3, <1>4, <1>5 DEF CoreOk
<1>8. SpaceOk(p)'
  <2>1. \A j \in Pages : Value(p, j)' = Value(p, j)
    BY <1>4 DEF Value
  <2> QED
    BY <1>2, <1>4, <1>5, <2>1 DEF SpaceOk, Live, Labels
<1>9. FaultOk(p)' /\ ForkOk(p)' /\ pc'[p] \notin Handing /\ pc'[p] \notin Forking
  BY <1>5 DEF FaultOk, ForkOk, Forking, Looping, Handing
<1> QED
  BY ONLY MemoryInv, p \in Procs, c \in Cores, <1>2, <1>4, <1>5, <1>6, <1>7, <1>8, <1>9,
          LocalStep

\* map() may allocate a page table; it changes no other frame.
LEMMA MapIs ==
  ASSUME MemoryTypes, FreeOk, NEW q \in Procs, NEW i \in Pages, NEW f \in Nat, Map(q, i, f),
         NEW h, h = IF pde[q][RegionOf[i]] = None THEN Fresh ELSE None
  PROVE  /\ FreeOk' /\ firstFree' \in Seq(Frames) /\ avail' \in Nat \ {0}
         /\ content' \in [Frames -> Nat] /\ pde' \in [Procs -> [Regions -> Nat]]
         /\ pte' \in [Procs -> [Entries -> Nat]]
         /\ pte'[q][i] = f
         /\ \A r \in Procs, j \in Pages : r # q \/ j # i => pte'[r][j] = pte[r][j]
         /\ \A r \in Procs : r # q => pte'[r] = pte[r] /\ pde'[r] = pde[r]
         /\ \A g : InUse(g) => InUse(g)' /\ content'[g] = content[g]
         /\ h = None \/ ~InUse(h)
         /\ h # None => InUse(h)'
         /\ \A r \in Procs, x \in Regions :
              pde'[r][x] = pde[r][x] \/ (r = q /\ x = RegionOf[i] /\ pde'[r][x] = h)
<1>1. /\ pte' \in [Procs -> [Entries -> Nat]] /\ pte'[q][i] = f
      /\ \A r \in Procs, j \in Pages : r # q \/ j # i => pte'[r][j] = pte[r][j]
      /\ \A r \in Procs : r # q => pte'[r] = pte[r]
  <2>1. pte \in [Procs -> [Entries -> Nat]] /\ pte' = [pte EXCEPT ![q][i] = f]
    BY DEF Map, MemoryTypes
  <2>2. i \in Entries /\ \A j \in Pages : j \in Entries
    BY Facts
  <2> QED
    BY <2>1, <2>2
<1>2. CASE pde[q][RegionOf[i]] # None
  <2>1. firstFree' = firstFree /\ avail' = avail /\ content' = content /\ pde' = pde
    BY <1>2 DEF Map, frameVars
  <2>2. FreeOk' /\ \A g : InUse(g) => InUse(g)' /\ content'[g] = content[g]
    BY <2>1 DEF FreeOk, Distinct, InUse, Among
  <2> QED
    BY <1>1, <1>2, <2>1, <2>2 DEF MemoryTypes
<1>3. CASE pde[q][RegionOf[i]] = None
  <2>1. h = Fresh
    BY <1>3
  <2>2. AllocFrame /\ pde' = [pde EXCEPT ![q][RegionOf[i]] = h]
    BY <1>3, <2>1 DEF Map
  <2>3. /\ FreeOk' /\ firstFree' \in Seq(Frames) /\ avail' \in Nat \ {0}
        /\ content' \in [Frames -> Nat] /\ h \in Frames /\ ~InUse(h) /\ InUse(h)'
        /\ \A g : InUse(g) => InUse(g)' /\ content'[g] = content[g]
    BY <2>1, <2>2, Allocates
  <2>4. RegionOf[i] \in Regions /\ h \in Nat
    BY <2>3, Facts
  <2>5. /\ pde' \in [Procs -> [Regions -> Nat]]
        /\ \A r \in Procs : r # q => pde'[r] = pde[r]
        /\ \A r \in Procs, x \in Regions :
             pde'[r][x] = pde[r][x] \/ (r = q /\ x = RegionOf[i] /\ pde'[r][x] = h)
    BY <2>2, <2>4 DEF MemoryTypes
  <2> QED
    BY <1>1, <2>3, <2>5
<1> QED
  BY <1>2, <1>3

\* The frame in the local pa of p gets a place in the page table of q.
LEMMA MapPlaces ==
  ASSUME MemoryInv, NEW p \in Procs, NEW q \in Procs, NEW i \in Pages,
         pc[p] \in {"faultMap", "forkMap"}, Map(q, i, pa[p]), pd' = pd, pc'[p] \notin Handing,
         \A r \in Procs : r # p => pc'[r] = pc[r] /\ pa'[r] = pa[r]
  PROVE  PlacesUsed' /\ PlacesApart'
<1>1. MemoryTypes /\ FreeOk /\ PlacesUsed /\ PlacesApart /\ SpaceOk(p)
  BY DEF MemoryInv
<1>2. PICK g \in Nat : g = pa[p]
  BY <1>1 DEF MemoryTypes
<1>3. g # None /\ "pa" \in Kinds /\ 0 \in Nat /\ Frame("pa", p, 0) = g
  BY <1>1, <1>2 DEF SpaceOk, Frame, Kinds, Handing
<1>4. Map(q, i, g)
  BY <1>2
<1>5. PICK h : h = IF pde[q][RegionOf[i]] = None THEN Fresh ELSE None
  OBVIOUS
<1>6. /\ pte'[q][i] = g
      /\ \A r \in Procs, j \in Pages : r # q \/ j # i => pte'[r][j] = pte[r][j]
      /\ \A f : InUse(f) => InUse(f)'
      /\ h = None \/ ~InUse(h)
      /\ h # None => InUse(h)'
      /\ \A r \in Procs, x \in Regions :
           pde'[r][x] = pde[r][x] \/ (r = q /\ x = RegionOf[i] /\ pde'[r][x] = h)
  BY <1>1, <1>4, <1>5, MapIs
<1>7. InUse(g)
  BY <1>1, <1>3 DEF PlacesUsed
<1>8. ASSUME NEW k \in Kinds, NEW r \in Procs, NEW x \in Nat
      PROVE  \/ Frame(k, r, x)' = None
             \/ Frame(k, r, x)' = Frame(k, r, x) /\ ~(k = "pa" /\ r = p /\ x = 0)
             \/ Frame(k, r, x)' = g /\ k = "pte" /\ r = q /\ x = i
             \/ Frame(k, r, x)' = h /\ k = "pde" /\ r = q /\ x = RegionOf[i]
  <2>1. CASE k = "pd"
    BY <2>1 DEF Frame
  <2>2. CASE k = "pde"
    BY <1>6, <2>2 DEF Frame
  <2>3. CASE k = "pte"
    BY <1>6, <2>3 DEF Frame
  <2>4. CASE k = "pa"
    BY <2>4 DEF Frame
  <2> QED
    BY <2>1, <2>2, <2>3, <2>4 DEF Kinds
<1>9. ASSUME NEW k \in Kinds, NEW r \in Procs, NEW x \in Nat, NEW f, f = Frame(k, r, x), f # None,
             ~(k = "pa" /\ r = p /\ x = 0)
      PROVE  InUse(f) /\ f # g /\ f # h
  BY <1>1, <1>3, <1>6, <1>9 DEF PlacesUsed, PlacesApart
<1>10. ASSUME NEW k \in Kinds, NEW r \in Procs, NEW x \in Nat
       PROVE  /\ Frame(k, r, x)' \in {None, Frame(k, r, x), g, h}
              /\ (Frame(k, r, x)' = g /\ g # None => k = "pte" /\ r = q /\ x = i)
              /\ (Frame(k, r, x)' = h /\ h # None => k = "pde" /\ r = q /\ x = RegionOf[i])
              /\ (Frame(k, r, x)' # None => InUse(Frame(k, r, x))')
  <2>1. PICK f : f = Frame(k, r, x)'
    OBVIOUS
  <2>2. CASE f = None
    BY <1>3, <2>1, <2>2
  <2>3. CASE f = Frame(k, r, x) /\ ~(k = "pa" /\ r = p /\ x = 0) /\ f # None
    <3>1. InUse(f) /\ f # g /\ f # h
      BY <1>9, <2>3
    <3>2. InUse(f)'
      BY <1>6, <3>1
    <3>3. InUse(Frame(k, r, x))'
      BY <2>1, <3>2 DEF InUse
    <3> QED
      BY <2>1, <2>3, <3>1, <3>3
  <2>4. CASE f = g /\ k = "pte" /\ r = q /\ x = i
    <3>1. InUse(f)' /\ g # h
      BY <1>3, <1>6, <1>7, <2>4
    <3>2. InUse(Frame(k, r, x))'
      BY <2>1, <3>1 DEF InUse
    <3> QED
      BY <2>1, <2>4, <3>1, <3>2
  <2>5. CASE f = h /\ k = "pde" /\ r = q /\ x = RegionOf[i] /\ f # None
    <3>1. InUse(f)' /\ g # h
      BY <1>6, <1>7, <2>5
    <3>2. InUse(Frame(k, r, x))'
      BY <2>1, <3>1 DEF InUse
    <3> QED
      BY <2>1, <2>5, <3>1, <3>2
  <2> QED
    BY <1>8, <2>1, <2>2, <2>3, <2>4, <2>5
<1>11. \A k \in Kinds, r \in Procs, x \in Nat :
         /\ Frame(k, r, x)' \in {None, Frame(k, r, x), g, h}
         /\ (Frame(k, r, x)' = g /\ g # None => k = "pte" /\ r = q /\ x = i)
         /\ (Frame(k, r, x)' = h /\ h # None => k = "pde" /\ r = q /\ x = RegionOf[i])
         /\ (Frame(k, r, x)' # None => InUse(Frame(k, r, x))')
  BY <1>10
<1> QED
  BY ONLY <1>1, <1>11 DEF PlacesUsed, PlacesApart

\* A frame that alloc_frame() has just given out is put in one place.
LEMMA AllocPlaces ==
  ASSUME MemoryInv, AllocFrame, NEW g, g = Fresh, NEW l, NEW q, NEW y,
         \A k \in Kinds, p \in Procs, x \in Nat :
           \/ Frame(k, p, x)' \in {None, Frame(k, p, x)}
           \/ k = l /\ p = q /\ x = y /\ Frame(k, p, x)' = g
  PROVE  PlacesUsed' /\ PlacesApart'
<1>1. MemoryTypes /\ FreeOk /\ PlacesUsed /\ PlacesApart
  BY DEF MemoryInv
<1>2. ~InUse(g) /\ InUse(g)' /\ \A f : InUse(f) => InUse(f)'
  BY <1>1, Allocates
<1>3. ASSUME NEW k \in Kinds, NEW p \in Procs, NEW x \in Nat, Frame(k, p, x)' # None
      PROVE  /\ InUse(Frame(k, p, x))'
             /\ \/ Frame(k, p, x)' = Frame(k, p, x) /\ Frame(k, p, x)' # g
                \/ k = l /\ p = q /\ x = y /\ Frame(k, p, x)' = g
  <2>1. PICK f : f = Frame(k, p, x)'
    OBVIOUS
  <2>2. CASE f = Frame(k, p, x)
    <3>1. InUse(f) /\ f # g /\ InUse(f)'
      BY <1>1, <1>2, <1>3, <2>1, <2>2 DEF PlacesUsed
    <3>2. InUse(Frame(k, p, x))'
      BY <2>1, <3>1 DEF InUse
    <3> QED
      BY <2>1, <2>2, <3>1, <3>2
  <2>3. CASE k = l /\ p = q /\ x = y /\ f = g
    <3>1. InUse(Frame(k, p, x))'
      BY <1>2, <2>1, <2>3 DEF InUse
    <3> QED
      BY <2>1, <2>3, <3>1
  <2> QED
    BY <1>3, <2>1, <2>2, <2>3
<1>4. \A k \in Kinds, p \in Procs, x \in Nat : Frame(k, p, x)' # None =>
        /\ InUse(Frame(k, p, x))'
        /\ \/ Frame(k, p, x)' = Frame(k, p, x) /\ Frame(k, p, x)' # g
           \/ k = l /\ p = q /\ x = y /\ Frame(k, p, x)' = g
  BY <1>3
<1> QED
  BY ONLY <1>1, <1>4 DEF PlacesUsed, PlacesApart

\* What a process has in its pages stays when the frames in use do.
LEMMA ValuesStay ==
  ASSUME MemoryInv, NEW q \in Procs, NEW i \in Pages, pte'[q][i] = pte[q][i],
         \A f : InUse(f) => content'[f] = content[f]
  PROVE  Value(q, i)' = Value(q, i)
<1>1. Frame("pte", q, i) = pte[q][i] /\ "pte" \in Kinds /\ i \in Nat
  BY Facts DEF Frame, Kinds
<1>2. pte[q][i] # None => InUse(pte[q][i])
  BY <1>1 DEF MemoryInv, PlacesUsed
<1> QED
  BY <1>2 DEF Value

\* The handler allocates a frame.
LEMMA FaultAllocKeeps ==
  ASSUME MemoryInv, NEW p \in Procs, FaultAlloc(p)
  PROVE  MemoryInv'
<1>1. PICK c \in Cores : c = CoreOf(p)
  BY RunningOn DEF FaultAlloc, At
<1>2. /\ on[c] = p /\ CoreOk(c) /\ SpaceOk(p) /\ FaultOk(p) /\ ForkOk(p) /\ MemoryTypes
      /\ pc[p] = "faultAlloc" /\ AllocFrame /\ FreeOk
  BY <1>1, ActorIs DEF FaultAlloc, At, MemoryInv
<1>3. PICK g : g = Fresh
  OBVIOUS
<1>4. /\ pc' = [pc EXCEPT ![p] = "faultMap"] /\ pa' = [pa EXCEPT ![p] = g]
      /\ pd' = pd /\ pde' = pde /\ pte' = pte /\ cr2' = cr2 /\ wanted' = wanted /\ page' = page
      /\ on' = on /\ tlb' = tlb /\ savedCr2' = savedCr2
      /\ child' = child /\ panicked' = panicked /\ mem' = mem
  BY <1>1, <1>3 DEF FaultAlloc, At, tableVars, coreVars
<1>5. /\ FreeOk' /\ firstFree' \in Seq(Frames) /\ avail' \in Nat \ {0} /\ content' \in [Frames -> Nat]
      /\ g \in Frames /\ content'[g] = 0 /\ (\A f : InUse(f) => content'[f] = content[f])
  BY <1>2, <1>3, Allocates
<1>6. /\ \A q \in Procs : q # p => pc'[q] = pc[q] /\ pa'[q] = pa[q]
      /\ pc'[p] = "faultMap" /\ pa'[p] = g
  BY <1>2, <1>4 DEF MemoryTypes
<1>7. MemoryTypes'
  <2>1. g \in Nat /\ g # None /\ "faultMap" \in Labels
    BY <1>5, Facts DEF Labels
  <2> QED
    BY <1>2, <1>4, <1>5, <2>1 DEF MemoryTypes
<1>8. PlacesUsed' /\ PlacesApart'
  <2>1. \A k \in Kinds, q \in Procs, x \in Nat :
          \/ Frame(k, q, x)' \in {None, Frame(k, q, x)}
          \/ k = "pa" /\ q = p /\ x = 0 /\ Frame(k, q, x)' = g
    BY <1>4, <1>6 DEF Frame, Kinds
  <2> QED
    BY <1>2, <1>3, <2>1, AllocPlaces
<1>9. ASSUME NEW q \in Procs, q # p PROVE Undisturbed(q)
  BY <1>4, <1>5, <1>6, <1>9, UndisturbedIf
<1>10. CoreOk(c)'
  BY <1>2, <1>4, <1>6 DEF CoreOk
<1>11. SpaceOk(p)'
  <2>1. \A j \in Pages : Value(p, j)' = Value(p, j)
    BY <1>4, <1>5, ValuesStay
  <2> QED
    BY <1>2, <1>4, <1>5, <1>6, <2>1, Facts DEF SpaceOk, Live, Labels
<1>12. FaultOk(p)'
  BY <1>2, <1>4, <1>5, <1>6 DEF FaultOk
<1>13. ForkOk(p)' /\ pc'[p] \notin Forking
  BY <1>6 DEF ForkOk, Forking, Looping
<1> QED
  BY ONLY MemoryInv, p \in Procs, c \in Cores, <1>2, <1>4, <1>5, <1>7, <1>8, <1>9, <1>10, <1>11,
          <1>12, <1>13, StepKeeps

\* The handler maps the frame, which is zero.
LEMMA FaultMapKeeps ==
  ASSUME MemoryInv, NEW p \in Procs, FaultMap(p)
  PROVE  MemoryInv'
<1>1. PICK c \in Cores : c = CoreOf(p)
  BY RunningOn DEF FaultMap, At
<1>2. /\ on[c] = p /\ CoreOk(c) /\ SpaceOk(p) /\ FaultOk(p) /\ ForkOk(p) /\ MemoryTypes
      /\ pc[p] = "faultMap" /\ FreeOk
  BY <1>1, ActorIs DEF FaultMap, At, MemoryInv
<1>3. PICK i \in Pages : i = page[p]
  BY <1>2 DEF FaultOk
<1>4. PICK g \in Nat : g = pa[p]
  BY <1>2 DEF MemoryTypes
<1>5. g # None /\ content[g] = 0 /\ pte[p][i] = None
  BY <1>2, <1>3, <1>4 DEF SpaceOk, FaultOk
<1>6. /\ pc' = [pc EXCEPT ![p] = "user"] /\ pa' = [pa EXCEPT ![p] = None]
      /\ page' = [page EXCEPT ![p] = None] /\ wanted' = [wanted EXCEPT ![p] = None]
      /\ pd' = pd /\ cr2' = cr2 /\ on' = on /\ tlb' = tlb /\ savedCr2' = savedCr2
      /\ child' = child /\ panicked' = panicked /\ mem' = mem /\ Map(p, i, g)
  BY <1>1, <1>3, <1>4 DEF FaultMap, At, coreVars
<1>7. PICK h : h = IF pde[p][RegionOf[i]] = None THEN Fresh ELSE None
  OBVIOUS
<1>8. /\ FreeOk' /\ firstFree' \in Seq(Frames) /\ avail' \in Nat \ {0}
      /\ content' \in [Frames -> Nat] /\ pde' \in [Procs -> [Regions -> Nat]]
      /\ pte' \in [Procs -> [Entries -> Nat]]
      /\ pte'[p][i] = g
      /\ \A r \in Procs, j \in Pages : r # p \/ j # i => pte'[r][j] = pte[r][j]
      /\ \A r \in Procs : r # p => pte'[r] = pte[r] /\ pde'[r] = pde[r]
      /\ \A f : InUse(f) => content'[f] = content[f]
  BY <1>2, <1>6, <1>7, MapIs
<1>9. /\ \A q \in Procs : q # p => /\ pc'[q] = pc[q] /\ pa'[q] = pa[q] /\ page'[q] = page[q]
                                   /\ wanted'[q] = wanted[q]
      /\ pc'[p] = "user"
  BY <1>2, <1>6 DEF MemoryTypes
<1>10. MemoryTypes'
  <2>1. None \in Nat /\ "user" \in Labels
    BY Facts DEF Labels
  <2> QED
    BY <1>2, <1>6, <1>8, <2>1 DEF MemoryTypes
<1>11. PlacesUsed' /\ PlacesApart'
  <2>1. Map(p, i, pa[p]) /\ pc'[p] \notin Handing /\ pc[p] \in {"faultMap", "forkMap"}
    BY <1>2, <1>4, <1>6, <1>9 DEF Handing
  <2> QED
    BY <1>6, <1>9, <2>1, MapPlaces
<1>12. ASSUME NEW q \in Procs, q # p PROVE Undisturbed(q)
  BY <1>6, <1>8, <1>9, <1>12, UndisturbedIf
<1>13. CoreOk(c)'
  <2>1. \A j \in Pages : tlb[c][j] # None => j # i
    BY <1>2, <1>5 DEF CoreOk
  <2>2. \A j \in Pages : tlb'[c][j] # None => tlb'[c][j] = pte'[p][j]
    BY <1>2, <1>6, <1>8, <2>1 DEF CoreOk
  <2> QED
    BY <1>2, <1>6, <1>9, <2>2 DEF CoreOk
<1>14. SpaceOk(p)'
  <2>1. \A j \in Pages : j # i => Value(p, j)' = Value(p, j)
    BY <1>8, ValuesStay
  <2>2. InUse(g)
    <3>1. "pa" \in Kinds /\ Frame("pa", p, 0) = g
      BY <1>2, <1>4 DEF Frame, Kinds, Handing
    <3> QED
      BY <1>5, <3>1 DEF MemoryInv, PlacesUsed
  <2>3. Value(p, i)' = 0 /\ Value(p, i) = 0
    BY <1>5, <1>8, <2>2 DEF Value
  <2>4. \A j \in Pages : Value(p, j)' = Value(p, j)
    BY <2>1, <2>3
  <2> QED
    BY <1>2, <1>6, <1>9, <2>4 DEF SpaceOk, Live, Labels
<1>15. FaultOk(p)' /\ ForkOk(p)' /\ pc'[p] \notin Forking
  BY <1>9 DEF FaultOk, ForkOk, Forking, Looping
<1> QED
  BY ONLY MemoryInv, p \in Procs, c \in Cores, <1>2, <1>6, <1>8, <1>10, <1>11, <1>12, <1>13, <1>14,
          <1>15, StepKeeps

\* unmap() clears the entry of the page table; the frame is in the local pa.
LEMMA ClearKeeps ==
  ASSUME MemoryInv, NEW p \in Procs, NEW i \in Pages, ExeclClear(p, i)
  PROVE  MemoryInv'
<1>1. PICK c \in Cores : c = CoreOf(p)
  BY RunningOn DEF ExeclClear, At
<1>2. /\ on[c] = p /\ CoreOk(c) /\ SpaceOk(p) /\ FaultOk(p) /\ ForkOk(p) /\ MemoryTypes
      /\ pc[p] = "execNext" /\ PlacesUsed /\ PlacesApart
  BY <1>1, ActorIs DEF ExeclClear, At, MemoryInv
<1>3. PICK g \in Nat : g = pte[p][i]
  BY <1>2, Facts DEF MemoryTypes
<1>4. g # None
  BY <1>3 DEF ExeclClear, IsNext, Remaining
<1>5. /\ pc' = [pc EXCEPT ![p] = "execFree"] /\ pa' = [pa EXCEPT ![p] = g]
      /\ page' = [page EXCEPT ![p] = i] /\ pte' = [pte EXCEPT ![p][i] = None]
      /\ mem' = [mem EXCEPT ![p][i] = 0]
      /\ firstFree' = firstFree /\ avail' = avail /\ content' = content
      /\ pd' = pd /\ pde' = pde /\ cr2' = cr2 /\ on' = on /\ tlb' = tlb /\ savedCr2' = savedCr2
      /\ child' = child /\ panicked' = panicked /\ wanted' = wanted
  BY <1>1, <1>3 DEF ExeclClear, At, frameVars, coreVars
<1>6. /\ \A q \in Procs : q # p => /\ pc'[q] = pc[q] /\ pa'[q] = pa[q] /\ page'[q] = page[q]
                                   /\ pte'[q] = pte[q] /\ mem'[q] = mem[q]
      /\ pc'[p] = "execFree" /\ pa'[p] = g /\ page'[p] = i
      /\ pte'[p][i] = None /\ mem'[p][i] = 0
      /\ \A j \in Pages : j # i => pte'[p][j] = pte[p][j] /\ mem'[p][j] = mem[p][j]
  BY <1>2, <1>5, Facts DEF MemoryTypes
<1>7. MemoryTypes'
  <2>1. i \in Nat /\ None \in Nat /\ 0 \in Nat /\ "execFree" \in Labels
    BY Facts DEF Labels
  <2> QED
    BY <1>2, <1>5, <2>1 DEF MemoryTypes
<1>8. FreeOk' /\ \A f : InUse(f)' <=> InUse(f)
  BY <1>5 DEF MemoryInv, FreeOk, Distinct, InUse, Among
<1>9. "pte" \in Kinds /\ i \in Nat /\ Frame("pte", p, i) = g /\ InUse(g)
  <2>1. "pte" \in Kinds /\ i \in Nat /\ Frame("pte", p, i) = g
    BY <1>3, Facts DEF Frame, Kinds
  <2> QED
    BY <1>2, <1>4, <2>1 DEF PlacesUsed
<1>10. PlacesUsed' /\ PlacesApart'
  <2>1. ASSUME NEW k \in Kinds, NEW r \in Procs, NEW x \in Nat, Frame(k, r, x)' # None
        PROVE  /\ InUse(Frame(k, r, x))'
               /\ \/ Frame(k, r, x)' = Frame(k, r, x) /\ Frame(k, r, x)' # g
                  \/ k = "pa" /\ r = p /\ x = 0 /\ Frame(k, r, x)' = g
    <3>1. PICK f : f = Frame(k, r, x)'
      OBVIOUS
    <3>2. \/ f = Frame(k, r, x) /\ ~(k = "pte" /\ r = p /\ x = i)
          \/ k = "pa" /\ r = p /\ x = 0 /\ f = g
      BY <1>5, <1>6, <2>1, <3>1 DEF Frame, Kinds
    <3>3. CASE f = Frame(k, r, x) /\ ~(k = "pte" /\ r = p /\ x = i)
      <4>1. f # g /\ InUse(f)
        BY <1>2, <1>9, <2>1, <3>1, <3>3 DEF PlacesApart, PlacesUsed
      <4>2. InUse(f)'
        BY <1>8, <4>1
      <4>3. InUse(Frame(k, r, x))'
        BY <3>1, <4>2 DEF InUse
      <4> QED
        BY <3>1, <3>3, <4>1, <4>3
    <3>4. CASE k = "pa" /\ r = p /\ x = 0 /\ f = g
      <4>1. InUse(f)'
        BY <1>8, <1>9, <3>4
      <4>2. InUse(Frame(k, r, x))'
        BY <3>1, <4>1 DEF InUse
      <4> QED
        BY <3>1, <3>4, <4>2
    <3> QED
      BY <3>2, <3>3, <3>4
  <2>2. \A k \in Kinds, r \in Procs, x \in Nat : Frame(k, r, x)' # None =>
          /\ InUse(Frame(k, r, x))'
          /\ \/ Frame(k, r, x)' = Frame(k, r, x) /\ Frame(k, r, x)' # g
             \/ k = "pa" /\ r = p /\ x = 0 /\ Frame(k, r, x)' = g
    BY <2>1
  <2> QED
    BY ONLY <1>2, <2>2 DEF PlacesUsed, PlacesApart
<1>11. ASSUME NEW q \in Procs, q # p PROVE Undisturbed(q)
  BY <1>5, <1>6, <1>11 DEF Undisturbed
<1>12. CoreOk(c)'
  BY <1>2, <1>5, <1>6 DEF CoreOk
<1>13. SpaceOk(p)'
  <2>1. \A j \in Pages : mem'[p][j] = Value(p, j)'
    BY <1>2, <1>5, <1>6 DEF SpaceOk, Live, Labels, Value
  <2> QED
    BY <1>2, <1>4, <1>5, <1>6, <2>1 DEF SpaceOk
<1>14. FaultOk(p)' /\ ForkOk(p)' /\ pc'[p] \notin Forking
  BY <1>6 DEF FaultOk, ForkOk, Forking, Looping
<1> QED
  BY ONLY MemoryInv, p \in Procs, c \in Cores, <1>2, <1>5, <1>7, <1>8, <1>10, <1>11, <1>12, <1>13,
          <1>14, StepKeeps

\* unmap() frees the frame.
LEMMA FreeKeeps ==
  ASSUME MemoryInv, NEW p \in Procs, ExeclFree(p)
  PROVE  MemoryInv'
<1>1. PICK c \in Cores : c = CoreOf(p)
  BY RunningOn DEF ExeclFree, At
<1>2. /\ on[c] = p /\ CoreOk(c) /\ SpaceOk(p) /\ FaultOk(p) /\ ForkOk(p) /\ MemoryTypes
      /\ pc[p] = "execFree" /\ PlacesUsed /\ PlacesApart /\ FreeOk
  BY <1>1, ActorIs DEF ExeclFree, At, MemoryInv
<1>3. PICK g \in Nat : g = pa[p]
  BY <1>2 DEF MemoryTypes
<1>4. g # None /\ "pa" \in Kinds /\ 0 \in Nat /\ Frame("pa", p, 0) = g
  BY <1>2, <1>3 DEF SpaceOk, Frame, Kinds, Handing
<1>5. InUse(g)
  BY <1>2, <1>4 DEF PlacesUsed
<1>6. /\ pc' = [pc EXCEPT ![p] = "execFlush"] /\ pa' = [pa EXCEPT ![p] = None]
      /\ DeallocFrames(<<g>>) /\ avail' = avail
      /\ pd' = pd /\ pde' = pde /\ pte' = pte
      /\ cr2' = cr2 /\ on' = on /\ tlb' = tlb /\ savedCr2' = savedCr2
      /\ page' = page /\ child' = child /\ panicked' = panicked /\ wanted' = wanted /\ mem' = mem
  BY <1>1, <1>3 DEF ExeclFree, At, tableVars, coreVars
<1>7. PICK s : s = <<g>>
  OBVIOUS
<1>8. /\ s \in Seq(Frames) /\ Distinct(s) /\ (\A k \in DOMAIN s : InUse(s[k]))
      /\ \A f : Among(s, f) <=> f = g
  BY <1>5, <1>7 DEF Distinct, Among, InUse
<1>9. /\ FreeOk' /\ firstFree' \in Seq(Frames) /\ content' \in [Frames -> Nat]
      /\ \A f : InUse(f) /\ ~Among(s, f) => InUse(f)' /\ content'[f] = content[f]
  <2>1. DeallocFrames(s)
    BY <1>6, <1>7
  <2> QED
    BY <1>2, <1>6, <1>8, <2>1, Deallocates
<1>10. /\ \A q \in Procs : q # p => pc'[q] = pc[q] /\ pa'[q] = pa[q]
       /\ pc'[p] = "execFlush"
  BY <1>2, <1>6 DEF MemoryTypes
<1>11. MemoryTypes'
  <2>1. None \in Nat /\ "execFlush" \in Labels
    BY Facts DEF Labels
  <2> QED
    BY <1>2, <1>6, <1>9, <2>1 DEF MemoryTypes
<1>12. PlacesUsed' /\ PlacesApart'
  <2>1. ASSUME NEW k \in Kinds, NEW r \in Procs, NEW x \in Nat, Frame(k, r, x)' # None
        PROVE  InUse(Frame(k, r, x))' /\ Frame(k, r, x)' = Frame(k, r, x)
    <3>1. PICK f : f = Frame(k, r, x)'
      OBVIOUS
    <3>2. f = Frame(k, r, x) /\ ~(k = "pa" /\ r = p)
      BY <1>6, <1>10, <2>1, <3>1 DEF Frame, Kinds, Handing
    <3>3. f # g /\ InUse(f)
      BY <1>2, <1>4, <2>1, <3>1, <3>2 DEF PlacesApart, PlacesUsed
    <3>4. InUse(f)'
      BY <1>8, <1>9, <3>3
    <3>5. InUse(Frame(k, r, x))'
      BY <3>1, <3>4 DEF InUse
    <3> QED
      BY <3>1, <3>2, <3>5
  <2>2. \A k \in Kinds, r \in Procs, x \in Nat : Frame(k, r, x)' # None =>
          InUse(Frame(k, r, x))' /\ Frame(k, r, x)' = Frame(k, r, x)
    BY <2>1
  <2> QED
    BY ONLY <1>2, <2>2 DEF PlacesUsed, PlacesApart
<1>13. ASSUME NEW q \in Procs, q # p PROVE Undisturbed(q)
  <2>1. \A f : InUse(f) => content'[f] = content[f] \/ \E k \in Kinds, x \in Nat : Frame(k, p, x) = f
    BY <1>4, <1>8, <1>9
  <2> QED
    BY <1>6, <1>10, <1>13, <2>1, UndisturbedIf
<1>14. CoreOk(c)'
  BY <1>2, <1>6, <1>10 DEF CoreOk
<1>15. SpaceOk(p)'
  <2>1. ASSUME NEW j \in Pages PROVE Value(p, j)' = Value(p, j)
    <3>1. Frame("pte", p, j) = pte[p][j] /\ "pte" \in Kinds /\ j \in Nat
      BY Facts DEF Frame, Kinds
    <3>2. pte[p][j] # None => InUse(pte[p][j]) /\ pte[p][j] # g
      BY <1>2, <1>4, <3>1 DEF PlacesUsed, PlacesApart
    <3> QED
      BY <1>6, <1>8, <1>9, <3>2 DEF Value
  <2> QED
    BY <1>2, <1>6, <1>10, <2>1 DEF SpaceOk, Live, Labels
<1>16. FaultOk(p)' /\ ForkOk(p)' /\ pc'[p] \notin Forking
  BY <1>2, <1>6, <1>10 DEF FaultOk, ForkOk, Forking, Looping
<1> QED
  BY ONLY MemoryInv, p \in Procs, c \in Cores, <1>2, <1>6, <1>9, <1>11, <1>12, <1>13, <1>14, <1>15,
          <1>16, StepKeeps

\* What is known of a process that forks, and of the process it makes.
LEMMA ParentIs ==
  ASSUME MemoryInv, NEW p \in Procs, Running(p), pc[p] \in Forking
  PROVE  /\ child[p] \in Procs /\ child[p] # p /\ pc[child[p]] = "embryo" /\ pd[child[p]] # None
         /\ FreeOk /\ PlacesUsed /\ PlacesApart
<1>1. SpaceOk(child[p]) /\ child[p] \in Procs /\ pc[child[p]] = "embryo"
  BY DEF MemoryInv, ForkOk
<1> QED
  BY <1>1 DEF SpaceOk, Forking, MemoryInv

\* A process that is being made, and has a directory, satisfies its part of the invariant.
LEMMA EmbryoOk ==
  ASSUME NEW e \in Procs, pc'[e] = "embryo", pd'[e] # None
  PROVE  SpaceOk(e)' /\ FaultOk(e)' /\ ForkOk(e)'
  BY DEF SpaceOk, FaultOk, ForkOk, Forking, Looping, Live

\* fork makes a process with a directory.
LEMMA ForkKeeps ==
  ASSUME MemoryInv, NEW p \in Procs, NEW e \in Procs, Fork(p, e)
  PROVE  MemoryInv'
<1>1. PICK c \in Cores : c = CoreOf(p)
  BY RunningOn DEF Fork
<1>2. /\ on[c] = p /\ CoreOk(c) /\ SpaceOk(p) /\ FaultOk(p) /\ ForkOk(p) /\ MemoryTypes
      /\ pc[p] = "user" /\ pc[e] = "none" /\ AllocFrame /\ FreeOk /\ SpaceOk(e)
  BY <1>1, ActorIs DEF Fork, MemoryInv
<1>3. PICK g : g = Fresh
  OBVIOUS
<1>4. /\ pc' = [pc EXCEPT ![p] = "forkApic", ![e] = "embryo"] /\ child' = [child EXCEPT ![p] = e]
      /\ pd' = [pd EXCEPT ![e] = g] /\ pde' = pde /\ pte' = pte /\ e # p
      /\ on' = on /\ tlb' = tlb /\ cr2' = cr2 /\ savedCr2' = savedCr2
      /\ page' = page /\ pa' = pa /\ panicked' = panicked /\ wanted' = wanted /\ mem' = mem
  BY <1>2, <1>3 DEF Fork, coreVars
<1>5. /\ FreeOk' /\ firstFree' \in Seq(Frames) /\ avail' \in Nat \ {0} /\ content' \in [Frames -> Nat]
      /\ g \in Frames /\ (\A f : InUse(f) => content'[f] = content[f])
  BY <1>2, <1>3, Allocates
<1>6. /\ \A q \in Procs : q # p => child'[q] = child[q]
      /\ \A q \in Procs : q # e => pd'[q] = pd[q]
      /\ \A q \in Procs : q # p /\ q # e => pc'[q] = pc[q]
      /\ pc'[p] = "forkApic" /\ pc'[e] = "embryo" /\ child'[p] = e /\ pd'[e] = g
  BY <1>2, <1>4 DEF MemoryTypes
<1>7. g \in Nat /\ g # None /\ "forkApic" \in Labels /\ "embryo" \in Labels
  BY <1>5, Facts DEF Labels
<1>8. MemoryTypes'
  BY <1>2, <1>4, <1>5, <1>7 DEF MemoryTypes
<1>9. PlacesUsed' /\ PlacesApart'
  <2>1. pc'[p] \notin Handing /\ pc'[e] \notin Handing
    BY <1>6 DEF Handing
  <2>2. \A k \in Kinds, q \in Procs, x \in Nat :
          \/ Frame(k, q, x)' \in {None, Frame(k, q, x)}
          \/ k = "pd" /\ q = e /\ x = 0 /\ Frame(k, q, x)' = g
    <3> SUFFICES ASSUME NEW k \in Kinds, NEW q \in Procs, NEW x \in Nat
                 PROVE  \/ Frame(k, q, x)' \in {None, Frame(k, q, x)}
                        \/ k = "pd" /\ q = e /\ x = 0 /\ Frame(k, q, x)' = g
      OBVIOUS
    <3>1. CASE k = "pd"
      BY <1>6, <3>1 DEF Frame
    <3>2. CASE k = "pde" \/ k = "pte"
      BY <1>4, <3>2 DEF Frame
    <3>3. CASE k = "pa"
      BY <1>4, <1>6, <2>1, <3>3 DEF Frame
    <3> QED
      BY <3>1, <3>2, <3>3 DEF Kinds
  <2> QED
    BY <1>2, <1>3, <2>2, AllocPlaces
<1>10. ASSUME NEW q \in Procs, q # p, q # e PROVE Undisturbed(q)
  BY <1>4, <1>5, <1>6, <1>10, UndisturbedIf
<1>11. CoreOk(c)'
  BY <1>2, <1>4, <1>6 DEF CoreOk
<1>12. SpaceOk(p)'
  <2>1. \A j \in Pages : Value(p, j)' = Value(p, j)
    BY <1>4, <1>5, ValuesStay
  <2> QED
    BY <1>2, <1>4, <1>6, <2>1 DEF SpaceOk, Live, Labels
<1>13. FaultOk(p)'
  BY <1>6 DEF FaultOk
<1>14. ForkOk(p)'
  <2>1. \A i \in Pages : pte'[e][i] = None
    <3> SUFFICES ASSUME NEW i \in Pages PROVE pte[e][i] = None
      BY <1>4
    <3>1. Frame("pte", e, i) = pte[e][i] /\ "pte" \in Kinds /\ i \in Nat
      BY Facts DEF Frame, Kinds
    <3> QED
      BY <1>2, <3>1 DEF SpaceOk
  <2> QED
    BY <1>6, <2>1 DEF ForkOk, Looping
<1>15. SpaceOk(e)' /\ FaultOk(e)' /\ ForkOk(e)'
  BY <1>6, <1>7, EmbryoOk
<1>16. pc'[e] \in {"embryo", "user"} /\ e # p
  BY <1>4, <1>6
<1> QED
  BY ONLY MemoryInv, p \in Procs, e \in Procs, c \in Cores, <1>2, <1>4, <1>5, <1>6, <1>8, <1>9, <1>10,
          <1>11, <1>12, <1>13, <1>14, <1>15, <1>16, StepKeeps

\* make_pd() gives the new directory the page table of the APICs.
LEMMA ForkApicKeeps ==
  ASSUME MemoryInv, NEW p \in Procs, ForkApic(p)
  PROVE  MemoryInv'
<1>1. PICK c \in Cores : c = CoreOf(p)
  BY RunningOn DEF ForkApic, At
<1>2. /\ on[c] = p /\ CoreOk(c) /\ SpaceOk(p) /\ FaultOk(p) /\ ForkOk(p) /\ MemoryTypes
      /\ pc[p] = "forkApic" /\ pc[p] \in Forking /\ AllocFrame /\ FreeOk /\ Running(p)
  BY <1>1, ActorIs DEF ForkApic, At, MemoryInv, Forking
<1>3. PICK g : g = Fresh
  OBVIOUS
<1>4. PICK e \in Procs : e = child[p]
  BY <1>2 DEF ForkOk
<1>5. e # p /\ pc[e] = "embryo" /\ pd[e] # None
  BY <1>2, <1>4, ParentIs
<1>6. /\ pc' = [pc EXCEPT ![p] = "forkNext"] /\ pde' = [pde EXCEPT ![e][Apic] = g]
      /\ page' = [page EXCEPT ![p] = 1]
      /\ pte' = [pte EXCEPT ![e] = OnlyApic] /\ pd' = pd /\ child' = child
      /\ on' = on /\ tlb' = tlb /\ cr2' = cr2 /\ savedCr2' = savedCr2
      /\ pa' = pa /\ panicked' = panicked /\ wanted' = wanted /\ mem' = mem
  BY <1>3, <1>4 DEF ForkApic, At, coreVars
<1>7. /\ FreeOk' /\ firstFree' \in Seq(Frames) /\ avail' \in Nat \ {0} /\ content' \in [Frames -> Nat]
      /\ g \in Frames /\ (\A f : InUse(f) => content'[f] = content[f])
  BY <1>2, <1>3, Allocates
<1>8. g \in Nat /\ g # None /\ "forkNext" \in Labels /\ 1 \in Nat /\ Apic \in Regions /\ 0 \in Nat
  BY <1>7, Facts DEF Labels
<1>9. /\ \A q \in Procs : q # p => pc'[q] = pc[q] /\ page'[q] = page[q]
      /\ \A q \in Procs : q # e => pde'[q] = pde[q]
      /\ \A x \in Regions : x # Apic => pde'[e][x] = pde[e][x]
      /\ \A q \in Procs : q # e => pte'[q] = pte[q]
      /\ \A i \in Pages : pte'[e][i] = pte[e][i]
      /\ pc'[p] = "forkNext" /\ page'[p] = 1 /\ pde'[e][Apic] = g
  <2>1. \A i \in Pages : pte[e][i] = None /\ OnlyApic[i] = None
    BY <1>2, <1>4, Facts DEF ForkOk, OnlyApic
  <2> QED
    BY <1>2, <1>6, <1>8, <2>1 DEF MemoryTypes
<1>10. MemoryTypes'
  <2>1. OnlyApic \in [Entries -> Nat]
    BY Facts DEF OnlyApic
  <2> QED
    BY <1>2, <1>6, <1>7, <1>8, <2>1 DEF MemoryTypes
<1>11. PlacesUsed' /\ PlacesApart'
  <2>1. \A k \in Kinds, q \in Procs, x \in Nat :
          \/ Frame(k, q, x)' \in {None, Frame(k, q, x)}
          \/ k = "pde" /\ q = e /\ x = Apic /\ Frame(k, q, x)' = g
    BY <1>6, <1>9 DEF Frame, Kinds, Handing
  <2> QED
    BY <1>2, <1>3, <2>1, AllocPlaces
<1>12. ASSUME NEW q \in Procs, q # p, q # e PROVE Undisturbed(q)
  BY <1>6, <1>7, <1>9, <1>12, UndisturbedIf
<1>13. CoreOk(c)'
  BY <1>2, <1>6, <1>9 DEF CoreOk
<1>14. SpaceOk(p)'
  <2>1. \A j \in Pages : Value(p, j)' = Value(p, j)
    <3>1. pte'[p] = pte[p]
      BY <1>5, <1>9
    <3> QED
      BY <1>7, <3>1, ValuesStay
  <2> QED
    BY <1>2, <1>6, <1>9, <2>1 DEF SpaceOk, Live, Labels
<1>15. FaultOk(p)'
  BY <1>9 DEF FaultOk
<1>16. ForkOk(p)'
  <2>1. child'[p] = e /\ pc'[e] = "embryo" /\ \A i \in Pages : pte'[e][i] = None
    BY <1>2, <1>4, <1>5, <1>6, <1>9 DEF ForkOk
  <2>2. \A i \in Pages : ~(i < page'[p])
    BY <1>9, VirtualMemoryAssumption DEF Pages
  <2> QED
    BY <1>9, <2>1, <2>2 DEF ForkOk
<1>17. /\ SpaceOk(e)' /\ FaultOk(e)' /\ ForkOk(e)'
       /\ pc'[e] \in {"embryo", "user"} /\ child'[p] = e
  BY <1>4, <1>5, <1>6, <1>9, EmbryoOk
<1> QED
  BY ONLY MemoryInv, p \in Procs, e \in Procs, c \in Cores, <1>2, <1>4, <1>5, <1>6, <1>7, <1>10, <1>11,
          <1>12, <1>13, <1>14, <1>15, <1>16, <1>17, StepKeeps

\* The loop of fork allocates a frame for the copy of the next mapped page.
LEMMA ForkAllocKeeps ==
  ASSUME MemoryInv, NEW p \in Procs, NEW i \in Pages, ForkAlloc(p, i)
  PROVE  MemoryInv'
<1>1. PICK c \in Cores : c = CoreOf(p)
  BY RunningOn DEF ForkAlloc, At
<1>2. /\ on[c] = p /\ CoreOk(c) /\ SpaceOk(p) /\ FaultOk(p) /\ ForkOk(p) /\ MemoryTypes
      /\ pc[p] = "forkNext" /\ pc[p] \in Forking /\ AllocFrame /\ FreeOk /\ Running(p)
  BY <1>1, ActorIs DEF ForkAlloc, At, MemoryInv, Forking
<1>3. PICK g : g = Fresh
  OBVIOUS
<1>4. PICK e \in Procs : e = child[p]
  BY <1>2 DEF ForkOk
<1>5. e # p /\ pc[e] = "embryo" /\ pd[e] # None
  BY <1>2, <1>4, ParentIs
<1>6. /\ pc' = [pc EXCEPT ![p] = "forkMap"] /\ pa' = [pa EXCEPT ![p] = g]
      /\ page' = [page EXCEPT ![p] = i]
      /\ pd' = pd /\ pde' = pde /\ pte' = pte /\ child' = child
      /\ on' = on /\ tlb' = tlb /\ cr2' = cr2 /\ savedCr2' = savedCr2
      /\ panicked' = panicked /\ wanted' = wanted /\ mem' = mem
  BY <1>3 DEF ForkAlloc, At, coreVars, tableVars
<1>7. /\ FreeOk' /\ firstFree' \in Seq(Frames) /\ avail' \in Nat \ {0} /\ content' \in [Frames -> Nat]
      /\ g \in Frames /\ (\A f : InUse(f) => content'[f] = content[f])
  BY <1>2, <1>3, Allocates
<1>8. g \in Nat /\ g # None /\ "forkMap" \in Labels /\ i \in Nat /\ 0 \in Nat
  BY <1>7, Facts DEF Labels
<1>9. /\ \A q \in Procs : q # p => pc'[q] = pc[q] /\ page'[q] = page[q] /\ pa'[q] = pa[q]
      /\ pc'[p] = "forkMap" /\ page'[p] = i /\ pa'[p] = g
  BY <1>2, <1>6 DEF MemoryTypes
<1>10. MemoryTypes'
  BY <1>2, <1>6, <1>7, <1>8 DEF MemoryTypes
<1>11. PlacesUsed' /\ PlacesApart'
  <2>1. \A k \in Kinds, q \in Procs, x \in Nat :
          \/ Frame(k, q, x)' \in {None, Frame(k, q, x)}
          \/ k = "pa" /\ q = p /\ x = 0 /\ Frame(k, q, x)' = g
    BY <1>6, <1>9 DEF Frame, Kinds
  <2> QED
    BY <1>2, <1>3, <2>1, AllocPlaces
<1>12. ASSUME NEW q \in Procs, q # p, q # e PROVE Undisturbed(q)
  BY <1>6, <1>7, <1>9, <1>12, UndisturbedIf
<1>13. CoreOk(c)'
  BY <1>2, <1>6, <1>9 DEF CoreOk
<1>14. \A j \in Pages : Value(p, j)' = Value(p, j) /\ Value(e, j)' = Value(e, j)
  BY <1>6, <1>7, ValuesStay
<1>15. SpaceOk(p)'
  BY <1>2, <1>6, <1>8, <1>9, <1>14 DEF SpaceOk, Live, Labels
<1>16. FaultOk(p)'
  BY <1>9 DEF FaultOk
<1>17. ForkOk(p)'
  <2>1. page[p] \in Nat /\ i >= page[p] /\ pte[p][i] # None
        /\ \A j \in Pages : j >= page[p] /\ pte[p][j] # None => i <= j
    BY <1>2, RemainingIs DEF ForkAlloc, IsNext, MemoryTypes
  <2>2. pc[p] \in Looping
    BY <1>2 DEF Looping
  <2>3. ASSUME NEW j \in Pages, j < i PROVE Value(e, j)' = Value(p, j)'
    <3>1. j \in Nat
      BY Facts
    <3>2. CASE j < page[p]
      BY <1>2, <1>4, <1>14, <2>2, <3>2 DEF ForkOk
    <3>3. CASE j >= page[p]
      <4>1. pte[p][j] = None
        BY <1>8, <2>1, <2>3, <3>1, <3>3
      <4>2. pte[e][j] = None
        BY <1>2, <1>4, <2>1, <2>2, <3>1, <3>3 DEF ForkOk
      <4> QED
        BY <1>14, <4>1, <4>2 DEF Value
    <3> QED
      BY <2>1, <3>1, <3>2, <3>3
  <2>4. \A j \in Pages : j >= i => pte'[e][j] = None
    <3> SUFFICES ASSUME NEW j \in Pages, j >= i PROVE pte[e][j] = None
      BY <1>6
    <3>1. j \in Nat
      BY Facts
    <3>2. j > page[p] \/ j = page[p]
      BY <1>8, <2>1, <3>1
    <3> QED
      BY <1>2, <1>4, <2>2, <3>2 DEF ForkOk
  <2>5. child'[p] = e /\ pc'[e] = "embryo" /\ pte'[p][i] # None
    BY <1>4, <1>5, <1>6, <1>9, <2>1
  <2>6. \A j \in Pages : Value(child[p], j)' = Value(e, j)'
    BY <2>5 DEF Value
  <2>7. \A j \in Pages : (j > i => j >= i) /\ (j = i => j >= i)
    BY <1>8, Facts
  <2>8. \A j \in Pages : (j > i => pte'[e][j] = None) /\ (j = i => pte'[e][j] = None)
    BY <2>4, <2>7
  <2>9. \A j \in Pages : j < i => Value(child[p], j)' = Value(p, j)'
    BY <2>3, <2>6
  <2> QED
    BY <1>9, <2>5, <2>8, <2>9 DEF ForkOk
<1>18. /\ SpaceOk(e)' /\ FaultOk(e)' /\ ForkOk(e)'
       /\ pc'[e] \in {"embryo", "user"} /\ child'[p] = e
  BY <1>4, <1>5, <1>6, <1>9, EmbryoOk
<1> QED
  BY ONLY MemoryInv, p \in Procs, e \in Procs, c \in Cores, <1>2, <1>4, <1>5, <1>6, <1>7, <1>10, <1>11,
          <1>12, <1>13, <1>15, <1>16, <1>17, <1>18, StepKeeps

\* fork maps the frame in the address space of the child.
LEMMA ForkMapKeeps ==
  ASSUME MemoryInv, NEW p \in Procs, ForkMap(p)
  PROVE  MemoryInv'
<1>1. PICK c \in Cores : c = CoreOf(p)
  BY RunningOn DEF ForkMap, At
<1>2. /\ on[c] = p /\ CoreOk(c) /\ SpaceOk(p) /\ FaultOk(p) /\ ForkOk(p) /\ MemoryTypes
      /\ pc[p] = "forkMap" /\ pc[p] \in Forking /\ FreeOk /\ Running(p)
  BY <1>1, ActorIs DEF ForkMap, At, MemoryInv, Forking
<1>3. PICK i \in Pages : i = page[p]
  BY <1>2 DEF ForkOk
<1>4. PICK e \in Procs : e = child[p]
  BY <1>2 DEF ForkOk
<1>5. PICK g \in Nat : g = pa[p]
  BY <1>2 DEF MemoryTypes
<1>6. e # p /\ pc[e] = "embryo" /\ pd[e] # None
  BY <1>2, <1>4, ParentIs
<1>7. /\ pc' = [pc EXCEPT ![p] = "forkCopy"] /\ Map(e, i, g)
      /\ pd' = pd /\ child' = child /\ page' = page /\ pa' = pa
      /\ on' = on /\ tlb' = tlb /\ cr2' = cr2 /\ savedCr2' = savedCr2
      /\ panicked' = panicked /\ wanted' = wanted /\ mem' = mem
  BY <1>3, <1>4, <1>5 DEF ForkMap, At, coreVars
<1>8. PICK h : h = IF pde[e][RegionOf[i]] = None THEN Fresh ELSE None
  OBVIOUS
<1>9. /\ FreeOk' /\ firstFree' \in Seq(Frames) /\ avail' \in Nat \ {0}
      /\ content' \in [Frames -> Nat] /\ pde' \in [Procs -> [Regions -> Nat]]
      /\ pte' \in [Procs -> [Entries -> Nat]]
      /\ pte'[e][i] = g
      /\ \A r \in Procs, j \in Pages : r # e \/ j # i => pte'[r][j] = pte[r][j]
      /\ \A r \in Procs : r # e => pte'[r] = pte[r] /\ pde'[r] = pde[r]
      /\ \A f : InUse(f) => content'[f] = content[f]
  BY <1>2, <1>7, <1>8, MapIs
<1>10. /\ \A q \in Procs : q # p => pc'[q] = pc[q]
       /\ pc'[p] = "forkCopy"
  BY <1>2, <1>7 DEF MemoryTypes
<1>11. MemoryTypes'
  <2>1. "forkCopy" \in Labels
    BY DEF Labels
  <2> QED
    BY <1>2, <1>7, <1>9, <2>1 DEF MemoryTypes
<1>12. PlacesUsed' /\ PlacesApart'
  <2>1. Map(e, i, pa[p]) /\ pc'[p] \notin Handing /\ pc[p] \in {"faultMap", "forkMap"}
    BY <1>2, <1>5, <1>7, <1>10 DEF Handing
  <2> QED
    BY <1>7, <1>10, <2>1, MapPlaces
<1>13. ASSUME NEW q \in Procs, q # p, q # e PROVE Undisturbed(q)
  BY <1>7, <1>9, <1>10, <1>13, UndisturbedIf
<1>14. CoreOk(c)'
  BY <1>2, <1>6, <1>7, <1>9, <1>10 DEF CoreOk
<1>15. /\ \A j \in Pages : Value(p, j)' = Value(p, j)
       /\ \A j \in Pages : j # i => Value(e, j)' = Value(e, j)
  BY <1>6, <1>9, ValuesStay
<1>16. SpaceOk(p)'
  BY <1>2, <1>7, <1>10, <1>15 DEF SpaceOk, Live, Labels
<1>17. FaultOk(p)'
  BY <1>10 DEF FaultOk
<1>18. ForkOk(p)'
  <2>1. child'[p] = e /\ pc'[e] = "embryo" /\ page'[p] = i /\ pa'[p] = g /\ pc[p] \in Looping
    BY <1>2, <1>3, <1>4, <1>5, <1>6, <1>7, <1>10 DEF Looping
  <2>2. \A j \in Pages : j < i => Value(e, j)' = Value(p, j)'
    <3> SUFFICES ASSUME NEW j \in Pages, j < i PROVE Value(e, j)' = Value(p, j)'
      OBVIOUS
    <3>1. j # i
      BY Facts
    <3>2. Value(e, j) = Value(p, j)
      BY <1>2, <1>3, <1>4, <2>1 DEF ForkOk
    <3> QED
      BY <1>15, <3>1, <3>2
  <2>3. \A j \in Pages : j > i => pte'[e][j] = None
    <3> SUFFICES ASSUME NEW j \in Pages, j > i PROVE pte'[e][j] = None
      OBVIOUS
    <3>1. j # i
      BY Facts
    <3>2. pte[e][j] = None
      BY <1>2, <1>3, <1>4, <2>1 DEF ForkOk
    <3> QED
      BY <1>9, <3>1, <3>2
  <2>4. pte'[p][i] # None
    BY <1>2, <1>3, <1>6, <1>9 DEF ForkOk
  <2>5. \A j \in Pages : Value(child[p], j)' = Value(e, j)'
    BY <2>1 DEF Value
  <2> QED
    BY <1>9, <1>10, <2>1, <2>2, <2>3, <2>4, <2>5 DEF ForkOk
<1>19. /\ SpaceOk(e)' /\ FaultOk(e)' /\ ForkOk(e)'
       /\ pc'[e] \in {"embryo", "user"} /\ child'[p] = e
  BY <1>4, <1>6, <1>7, <1>10, EmbryoOk
<1> QED
  BY ONLY MemoryInv, p \in Procs, e \in Procs, c \in Cores, <1>2, <1>4, <1>6, <1>7, <1>9, <1>11, <1>12,
          <1>13, <1>14, <1>16, <1>17, <1>18, <1>19, StepKeeps

\* fork copies the page, through its own translation, into the frame of the child.
LEMMA ForkCopyKeeps ==
  ASSUME MemoryInv, NEW p \in Procs, ForkCopy(p)
  PROVE  MemoryInv'
<1>1. PICK c \in Cores : c = CoreOf(p)
  BY RunningOn DEF ForkCopy, At
<1>2. /\ on[c] = p /\ CoreOk(c) /\ SpaceOk(p) /\ FaultOk(p) /\ ForkOk(p) /\ MemoryTypes
      /\ pc[p] = "forkCopy" /\ pc[p] \in Forking /\ FreeOk /\ Running(p)
      /\ PlacesUsed /\ PlacesApart
      /\ \A j \in Pages : Translate(p, j) = pte[p][j]
  BY <1>1, ActorIs DEF ForkCopy, At, MemoryInv, Forking
<1>3. PICK i \in Pages : i = page[p]
  BY <1>2 DEF ForkOk
<1>4. PICK e \in Procs : e = child[p]
  BY <1>2 DEF ForkOk
<1>5. PICK g \in Nat : g = pa[p]
  BY <1>2 DEF MemoryTypes
<1>6. PICK f : f = pte[p][i]
  OBVIOUS
<1>7. e # p /\ pc[e] = "embryo" /\ pd[e] # None
  BY <1>2, <1>4, ParentIs
<1>8. g # None /\ f # None /\ pte[e][i] = g
  BY <1>2, <1>3, <1>4, <1>5, <1>6 DEF SpaceOk, ForkOk
<1>9. /\ "pte" \in Kinds /\ \A r \in Procs, j \in Pages : j \in Nat /\ Frame("pte", r, j) = pte[r][j]
  BY Facts DEF Frame, Kinds
<1>10. g \in Frames /\ f \in Frames
  BY <1>2, <1>6, <1>8, <1>9 DEF PlacesUsed, InUse
<1>11. /\ pc' = [pc EXCEPT ![p] = "forkNext"] /\ page' = [page EXCEPT ![p] = i + 1]
       /\ pa' = [pa EXCEPT ![p] = None] /\ content' = [content EXCEPT ![g] = content[f]]
       /\ firstFree' = firstFree /\ avail' = avail /\ pd' = pd /\ pde' = pde /\ pte' = pte
       /\ child' = child /\ on' = on /\ tlb' = tlb /\ cr2' = cr2 /\ savedCr2' = savedCr2
       /\ panicked' = panicked /\ wanted' = wanted /\ mem' = mem
  BY <1>2, <1>3, <1>5, <1>6 DEF ForkCopy, At, coreVars, tableVars
<1>12. i + 1 \in Nat /\ None \in Nat /\ "forkNext" \in Labels /\ content[f] \in Nat
  BY <1>2, <1>10, Facts DEF Labels, MemoryTypes
<1>13. /\ \A q \in Procs : q # p => pc'[q] = pc[q] /\ page'[q] = page[q] /\ pa'[q] = pa[q]
       /\ pc'[p] = "forkNext" /\ page'[p] = i + 1
       /\ \A j : j \in Frames /\ j # g => content'[j] = content[j]
       /\ content'[g] = content[f]
  BY <1>2, <1>10, <1>11 DEF MemoryTypes
<1>14. MemoryTypes'
  BY <1>2, <1>11, <1>12 DEF MemoryTypes
<1>15. FreeOk' /\ PlacesUsed' /\ PlacesApart'
  <2>1. pc'[p] \notin Handing
    BY <1>13 DEF Handing
  <2>2. \A k \in Kinds, q \in Procs, x \in Nat : Frame(k, q, x)' \in {None, Frame(k, q, x)}
    BY <1>11, <1>13, <2>1 DEF Frame, Kinds
  <2> QED
    BY <1>11, <2>2, PlacesQuiet
<1>16. ASSUME NEW q \in Procs, q # p, q # e PROVE Undisturbed(q)
  <2>1. Frame("pte", e, i) = g /\ i \in Nat
    BY <1>8, <1>9
  <2>2. \A j : InUse(j) => content'[j] = content[j] \/ \E k \in Kinds, x \in Nat : Frame(k, e, x) = j
    BY <1>9, <1>13, <2>1 DEF InUse
  <2> QED
    BY <1>11, <1>13, <1>16, <2>2, UndisturbedIf
<1>17. CoreOk(c)'
  BY <1>2, <1>11, <1>13 DEF CoreOk
<1>18. ASSUME NEW r \in Procs, NEW j \in Pages, ~(r = e /\ j = i) PROVE Value(r, j)' = Value(r, j)
  <2>1. pte[r][j] # g
    BY <1>2, <1>8, <1>9, <1>18 DEF PlacesApart
  <2>2. pte[r][j] # None => pte[r][j] \in Frames
    BY <1>2, <1>9 DEF PlacesUsed, InUse
  <2> QED
    BY <1>11, <1>13, <2>1, <2>2 DEF Value
<1>19. SpaceOk(p)'
  <2>1. \A j \in Pages : Value(p, j)' = Value(p, j)
    BY <1>7, <1>18
  <2> QED
    BY <1>2, <1>11, <1>13, <2>1 DEF SpaceOk, Live, Labels
<1>20. FaultOk(p)'
  BY <1>13 DEF FaultOk
<1>21. ForkOk(p)'
  <2>1. child'[p] = e /\ pc'[e] = "embryo" /\ pc[p] \in Looping
    BY <1>2, <1>4, <1>7, <1>11, <1>13 DEF Looping
  <2>2. ASSUME NEW j \in Pages, j < i + 1 PROVE Value(child[p], j)' = Value(p, j)'
    <3>1. Value(child[p], j)' = Value(e, j)'
      BY <2>1 DEF Value
    <3>2. CASE j = i
      BY <1>6, <1>8, <1>11, <1>13, <1>10, <3>1, <3>2, <1>7, <1>18 DEF Value
    <3>3. CASE j # i
      <4>1. j < i
        BY <2>2, <3>3, Facts
      <4>2. Value(e, j) = Value(p, j)
        BY <1>2, <1>3, <1>4, <2>1, <4>1 DEF ForkOk
      <4> QED
        BY <1>7, <1>18, <3>1, <3>3, <4>2
    <3> QED
      BY <3>2, <3>3
  <2>3. ASSUME NEW j \in Pages, j > i + 1 \/ j = i + 1 PROVE pte'[e][j] = None
    <3>1. j > i
      BY <2>3, Facts
    <3>2. pte[e][j] = None
      BY <1>2, <1>3, <1>4, <2>1, <3>1 DEF ForkOk
    <3> QED
      BY <1>11, <3>2
  <2> QED
    BY <1>13, <2>1, <2>2, <2>3 DEF ForkOk
<1>22. /\ SpaceOk(e)' /\ FaultOk(e)' /\ ForkOk(e)'
       /\ pc'[e] \in {"embryo", "user"} /\ child'[p] = e
  BY <1>4, <1>7, <1>11, <1>13, EmbryoOk
<1> QED
  BY ONLY MemoryInv, p \in Procs, e \in Procs, c \in Cores, <1>2, <1>4, <1>7, <1>11, <1>14, <1>15,
          <1>16, <1>17, <1>19, <1>20, <1>21, <1>22, StepKeeps

\* fork is done: the child has what its parent has.
LEMMA ForkDoneKeeps ==
  ASSUME MemoryInv, NEW p \in Procs, ForkDone(p)
  PROVE  MemoryInv'
<1>1. PICK c \in Cores : c = CoreOf(p)
  BY RunningOn DEF ForkDone
<1>2. /\ on[c] = p /\ CoreOk(c) /\ SpaceOk(p) /\ FaultOk(p) /\ ForkOk(p) /\ MemoryTypes
      /\ pc[p] = "forkNext" /\ pc[p] \in Forking /\ Running(p)
  BY <1>1, ActorIs DEF ForkDone, MemoryInv, Forking
<1>3. PICK e \in Procs : e = child[p]
  BY <1>2 DEF ForkOk
<1>4. e # p /\ pc[e] = "embryo" /\ pd[e] # None
  BY <1>2, <1>3, ParentIs
<1>5. /\ pc' = [pc EXCEPT ![p] = "user", ![e] = "user"] /\ mem' = [mem EXCEPT ![e] = mem[p]]
      /\ page' = [page EXCEPT ![p] = None] /\ child' = [child EXCEPT ![p] = Idle]
      /\ firstFree' = firstFree /\ avail' = avail /\ content' = content
      /\ pd' = pd /\ pde' = pde /\ pte' = pte
      /\ on' = on /\ tlb' = tlb /\ cr2' = cr2 /\ savedCr2' = savedCr2
      /\ pa' = pa /\ panicked' = panicked /\ wanted' = wanted
  BY <1>3 DEF ForkDone, coreVars, tableVars, frameVars
<1>6. /\ \A q \in Procs : q # p => page'[q] = page[q] /\ child'[q] = child[q]
      /\ \A q \in Procs : q # e => mem'[q] = mem[q]
      /\ \A q \in Procs : q # p /\ q # e => pc'[q] = pc[q]
      /\ pc'[p] = "user" /\ pc'[e] = "user" /\ mem'[e] = mem[p]
  BY <1>2, <1>5 DEF MemoryTypes
<1>7. MemoryTypes'
  <2>1. "user" \in Labels /\ None \in Nat
    BY Facts DEF Labels
  <2> QED
    BY <1>2, <1>5, <2>1 DEF MemoryTypes
<1>8. FreeOk' /\ PlacesUsed' /\ PlacesApart'
  <2>1. pc'[p] \notin Handing /\ pc'[e] \notin Handing
    BY <1>6 DEF Handing
  <2>2. /\ pd' = pd /\ pde' = pde /\ pte' = pte /\ pa' = pa
        /\ \A q \in Procs : pc'[q] \in Handing => pc[q] \in Handing
    BY <1>5, <1>6, <2>1
  <2>3. \A k \in Kinds, q \in Procs, x \in Nat : Frame(k, q, x)' \in {None, Frame(k, q, x)}
    BY ONLY <2>2 DEF Frame, Kinds
  <2> QED
    BY <1>5, <2>3, PlacesQuiet
<1>9. ASSUME NEW q \in Procs, q # p, q # e PROVE Undisturbed(q)
  BY <1>5, <1>6, <1>9 DEF Undisturbed
<1>10. CoreOk(c)'
  BY <1>2, <1>5, <1>6 DEF CoreOk
<1>11. \A r \in Procs, j \in Pages : Value(r, j)' = Value(r, j)
  BY <1>5 DEF Value
<1>12. SpaceOk(p)'
  BY <1>2, <1>4, <1>5, <1>6, <1>11 DEF SpaceOk, Live, Labels
<1>13. SpaceOk(e)'
  <2>1. ASSUME NEW j \in Pages PROVE mem'[e][j] = Value(e, j)'
    <3>1. mem'[e][j] = Value(p, j)
      BY <1>2, <1>6 DEF SpaceOk, Live, Labels
    <3>2. j \in Nat /\ page[p] \in Nat /\ pc[p] \in Looping
      BY <1>2, Facts DEF MemoryTypes, Looping
    <3>3. CASE j < page[p]
      BY <1>2, <1>3, <1>11, <3>1, <3>2, <3>3 DEF ForkOk
    <3>4. CASE j >= page[p]
      <4>1. pte[p][j] = None
        BY <3>4, RemainingIs DEF ForkDone
      <4>2. j > page[p] \/ j = page[p]
        BY <3>2, <3>4
      <4>3. pte[e][j] = None
        BY <1>2, <1>3, <3>2, <4>2 DEF ForkOk
      <4> QED
        BY <1>11, <3>1, <4>1, <4>3 DEF Value
    <3> QED
      BY <3>2, <3>3, <3>4
  <2> QED
    BY <1>4, <1>5, <1>6, <2>1 DEF SpaceOk
<1>14. FaultOk(p)' /\ ForkOk(p)' /\ FaultOk(e)' /\ ForkOk(e)' /\ pc'[p] \notin Forking
  BY <1>6 DEF FaultOk, ForkOk, Forking, Looping
<1>15. pc'[e] \in {"embryo", "user"}
  BY <1>6
<1> QED
  BY ONLY MemoryInv, p \in Procs, e \in Procs, c \in Cores, <1>2, <1>3, <1>4, <1>5, <1>7, <1>8, <1>9,
          <1>10, <1>12, <1>13, <1>14, <1>15, StepKeeps

\* What the invariant says of the processes and the frames is not about cores.
LEMMA SameSpaces ==
  ASSUME MemoryInv, firstFree' = firstFree, avail' = avail, content' = content,
         pd' = pd, pde' = pde, pte' = pte, pc' = pc, page' = page, pa' = pa, child' = child, mem' = mem
  PROVE  /\ FreeOk' /\ PlacesUsed' /\ PlacesApart' /\ OneParent'
         /\ \A p \in Procs : SpaceOk(p)' /\ ForkOk(p)'
<1>1. \A k \in Kinds, p \in Procs, x \in Nat : Frame(k, p, x)' = Frame(k, p, x)
  BY DEF Frame, Kinds
<1>2. FreeOk' /\ PlacesUsed' /\ PlacesApart'
  BY <1>1, PlacesQuiet
<1>3. OneParent'
  BY DEF MemoryInv, OneParent
<1>4. ASSUME NEW p \in Procs PROVE SpaceOk(p)'
  <2>1. \A i \in Pages : Value(p, i)' = Value(p, i)
    BY DEF Value
  <2>2. SpaceOk(p)
    BY DEF MemoryInv
  <2> QED
    BY <1>1, <2>1, <2>2 DEF SpaceOk
<1>5. ASSUME NEW p \in Procs PROVE ForkOk(p)'
  <2>1. \A i \in Pages : Value(p, i)' = Value(p, i) /\ Value(child[p], i)' = Value(child[p], i)
    BY DEF Value
  <2>2. ForkOk(p)
    BY DEF MemoryInv
  <2> QED
    BY <2>1, <2>2 DEF ForkOk
<1> QED
  BY <1>2, <1>3, <1>4, <1>5

\* Nothing happens, or the kernel panics.
LEMMA PanicKeeps ==
  ASSUME MemoryInv, firstFree' = firstFree, avail' = avail, content' = content,
         pd' = pd, pde' = pde, pte' = pte, pc' = pc, page' = page, pa' = pa, child' = child,
         mem' = mem, on' = on, tlb' = tlb, cr2' = cr2, savedCr2' = savedCr2, wanted' = wanted,
         panicked' \in BOOLEAN
  PROVE  MemoryInv'
<1>1. MemoryTypes'
  BY DEF MemoryInv, MemoryTypes
<1>2. \A c \in Cores : CoreOk(c)'
  BY DEF MemoryInv, CoreOk
<1>3. \A p \in Procs : FaultOk(p)'
  BY DEF MemoryInv, FaultOk
<1>4. /\ FreeOk' /\ PlacesUsed' /\ PlacesApart' /\ OneParent'
      /\ \A p \in Procs : SpaceOk(p)' /\ ForkOk(p)'
  BY SameSpaces
<1> QED
  BY <1>1, <1>2, <1>3, <1>4 DEF MemoryInv

\* A context switch empties the TLB, and CR2 follows the process.
LEMMA SwitchKeeps ==
  ASSUME MemoryInv, NEW c \in Cores, NEW p \in Procs \cup {Idle}, ContextSwitch(c, p)
  PROVE  MemoryInv'
<1>1. PICK q \in Procs \cup {Idle} : q = on[c]
  BY DEF MemoryInv, MemoryTypes
<1>2. /\ p # q /\ Switchable(p) /\ ~panicked /\ MemoryTypes
      /\ on' = [on EXCEPT ![c] = p]
      /\ savedCr2' = IF q = Idle THEN savedCr2 ELSE [savedCr2 EXCEPT ![q] = cr2[c]]
      /\ cr2' = [cr2 EXCEPT ![c] = IF p = Idle THEN None ELSE savedCr2[p]]
      /\ tlb' = [tlb EXCEPT ![c] = NoTlb]
      /\ firstFree' = firstFree /\ avail' = avail /\ content' = content
      /\ pd' = pd /\ pde' = pde /\ pte' = pte /\ pc' = pc /\ page' = page /\ pa' = pa
      /\ child' = child /\ panicked' = panicked /\ wanted' = wanted /\ mem' = mem
  BY <1>1 DEF ContextSwitch, frameVars, tableVars, MemoryInv
<1>3. p \in Procs => /\ pc[p] \notin {"none", "embryo", "deleted"}
                     /\ \A d \in Cores : on[d] # p
  BY <1>2 DEF Switchable, Running
<1>4. MemoryTypes'
  <2>1. NoTlb \in [Pages -> Nat] /\ None \in Nat /\ Idle \notin Procs
    BY Facts DEF NoTlb
  <2>2. cr2' \in [Cores -> Nat] /\ savedCr2' \in [Procs -> Nat]
    BY <1>1, <1>2, <2>1 DEF MemoryTypes
  <2> QED
    BY <1>2, <2>1, <2>2 DEF MemoryTypes
<1>5. /\ on'[c] = p /\ tlb'[c] = NoTlb
      /\ \A d \in Cores : d # c => on'[d] = on[d] /\ tlb'[d] = tlb[d] /\ cr2'[d] = cr2[d]
      /\ (p \in Procs => cr2'[c] = savedCr2[p])
      /\ (q \in Procs => savedCr2'[q] = cr2[c])
      /\ \A r \in Procs : r # q => savedCr2'[r] = savedCr2[r]
  BY <1>1, <1>2, Facts DEF MemoryTypes
<1>6. ASSUME NEW d \in Cores PROVE CoreOk(d)'
  <2>1. CASE d = c
    <3>1. \A i \in Pages : tlb'[d][i] = None
      BY <1>5, <2>1 DEF NoTlb
    <3>2. on'[d] \in Procs => /\ pc'[on'[d]] \notin {"none", "embryo", "deleted"}
                              /\ \A b \in Cores : on'[b] = on'[d] => b = d
      BY <1>2, <1>3, <1>5, <2>1
    <3> QED
      BY <3>1, <3>2 DEF CoreOk
  <2>2. CASE d # c
    <3>1. CoreOk(d) /\ on'[d] = on[d] /\ tlb'[d] = tlb[d]
      BY <1>5, <2>2 DEF MemoryInv
    <3>2. on[d] \in Procs => on[d] # p
      BY <1>3
    <3>3. \A b \in Cores : on'[b] = on[d] /\ on[d] \in Procs => on[b] = on[d]
      BY <1>5, <3>2
    <3> QED
      BY <1>2, <3>1, <3>3 DEF CoreOk
  <2> QED
    BY <2>1, <2>2
<1>7. ASSUME NEW r \in Procs PROVE FaultOk(r)'
  <2>1. FaultOk(r) /\ pc'[r] = pc[r] /\ wanted'[r] = wanted[r] /\ pte' = pte /\ page' = page
        /\ content' = content /\ pa' = pa
    BY <1>2 DEF MemoryInv
  <2>2. ASSUME pc[r] = "fault"
        PROVE  /\ \A d \in Cores : on'[d] = r => cr2'[d] = wanted[r]
               /\ (\A d \in Cores : on'[d] # r) => savedCr2'[r] = wanted[r]
    <3>1. /\ \A d \in Cores : on[d] = r => cr2[d] = wanted[r]
          /\ (\A d \in Cores : on[d] # r) => savedCr2[r] = wanted[r]
      BY <2>1, <2>2 DEF FaultOk
    <3>2. CASE r = p
      BY <1>3, <1>5, <3>1, <3>2
    <3>3. CASE r = q
      <4>1. \A d \in Cores : d # c => on[d] # q
        BY <1>1, <3>3 DEF MemoryInv, CoreOk
      <4>2. cr2[c] = wanted[r]
        BY <1>1, <3>1, <3>3
      <4> QED
        BY <1>2, <1>5, <3>3, <4>1, <4>2
    <3>4. CASE r # p /\ r # q
      BY <1>1, <1>5, <3>1, <3>4
    <3> QED
      BY <3>2, <3>3, <3>4
  <2> QED
    BY <2>1, <2>2 DEF FaultOk
<1>8. /\ FreeOk' /\ PlacesUsed' /\ PlacesApart' /\ OneParent'
      /\ \A r \in Procs : SpaceOk(r)' /\ ForkOk(r)'
  BY <1>2, SameSpaces
<1> QED
  BY <1>4, <1>6, <1>7, <1>8 DEF MemoryInv

\* A directory has finitely many entries.
LEMMA FewRegions == Cardinality(Regions) \in Nat
<1>1. PICK a \in Int, b \in Int : a = 512 /\ b = 1023
  OBVIOUS
<1>2. IsFiniteSet(a..b)
  BY ONLY a \in Int, b \in Int, FS_Interval
<1>3. Regions \in SUBSET (a..b)
  <2>1. Apic \in a..b
    BY <1>1 DEF Apic
  <2>2. \A i \in Pages : RegionOf[i] \in a..b
    BY <1>1, VirtualMemoryAssumption
  <2> QED
    BY <2>1, <2>2 DEF Regions
<1>4. PICK S : S = a..b
  OBVIOUS
<1>5. IsFiniteSet(Regions)
  BY <1>2, <1>3, <1>4, FS_Subset
<1> QED
  BY <1>5, FS_CardinalityType

\* s is what delete_pd() frees: the directory of p, then the page tables in the order given.
Freed(p, order, s) ==
  /\ DOMAIN order \subseteq Nat /\ \A k \in DOMAIN order : order[k] \in Regions
  /\ s \in Seq(Nat)
  /\ \A k \in DOMAIN s :
       \/ k = 1 /\ s[k] = pd[p]
       \/ k # 1 /\ k - 1 \in DOMAIN order /\ s[k] = pde[p][order[k - 1]]

\* The frames in s are in use, by p, and each is there once.
Owned(p, s) ==
  /\ s \in Seq(Frames) /\ Distinct(s) /\ (\A k \in DOMAIN s : InUse(s[k]))
  /\ \A f : Among(s, f) => f # None /\ \E k \in Kinds, x \in Nat : Frame(k, p, x) = f

\* delete_pd() frees frames of p only, each once.
LEMMA DeletedFrames ==
  ASSUME MemoryInv, NEW p \in Procs, pc[p] = "exited", NEW order, NEW s, LastFirst(p, order),
         Freed(p, order, s)
  PROVE  Owned(p, s)
<1>1. MemoryTypes /\ PlacesUsed /\ PlacesApart /\ SpaceOk(p)
  BY DEF MemoryInv
<1>2. /\ "pd" \in Kinds /\ "pde" \in Kinds /\ 0 \in Nat /\ Frame("pd", p, 0) = pd[p]
      /\ \A x \in Regions : x \in Nat /\ Frame("pde", p, x) = pde[p][x]
  BY Facts DEF Frame, Kinds
<1>3. pd[p] # None /\ InUse(pd[p])
  BY <1>1, <1>2 DEF SpaceOk, PlacesUsed
<1>4. ASSUME NEW k \in DOMAIN order
      PROVE  /\ order[k] \in Regions /\ order[k] \in Nat /\ k \in Nat
             /\ pde[p][order[k]] = Frame("pde", p, order[k]) /\ pde[p][order[k]] # None
             /\ InUse(pde[p][order[k]]) /\ pde[p][order[k]] # pd[p]
  <2>1. order[k] \in Regions /\ order[k] \in {r \in Regions : pde[p][r] # None} /\ k \in Nat
    BY DEF LastFirst, Freed
  <2>2. /\ pde[p][order[k]] = Frame("pde", p, order[k]) /\ pde[p][order[k]] # None
        /\ order[k] \in Nat
    BY <1>2, <2>1
  <2>3. InUse(pde[p][order[k]])
    BY <1>1, <1>2, <2>2 DEF PlacesUsed
  <2>4. pde[p][order[k]] # pd[p]
    BY ONLY <1>1, <1>2, <2>2, p \in Procs DEF PlacesApart
  <2> QED
    BY <2>1, <2>2, <2>3, <2>4
<1>5. ASSUME NEW j \in DOMAIN order, NEW k \in DOMAIN order, pde[p][order[j]] = pde[p][order[k]]
      PROVE  j = k
  <2>1. /\ pde[p][order[j]] = Frame("pde", p, order[j]) /\ pde[p][order[j]] # None
        /\ pde[p][order[k]] = Frame("pde", p, order[k])
        /\ order[j] \in Nat /\ order[k] \in Nat /\ j \in Nat /\ k \in Nat
    BY <1>4
  <2>2. order[j] = order[k]
    <3>1. PICK x \in Nat, y \in Nat : x = order[j] /\ y = order[k]
      BY <2>1
    <3>2. Frame("pde", p, x) = Frame("pde", p, y) /\ Frame("pde", p, x) # None
      BY <1>5, <2>1, <3>1
    <3>3. x = y
      BY ONLY <1>1, <1>2, <3>2, p \in Procs, x \in Nat, y \in Nat DEF PlacesApart
    <3> QED
      BY <3>1, <3>3
  <2>3. ~(j < k) /\ ~(k < j)
    BY <2>1, <2>2 DEF LastFirst
  <2> QED
    BY <2>1, <2>3
<1>6. ASSUME NEW k \in DOMAIN s
      PROVE  \/ k = 1 /\ s[k] = pd[p]
             \/ k # 1 /\ k - 1 \in DOMAIN order /\ s[k] = pde[p][order[k - 1]]
  BY DEF Freed
<1>7. s \in Seq(Nat) /\ \A k \in DOMAIN s : k \in Nat
  BY DEF Freed
<1>8. \A k \in DOMAIN s : InUse(s[k]) /\ s[k] # None
  BY <1>3, <1>4, <1>6
<1>9. s \in Seq(Frames)
  <2>1. \A k \in DOMAIN s : s[k] \in Frames
    BY <1>8 DEF InUse
  <2> QED
    BY ONLY <1>7, <2>1
<1>10. Distinct(s)
  <2> SUFFICES ASSUME NEW j \in DOMAIN s, NEW k \in DOMAIN s, s[j] = s[k] PROVE j = k
    BY DEF Distinct
  <2>1. CASE j = 1 /\ k = 1
    BY <2>1
  <2>2. CASE j # 1 /\ k # 1
    <3>1. j - 1 = k - 1
      BY <1>5, <1>6, <2>2
    <3> QED
      BY <1>7, <3>1
  <2>3. CASE j = 1 /\ k # 1
    BY <1>4, <1>6, <2>3
  <2>4. CASE j # 1 /\ k = 1
    BY <1>4, <1>6, <2>4
  <2> QED
    BY <2>1, <2>2, <2>3, <2>4
<1>11. ASSUME NEW f, Among(s, f) PROVE f # None /\ \E k \in Kinds, x \in Nat : Frame(k, p, x) = f
  <2>1. PICK k \in DOMAIN s : s[k] = f
    BY <1>11 DEF Among
  <2>2. f # None
    BY <1>8, <2>1
  <2>3. CASE k = 1
    <3>1. f = Frame("pd", p, 0)
      BY <1>2, <1>6, <2>1, <2>3
    <3> QED
      BY <1>2, <2>2, <3>1
  <2>4. CASE k # 1
    <3>1. PICK x \in Nat : x = order[k - 1]
      BY <1>4, <1>6, <2>4
    <3>2. f = Frame("pde", p, x)
      BY <1>4, <1>6, <2>1, <2>4, <3>1
    <3> QED
      BY <1>2, <2>2, <3>2
  <2> QED
    BY <2>3, <2>4
<1> QED
  BY <1>8, <1>9, <1>10, <1>11 DEF Owned

\* delete_pd() frees the directory and the page tables of a process that no core runs.
LEMMA DeleteKeeps ==
  ASSUME MemoryInv, NEW p \in Procs, DeletePd(p)
  PROVE  MemoryInv'
<1>1. /\ MemoryTypes /\ FreeOk /\ PlacesUsed /\ PlacesApart /\ OneParent
      /\ pc[p] = "exited" /\ \A c \in Cores : on[c] # p
  BY DEF MemoryInv, DeletePd, Running
<1>2. PICK n \in 0..Cardinality(Regions) : \E order \in [1..n -> Regions] :
        LastFirst(p, order) /\ DeallocFrames(<<pd[p]>> \o [k \in 1..n |-> pde[p][order[k]]])
  BY DEF DeletePd
<1>3. PICK order \in [1..n -> Regions] :
        LastFirst(p, order) /\ DeallocFrames(<<pd[p]>> \o [k \in 1..n |-> pde[p][order[k]]])
  BY <1>2
<1>4. n \in Nat
  BY <1>2, FewRegions
<1>5. PICK u : u = [k \in 1..n |-> pde[p][order[k]]]
  OBVIOUS
<1>6. PICK s : s = <<pd[p]>> \o u
  OBVIOUS
<1>7. DeallocFrames(s) /\ LastFirst(p, order)
  BY <1>3, <1>5, <1>6
<1>8. Freed(p, order, s)
  <2>1. /\ DOMAIN order = 1..n /\ (\A k \in 1..n : order[k] \in Regions /\ pde[p][order[k]] \in Nat)
        /\ pd[p] \in Nat
    BY <1>1, <1>4 DEF MemoryTypes
  <2>2. u \in [1..n -> Nat] /\ \A k \in 1..n : u[k] = pde[p][order[k]]
    BY <1>5, <2>1
  <2>3. u \in Seq(Nat) /\ Len(u) = n
    BY ONLY <1>4, <2>2
  <2>4. PICK v : v = <<pd[p]>>
    OBVIOUS
  <2>5. v \in Seq(Nat) /\ Len(v) = 1 /\ v[1] = pd[p]
    BY ONLY <2>1, <2>4
  <2>6. s = v \o u
    BY <1>6, <2>4
  <2>7. /\ s \in Seq(Nat) /\ Len(s) = Len(v) + Len(u)
        /\ \A k \in 1..(Len(v) + Len(u)) : s[k] = IF k <= Len(v) THEN v[k] ELSE u[k - Len(v)]
    <3>1. s = v \o u /\ v \in Seq(Nat) /\ u \in Seq(Nat)
      BY <2>3, <2>5, <2>6
    <3> QED
      BY ONLY <3>1
  <2>8. \A k \in DOMAIN s :
          \/ k = 1 /\ s[k] = pd[p]
          \/ k # 1 /\ k - 1 \in DOMAIN order /\ s[k] = pde[p][order[k - 1]]
    <3> SUFFICES ASSUME NEW k \in DOMAIN s
                 PROVE  \/ k = 1 /\ s[k] = pd[p]
                        \/ k # 1 /\ k - 1 \in DOMAIN order /\ s[k] = pde[p][order[k - 1]]
      OBVIOUS
    <3>1. k \in 1..(1 + n)
      BY <1>4, <2>3, <2>5, <2>7
    <3>2. s[k] = IF k <= 1 THEN v[k] ELSE u[k - 1]
      BY <2>3, <2>5, <2>7, <3>1
    <3>3. CASE k = 1
      BY <2>5, <3>2, <3>3
    <3>4. CASE k # 1
      <4>1. k - 1 \in 1..n /\ ~(k <= 1)
        BY <1>4, <3>1, <3>4
      <4> QED
        BY <2>1, <2>2, <3>2, <3>4, <4>1
    <3> QED
      BY <3>3, <3>4
  <2>9. DOMAIN order \subseteq Nat /\ \A k \in DOMAIN order : order[k] \in Regions
    BY <1>4, <2>1
  <2>10. s \in Seq(Nat)
    BY <2>7
  <2> QED
    BY ONLY <2>8, <2>9, <2>10 DEF Freed
<1>9. /\ s \in Seq(Frames) /\ Distinct(s) /\ (\A k \in DOMAIN s : InUse(s[k]))
      /\ \A f : Among(s, f) => f # None /\ \E k \in Kinds, x \in Nat : Frame(k, p, x) = f
  <2>1. pc[p] = "exited" /\ LastFirst(p, order)
    BY <1>1, <1>7
  <2>2. Owned(p, s)
    BY ONLY MemoryInv, p \in Procs, <1>8, <2>1, DeletedFrames
  <2> QED
    BY <2>2 DEF Owned
<1>10. /\ DeallocFrames(s) /\ avail' = avail
      /\ pc' = [pc EXCEPT ![p] = "deleted"] /\ pd' = [pd EXCEPT ![p] = None]
      /\ pde' = [pde EXCEPT ![p] = NoTable] /\ pte' = [pte EXCEPT ![p] = NoMap]
      /\ on' = on /\ tlb' = tlb /\ cr2' = cr2 /\ savedCr2' = savedCr2
      /\ page' = page /\ pa' = pa /\ child' = child /\ panicked' = panicked
      /\ wanted' = wanted /\ mem' = mem
  BY <1>7 DEF DeletePd, coreVars
<1>11. /\ FreeOk' /\ firstFree' \in Seq(Frames) /\ content' \in [Frames -> Nat]
      /\ \A f : InUse(f) /\ ~Among(s, f) => InUse(f)' /\ content'[f] = content[f]
  BY <1>1, <1>9, <1>10, Deallocates
<1>12. /\ \A q \in Procs : q # p => pc'[q] = pc[q] /\ pd'[q] = pd[q] /\ pde'[q] = pde[q] /\ pte'[q] = pte[q]
      /\ pc'[p] = "deleted" /\ pd'[p] = None /\ pde'[p] = NoTable /\ pte'[p] = NoMap
  BY <1>1, <1>10 DEF MemoryTypes
<1>13. MemoryTypes'
  <2>1. None \in Nat /\ "deleted" \in Labels /\ NoTable \in [Regions -> Nat] /\ NoMap \in [Entries -> Nat]
    BY Facts DEF Labels, NoTable, NoMap
  <2> QED
    BY <1>1, <1>10, <1>11, <2>1 DEF MemoryTypes
<1>14. \A q \in Procs : q # p => Undisturbed(q)
  <2> SUFFICES ASSUME NEW q \in Procs, q # p PROVE Undisturbed(q)
    OBVIOUS
  <2>1. \A f : InUse(f) => content'[f] = content[f] \/ \E k \in Kinds, x \in Nat : Frame(k, p, x) = f
    BY <1>9, <1>11
  <2> QED
    BY <1>10, <1>12, <2>1, UndisturbedIf
<1>15. PlacesUsed' /\ PlacesApart'
  <2>1. ASSUME NEW k \in Kinds, NEW r \in Procs, NEW x \in Nat, Frame(k, r, x)' # None
        PROVE  InUse(Frame(k, r, x))' /\ Frame(k, r, x)' = Frame(k, r, x)
    <3>1. PICK f : f = Frame(k, r, x)'
      OBVIOUS
    <3>2. r # p
      BY <1>12, <2>1, Facts DEF Frame, Kinds, Handing, NoTable, NoMap
    <3>3. f = Frame(k, r, x)
      BY <1>10, <1>12, <3>1, <3>2 DEF Frame, Kinds
    <3>4. InUse(f)
      BY <1>1, <2>1, <3>1, <3>3 DEF PlacesUsed
    <3>5. ~Among(s, f)
      BY <1>1, <1>9, <2>1, <3>1, <3>2, <3>3 DEF PlacesApart
    <3>6. InUse(f)'
      BY <1>11, <3>4, <3>5
    <3>7. InUse(Frame(k, r, x))'
      BY <3>1, <3>6 DEF InUse
    <3> QED
      BY <3>1, <3>3, <3>7
  <2>2. \A k \in Kinds, r \in Procs, x \in Nat : Frame(k, r, x)' # None =>
          InUse(Frame(k, r, x))' /\ Frame(k, r, x)' = Frame(k, r, x)
    BY <2>1
  <2> QED
    BY ONLY <1>1, <2>2 DEF PlacesUsed, PlacesApart
<1>16. ASSUME NEW c \in Cores PROVE CoreOk(c)'
  <2>1. CoreOk(c) /\ (on[c] \in Procs => Undisturbed(on[c]))
    BY <1>1, <1>14 DEF MemoryInv
  <2> QED
    BY <1>10, <2>1 DEF CoreOk, Undisturbed
<1>17. ASSUME NEW q \in Procs, q # p PROVE SpaceOk(q)' /\ FaultOk(q)' /\ ForkOk(q)'
  <2>1. pc[q] \in Forking => child[q] \in Procs /\ child[q] # p
    BY <1>1 DEF MemoryInv, ForkOk
  <2>2. Undisturbed(q) /\ (pc[q] \in Forking => Undisturbed(child[q]))
    BY <1>14, <1>17, <2>1
  <2> QED
    BY <1>10, <2>2, OthersKeep
<1>18. SpaceOk(p)' /\ FaultOk(p)' /\ ForkOk(p)'
  BY <1>12 DEF SpaceOk, FaultOk, ForkOk, Forking, Looping, Live
<1>19. OneParent'
  <2>1. \A q \in Procs : pc'[q] \in Forking => pc[q] \in Forking
    BY <1>12 DEF Forking
  <2> QED
    BY <1>1, <1>10, <2>1 DEF OneParent
<1>20. \A q \in Procs : SpaceOk(q)' /\ FaultOk(q)' /\ ForkOk(q)'
  BY <1>17, <1>18
<1> QED
  BY <1>11, <1>13, <1>15, <1>16, <1>19, <1>20 DEF MemoryInv

\* initSystem() has made the address space of the first process.
LEMMA InitOk == Init => MemoryInv
<1> SUFFICES ASSUME Init PROVE MemoryInv
  OBVIOUS
<1>1. Frames \subseteq Nat \ {0} /\ 1 \in Frames /\ 2 \in Frames
  BY VirtualMemoryAssumption DEF Frames
<1>2. /\ NoMap \in [Entries -> Nat] /\ OnlyApic \in [Entries -> Nat] /\ NoTlb \in [Pages -> Nat]
      /\ NoTable \in [Regions -> Nat] /\ Zero \in [Pages -> Nat]
      /\ [NoTable EXCEPT ![Apic] = 2] \in [Regions -> Nat] /\ None \in Nat
  BY Facts DEF NoMap, OnlyApic, NoTlb, NoTable, Zero
<1>3. MemoryTypes
  <2>1. /\ firstFree \in Seq(Frames) /\ avail \in Nat \ {0} /\ content \in [Frames -> Nat]
        /\ pd \in [Procs -> Nat] /\ pde \in [Procs -> [Regions -> Nat]]
        /\ pte \in [Procs -> [Entries -> Nat]]
    BY <1>2 DEF Init
  <2>2. /\ on \in [Cores -> Procs \cup {Idle}] /\ tlb \in [Cores -> [Pages -> Nat]]
        /\ cr2 \in [Cores -> Nat] /\ savedCr2 \in [Procs -> Nat]
        /\ page \in [Procs -> Nat] /\ pa \in [Procs -> Nat]
    BY <1>2 DEF Init
  <2>3. /\ pc \in [Procs -> Labels]
        /\ child \in [Procs -> Procs \cup {Idle}] /\ panicked \in BOOLEAN
        /\ wanted \in [Procs -> Nat] /\ mem \in [Procs -> [Pages -> Nat]]
    BY <1>2 DEF Init, Labels
  <2> QED
    BY <2>1, <2>2, <2>3 DEF MemoryTypes
<1>4. firstFree = <<>> /\ avail = 3 /\ FreeOk /\ InUse(1) /\ InUse(2)
  BY <1>1 DEF Init, FreeOk, Distinct, InUse, Among
<1>5. \A p \in Procs : pc[p] = (IF p = Root THEN "user" ELSE "none") /\ \A i \in Pages : pte[p][i] = None
  BY Facts DEF Init, NoMap, OnlyApic
<1>6. ASSUME NEW k \in Kinds, NEW p \in Procs, NEW x \in Nat
      PROVE  \/ Frame(k, p, x) = None
             \/ k = "pd" /\ p = Root /\ x = 0 /\ Frame(k, p, x) = 1
             \/ k = "pde" /\ p = Root /\ x = Apic /\ Frame(k, p, x) = 2
  <2>1. CASE k = "pd"
    BY <2>1 DEF Frame, Init
  <2>2. CASE k = "pde"
    BY <2>2 DEF Frame, Init, NoTable
  <2>3. CASE k = "pte"
    BY <1>5, <2>3 DEF Frame
  <2>4. CASE k = "pa"
    BY <1>5, <2>4 DEF Frame, Handing
  <2> QED
    BY <2>1, <2>2, <2>3, <2>4 DEF Kinds
<1>7. PlacesUsed /\ PlacesApart
  <2>1. \A k \in Kinds, p \in Procs, x \in Nat :
          \/ Frame(k, p, x) = None
          \/ k = "pd" /\ p = Root /\ x = 0 /\ Frame(k, p, x) = 1
          \/ k = "pde" /\ p = Root /\ x = Apic /\ Frame(k, p, x) = 2
    BY <1>6
  <2> QED
    BY ONLY <1>4, <2>1 DEF PlacesUsed, PlacesApart
<1>8. OneParent
  BY <1>5 DEF OneParent, Forking
<1>9. \A c \in Cores : CoreOk(c)
  BY Facts DEF Init, CoreOk, NoTlb
<1>10. ASSUME NEW p \in Procs PROVE SpaceOk(p)
  <2>1. pc[p] = "none" => \A k \in Kinds, x \in Nat : Frame(k, p, x) = None
    BY <1>5, <1>6
  <2>2. pc[p] # "none" => pd[p] # None
    BY <1>5, Facts DEF Init
  <2>3. \A i \in Pages : mem[p][i] = 0 /\ Value(p, i) = 0
    BY <1>5 DEF Init, Zero, Value
  <2> QED
    BY <1>5, <2>1, <2>2, <2>3 DEF SpaceOk
<1>11. \A p \in Procs : FaultOk(p) /\ ForkOk(p)
  BY <1>5 DEF FaultOk, ForkOk, Forking, Looping
<1> QED
  BY <1>3, <1>4, <1>7, <1>8, <1>9, <1>10, <1>11 DEF MemoryInv

\* Every step keeps the invariant.
LEMMA NextOk == MemoryInv /\ [Next]_vars => MemoryInv'
<1> SUFFICES ASSUME MemoryInv, [Next]_vars PROVE MemoryInv'
  OBVIOUS
<1>1. CASE UNCHANGED vars
  <2>1. panicked' \in BOOLEAN
    BY <1>1 DEF vars, MemoryInv, MemoryTypes
  <2> QED
    BY <1>1, <2>1, PanicKeeps DEF vars, frameVars, tableVars, coreVars
<1>2. ASSUME NEW c \in Cores, NEW p \in Procs \cup {Idle}, ContextSwitch(c, p) PROVE MemoryInv'
  BY <1>2, SwitchKeeps
<1>3. ASSUME NEW p \in Procs,
             \/ \E i \in Pages, v \in Values : Store(p, i, v)
             \/ \E i \in Pages : PageFault(p, i)
             \/ Fault(p)
             \/ \E q \in Procs : Fork(p, q)
             \/ ForkStep(p)
             \/ Execl(p)
             \/ ExeclStep(p)
             \/ Exit(p)
             \/ DeletePd(p)
             \/ OutOfFrames(p)
      PROVE  MemoryInv'
  <2>1. CASE \E i \in Pages, v \in Values : Store(p, i, v)
    BY <2>1, StoreKeeps
  <2>2. CASE \E i \in Pages : PageFault(p, i)
    BY <2>2, PageFaultKeeps
  <2>3. CASE Fault(p)
    BY <2>3, FaultReadKeeps, FaultAllocKeeps, FaultMapKeeps DEF Fault
  <2>4. CASE \E q \in Procs : Fork(p, q)
    BY <2>4, ForkKeeps
  <2>5. CASE ForkStep(p)
    <3>1. \A i \in Entries : ForkAlloc(p, i) => i \in Pages
      BY RemainingIs DEF ForkAlloc, IsNext
    <3> QED
      BY <2>5, <3>1, ForkApicKeeps, ForkAllocKeeps, ForkMapKeeps, ForkCopyKeeps, ForkDoneKeeps
      DEF ForkStep
  <2>6. CASE Execl(p) \/ Exit(p) \/ ExeclDone(p)
    BY <2>6, CallsKeep
  <2>7. CASE ExeclStep(p)
    <3>1. \A i \in Entries : ExeclClear(p, i) => i \in Pages
      BY RemainingIs DEF ExeclClear, IsNext
    <3> QED
      BY <2>6, <2>7, <3>1, ClearKeeps, FreeKeeps, FlushKeeps DEF ExeclStep
  <2>8. CASE DeletePd(p)
    BY <2>8, DeleteKeeps
  <2>9. CASE OutOfFrames(p)
    <3>1. panicked' \in BOOLEAN
      BY <2>9 DEF OutOfFrames
    <3> QED
      BY <2>9, <3>1, PanicKeeps DEF OutOfFrames, frameVars, tableVars, coreVars
  <2> QED
    BY <1>3, <2>1, <2>2, <2>3, <2>4, <2>5, <2>6, <2>7, <2>8, <2>9
<1> QED
  BY <1>1, <1>2, <1>3 DEF Next

\* In every state that stores, faults, fork, execl, exit and context switches reach on any
\* number of cores, the frames, the tables, the TLBs and the pending faults agree.
THEOREM MemoryInvariant == Spec => []MemoryInv
<1>1. Init => MemoryInv
  BY InitOk
<1>2. MemoryInv /\ [Next]_vars => MemoryInv'
  BY NextOk
<1> QED
  BY <1>1, <1>2, PTL DEF Spec

\* No core translates an address with an entry that the page table of its process no longer
\* has, except inside execl between the clearing of the entry and invlpg.
THEOREM TlbIsTrue == Spec => []TlbCoherent
<1>1. MemoryInv => TlbCoherent
  BY DEF MemoryInv, CoreOk, TlbCoherent
<1> QED
  BY <1>1, MemoryInvariant, PTL

\* The handler maps the page that faulted, although CR2 belongs to the core and the process can
\* be preempted before it reads it.
THEOREM FaultIsServed == Spec => []FaultServed
<1>1. MemoryInv => FaultServed
  BY DEF MemoryInv, FaultOk, FaultServed
<1> QED
  BY <1>1, MemoryInvariant, PTL

\* The page table of p maps the two APICs.
HasApic(p) == \A i \in ApicPages : pte[p][i] = Device(i)

\* A process that can run, and one that fork has got to the loop for, has them.
ApicInv ==
  \A p \in Procs : (pc[p] \in Live => HasApic(p)) /\ (pc[p] \in Looping => HasApic(child[p]))

\* A step that changes no entry of the APICs, and brings no process to life.
LEMMA ApicQuiet ==
  ASSUME MemoryInv, ApicInv,
         \A q \in Procs, i \in ApicPages : pte'[q][i] = pte[q][i],
         \A q \in Procs : /\ pc'[q] \in Live => pc[q] \in Live
                          /\ pc'[q] \in Looping => pc[q] \in Looping /\ child'[q] = child[q]
  PROVE  ApicInv'
<1> SUFFICES ASSUME NEW q \in Procs
             PROVE  /\ pc'[q] \in Live => \A i \in ApicPages : pte'[q][i] = Device(i)
                    /\ pc'[q] \in Looping => \A i \in ApicPages : pte'[child'[q]][i] = Device(i)
  BY DEF ApicInv, HasApic, Live, Labels, Looping
<1>1. pc'[q] \in Live => \A i \in ApicPages : pte'[q][i] = Device(i)
  BY DEF ApicInv, HasApic
<1>2. ASSUME pc'[q] \in Looping PROVE \A i \in ApicPages : pte'[child'[q]][i] = Device(i)
  <2>1. pc[q] \in Looping /\ child'[q] = child[q]
    BY <1>2
  <2>2. child[q] \in Procs
    BY <2>1 DEF MemoryInv, ForkOk, Forking, Looping
  <2> QED
    BY <2>1, <2>2 DEF ApicInv, HasApic
<1> QED
  BY <1>1, <1>2

\* map(), and the clearing of the entry of a page, leave the entries of the APICs.
LEMMA ApicEntries ==
  ASSUME MemoryTypes, NEW q \in Procs, NEW j \in Pages, NEW f, pte' = [pte EXCEPT ![q][j] = f]
  PROVE  \A r \in Procs, i \in ApicPages : pte'[r][i] = pte[r][i]
  BY Facts DEF MemoryTypes

\* No step takes the APICs from an address space: the loops of fork and execl skip them.
LEMMA ApicStays == MemoryInv /\ ApicInv /\ [Next]_vars => ApicInv'
<1> SUFFICES ASSUME MemoryInv, ApicInv, [Next]_vars PROVE ApicInv'
  OBVIOUS
<1> USE DEF Live, Labels, Looping
<1>1. MemoryTypes
  BY DEF MemoryInv
<1>2. CASE UNCHANGED vars
  BY <1>2, ApicQuiet DEF vars, tableVars
<1>3. ASSUME NEW c \in Cores, NEW p \in Procs \cup {Idle}, ContextSwitch(c, p) PROVE ApicInv'
  BY <1>3, ApicQuiet DEF ContextSwitch, tableVars
<1>4. ASSUME NEW p \in Procs,
             \/ \E i \in Pages, v \in Values : Store(p, i, v)
             \/ \E i \in Pages : PageFault(p, i)
             \/ FaultReadCr2(p)
             \/ FaultAlloc(p)
             \/ \E i \in Entries : ForkAlloc(p, i)
             \/ ForkCopy(p)
             \/ Execl(p)
             \/ ExeclFree(p)
             \/ ExeclFlush(p)
             \/ ExeclDone(p)
             \/ Exit(p)
             \/ OutOfFrames(p)
      PROVE  ApicInv'
  <2>1. pte' = pte /\ child' = child
    BY <1>4 DEF Store, PageFault, FaultReadCr2, FaultAlloc, ForkAlloc, ForkCopy, Execl, ExeclFree,
                ExeclFlush, ExeclDone, Exit, OutOfFrames, tableVars
  <2>2. \/ pc' = pc
        \/ /\ \E l \in Live \cup {"exited"} : pc' = [pc EXCEPT ![p] = l] /\ (l \in Looping => pc[p] \in Looping)
           /\ pc[p] \in Live
    BY <1>4 DEF Store, PageFault, FaultReadCr2, FaultAlloc, ForkAlloc, ForkCopy, Execl, ExeclFree,
                ExeclFlush, ExeclDone, Exit, OutOfFrames, At
  <2> QED
    BY <1>1, <2>1, <2>2, ApicQuiet DEF MemoryTypes
<1>5. ASSUME NEW p \in Procs, NEW q \in Procs, Fork(p, q) PROVE ApicInv'
  <2>1. /\ pte' = pte /\ child' = [child EXCEPT ![p] = q]
        /\ pc' = [pc EXCEPT ![p] = "forkApic", ![q] = "embryo"] /\ pc[p] = "user" /\ pc[q] = "none"
    BY <1>5 DEF Fork
  <2> QED
    BY <1>1, <2>1, ApicQuiet DEF MemoryTypes
<1>6. ASSUME NEW p \in Procs, FaultMap(p) PROVE ApicInv'
  <2>1. /\ pte' = [pte EXCEPT ![p][page[p]] = pa[p]] /\ child' = child
        /\ pc' = [pc EXCEPT ![p] = "user"] /\ pc[p] = "faultMap"
    BY <1>6 DEF FaultMap, Map, At
  <2>2. page[p] \in Pages
    BY <2>1 DEF MemoryInv, FaultOk
  <2>3. \A r \in Procs, i \in ApicPages : pte'[r][i] = pte[r][i]
    BY <1>1, <2>1, <2>2, ApicEntries
  <2> QED
    BY <1>1, <2>1, <2>3, ApicQuiet DEF MemoryTypes
<1>7. ASSUME NEW p \in Procs, ForkMap(p) PROVE ApicInv'
  <2>1. /\ pte' = [pte EXCEPT ![child[p]][page[p]] = pa[p]] /\ child' = child
        /\ pc' = [pc EXCEPT ![p] = "forkCopy"] /\ pc[p] = "forkMap"
    BY <1>7 DEF ForkMap, Map, At
  <2>2. page[p] \in Pages /\ child[p] \in Procs
    BY <2>1 DEF MemoryInv, ForkOk, Forking
  <2>3. \A r \in Procs, i \in ApicPages : pte'[r][i] = pte[r][i]
    BY <1>1, <2>1, <2>2, ApicEntries
  <2> QED
    BY <1>1, <2>1, <2>3, ApicQuiet DEF MemoryTypes
<1>8. ASSUME NEW p \in Procs, NEW j \in Entries, ExeclClear(p, j) PROVE ApicInv'
  <2>1. /\ pte' = [pte EXCEPT ![p][j] = None] /\ child' = child /\ j \in Pages
        /\ pc' = [pc EXCEPT ![p] = "execFree"] /\ pc[p] = "execNext"
    BY <1>8, RemainingIs DEF ExeclClear, IsNext, At
  <2>2. \A r \in Procs, i \in ApicPages : pte'[r][i] = pte[r][i]
    BY <1>1, <2>1, ApicEntries
  <2> QED
    BY <1>1, <2>1, <2>2, ApicQuiet DEF MemoryTypes
<1>9. ASSUME NEW p \in Procs, ForkApic(p) PROVE ApicInv'
  <2>1. PICK e \in Procs : e = child[p] /\ pc[e] = "embryo"
    BY <1>9 DEF ForkApic, At, MemoryInv, ForkOk, Forking
  <2>2. /\ pte' = [pte EXCEPT ![e] = OnlyApic] /\ child' = child
        /\ pc' = [pc EXCEPT ![p] = "forkNext"] /\ pc[p] = "forkApic"
    BY <1>9, <2>1 DEF ForkApic, At
  <2>3. \A i \in ApicPages : pte'[e][i] = Device(i)
    BY <1>1, <2>2, Facts DEF OnlyApic, MemoryTypes
  <2>4. \A q \in Procs : q # e => pte'[q] = pte[q]
    BY <1>1, <2>2 DEF MemoryTypes
  <2>5. \A q \in Procs : pc[q] \in Looping => child[q] \in Procs
    BY DEF MemoryInv, ForkOk, Forking
  <2>6. /\ pc'[p] = "forkNext" /\ pc'[e] = "embryo"
        /\ \A q \in Procs : q # p => pc'[q] = pc[q]
    BY <1>1, <2>1, <2>2 DEF MemoryTypes
  <2>7. ASSUME NEW q \in Procs, pc'[q] \in Live PROVE \A i \in ApicPages : pte'[q][i] = Device(i)
    BY <2>2, <2>4, <2>6, <2>7 DEF ApicInv, HasApic
  <2>8. ASSUME NEW q \in Procs, pc'[q] \in Looping
        PROVE  \A i \in ApicPages : pte'[child'[q]][i] = Device(i)
    <3>1. CASE child[q] = e
      BY <2>2, <2>3, <3>1
    <3>2. CASE child[q] # e
      BY <2>1, <2>2, <2>4, <2>5, <2>6, <2>8, <3>2 DEF ApicInv, HasApic
    <3> QED
      BY <3>1, <3>2
  <2> QED
    BY <2>7, <2>8 DEF ApicInv, HasApic
<1>10. ASSUME NEW p \in Procs, ForkDone(p) PROVE ApicInv'
  <2>1. PICK e \in Procs : e = child[p] /\ pc[e] = "embryo"
    BY <1>10 DEF ForkDone, MemoryInv, ForkOk, Forking
  <2>2. /\ pte' = pte /\ child' = [child EXCEPT ![p] = Idle]
        /\ pc' = [pc EXCEPT ![p] = "user", ![e] = "user"] /\ pc[p] = "forkNext"
    BY <1>10, <2>1 DEF ForkDone, tableVars
  <2>3. /\ pc'[p] = "user" /\ pc'[e] = "user"
        /\ \A q \in Procs : q # p => child'[q] = child[q]
        /\ \A q \in Procs : q # p /\ q # e => pc'[q] = pc[q]
    BY <1>1, <2>1, <2>2 DEF MemoryTypes
  <2>4. HasApic(e) /\ HasApic(p)
    BY <2>1, <2>2 DEF ApicInv
  <2>5. ASSUME NEW q \in Procs, pc'[q] \in Live PROVE \A i \in ApicPages : pte'[q][i] = Device(i)
    BY <2>2, <2>3, <2>4, <2>5 DEF ApicInv, HasApic
  <2>6. ASSUME NEW q \in Procs, pc'[q] \in Looping
        PROVE  \A i \in ApicPages : pte'[child'[q]][i] = Device(i)
    BY <2>2, <2>3, <2>6 DEF ApicInv, HasApic
  <2> QED
    BY <2>5, <2>6 DEF ApicInv, HasApic
<1>11. ASSUME NEW p \in Procs, DeletePd(p) PROVE ApicInv'
  <2>1. /\ pte' = [pte EXCEPT ![p] = NoMap] /\ child' = child
        /\ pc' = [pc EXCEPT ![p] = "deleted"] /\ pc[p] = "exited"
    BY <1>11 DEF DeletePd
  <2>2. /\ pc'[p] = "deleted"
        /\ \A q \in Procs : q # p => pte'[q] = pte[q] /\ pc'[q] = pc[q]
    BY <1>1, <2>1 DEF MemoryTypes
  <2>3. \A q \in Procs : pc[q] \in Looping => child[q] \in Procs /\ child[q] # p
    BY <2>1 DEF MemoryInv, ForkOk, Forking
  <2>4. ASSUME NEW q \in Procs, pc'[q] \in Live PROVE \A i \in ApicPages : pte'[q][i] = Device(i)
    BY <2>2, <2>4 DEF ApicInv, HasApic
  <2>5. ASSUME NEW q \in Procs, pc'[q] \in Looping
        PROVE  \A i \in ApicPages : pte'[child'[q]][i] = Device(i)
    BY <2>1, <2>2, <2>3, <2>5 DEF ApicInv, HasApic
  <2> QED
    BY <2>4, <2>5 DEF ApicInv, HasApic
<1> QED
  BY <1>2, <1>3, <1>4, <1>5, <1>6, <1>7, <1>8, <1>9, <1>10, <1>11 DEF Next, Fault, ForkStep, ExeclStep

\* A process reads in each page what it wrote there, or what its parent had at fork: no other
\* process and no reuse of a frame changes it.
THEOREM MemoryIsPrivate == Spec => []MemoryIsOwn
<1>1. MemoryInv /\ ApicInv => MemoryIsOwn
  BY DEF MemoryInv, MemoryTypes, SpaceOk, MemoryIsOwn, Value, Live, ApicInv, HasApic
<1>2. Init => ApicInv
  BY DEF Init, ApicInv, HasApic, Live, Labels, Looping, OnlyApic, Entries
<1>3. MemoryInv /\ ApicInv /\ [Next]_vars => ApicInv'
  BY ApicStays
<1> QED
  BY <1>1, <1>2, <1>3, MemoryInvariant, PTL DEF Spec

\* The uses of f are one at most, and none while it is in the hands of a process.
LEMMA UsesAre ==
  ASSUME MemoryInv, NEW f \in Frames
  PROVE  /\ \A u, v \in Uses(f) : u = v
         /\ \A p, q \in InHand(f) : p = q
         /\ InHand(f) # {} => Uses(f) = {}
<1>1. FreeOk /\ PlacesUsed /\ PlacesApart /\ f # None /\ MemoryTypes
  BY Facts DEF MemoryInv
<1>2. ASSUME NEW u \in Uses(f)
      PROVE  \/ \E k \in DOMAIN firstFree : u = <<"free", k>> /\ firstFree[k] = f
             \/ u = <<"unused", f>> /\ f >= avail
             \/ \E p \in Procs : u = <<"directory", p>> /\ Frame("pd", p, 0) = f
             \/ \E p \in Procs, x \in Regions : u = <<"table", <<p, x>>>> /\ Frame("pde", p, x) = f
             \/ \E p \in Procs, i \in Pages : u = <<"page", <<p, i>>>> /\ Frame("pte", p, i) = f
  <2>1. CASE u \in {"free"} \X {k \in DOMAIN firstFree : firstFree[k] = f}
    BY <2>1
  <2>2. CASE u \in {"unused"} \X {g \in {f} : g >= avail}
    BY <2>2
  <2>3. CASE u \in {"directory"} \X {p \in Procs : pd[p] = f}
    BY <2>3 DEF Frame
  <2>4. CASE u \in {"table"} \X {x \in Procs \X Regions : pde[x[1]][x[2]] = f}
    BY <2>4 DEF Frame
  <2>5. CASE u \in {"page"} \X {x \in Procs \X Pages : pte[x[1]][x[2]] = f}
    BY <2>5 DEF Frame
  <2> QED
    BY <2>1, <2>2, <2>3, <2>4, <2>5 DEF Uses
<1>3. "pd" \in Kinds /\ "pde" \in Kinds /\ "pte" \in Kinds /\ "pa" \in Kinds /\ 0 \in Nat
      /\ Pages \subseteq Nat /\ Regions \subseteq Nat
  BY Facts DEF Kinds
<1>4. ASSUME NEW k \in Kinds, NEW p \in Procs, NEW x \in Nat, Frame(k, p, x) = f
      PROVE  f < avail /\ ~\E j \in DOMAIN firstFree : firstFree[j] = f
  BY <1>1, <1>4 DEF PlacesUsed, InUse, Among
<1>5. ASSUME NEW j \in DOMAIN firstFree, firstFree[j] = f PROVE f < avail
  BY <1>1, <1>5 DEF FreeOk
<1>6. avail \in Nat /\ f \in Nat
  BY <1>1, Facts DEF MemoryTypes
<1>7. \A u, v \in Uses(f) : u = v
  <2> SUFFICES ASSUME NEW u \in Uses(f), NEW v \in Uses(f) PROVE u = v
    OBVIOUS
  <2>1. CASE \E k \in DOMAIN firstFree : u = <<"free", k>> /\ firstFree[k] = f
    BY <1>1, <1>2, <1>3, <1>4, <1>5, <1>6, <2>1 DEF FreeOk, Distinct
  <2>2. CASE u = <<"unused", f>> /\ f >= avail
    BY <1>2, <1>3, <1>4, <1>5, <1>6, <2>2
  <2>3. CASE \E p \in Procs : u = <<"directory", p>> /\ Frame("pd", p, 0) = f
    BY <1>1, <1>2, <1>3, <1>4, <1>6, <2>3 DEF PlacesApart
  <2>4. CASE \E p \in Procs, x \in Regions : u = <<"table", <<p, x>>>> /\ Frame("pde", p, x) = f
    BY <1>1, <1>2, <1>3, <1>4, <1>6, <2>4 DEF PlacesApart
  <2>5. CASE \E p \in Procs, i \in Pages : u = <<"page", <<p, i>>>> /\ Frame("pte", p, i) = f
    BY <1>1, <1>2, <1>3, <1>4, <1>6, <2>5 DEF PlacesApart
  <2> QED
    BY <1>2, <2>1, <2>2, <2>3, <2>4, <2>5
<1>8. \A p \in InHand(f) : p \in Procs /\ Frame("pa", p, 0) = f
  BY DEF InHand, Frame, Handing
<1>9. \A p, q \in InHand(f) : p = q
  BY <1>1, <1>3, <1>8 DEF PlacesApart
<1>10. ASSUME NEW p \in InHand(f), NEW u \in Uses(f) PROVE FALSE
  BY <1>1, <1>2, <1>3, <1>4, <1>6, <1>8 DEF PlacesApart
<1> QED
  BY <1>7, <1>9, <1>10

\* A frame is free, or never used, or one directory, or one page table, or one page, or in the
\* hands of one call: alloc_frame() never gives out a frame twice and nothing is freed twice.
THEOREM FramesHaveOneUse == Spec => []FrameExclusive
<1>1. ASSUME MemoryInv PROVE FrameExclusive
  <2> SUFFICES ASSUME NEW f \in Frames PROVE Cardinality(Uses(f)) + Cardinality(InHand(f)) <= 1
    BY <1>1 DEF FrameExclusive, MemoryInv, MemoryTypes
  <2>1. /\ \A u, v \in Uses(f) : u = v
        /\ \A p, q \in InHand(f) : p = q
        /\ InHand(f) # {} => Uses(f) = {}
    BY <1>1, UsesAre
  <2>2. ASSUME NEW S, \A u, v \in S : u = v
        PROVE  Cardinality(S) = 0 \/ (Cardinality(S) = 1 /\ S # {})
    <3>1. CASE S = {}
      BY <3>1, FS_EmptySet
    <3>2. CASE S # {}
      <4>1. PICK u : u \in S
        BY <3>2
      <4>2. S = {u}
        BY <2>2, <4>1
      <4> QED
        BY <3>2, <4>2, FS_Singleton
    <3> QED
      BY <3>1, <3>2
  <2>3. Cardinality(Uses(f)) = 0 \/ (Cardinality(Uses(f)) = 1 /\ Uses(f) # {})
    BY <2>1, <2>2
  <2>4. Cardinality(InHand(f)) = 0 \/ (Cardinality(InHand(f)) = 1 /\ InHand(f) # {})
    BY <2>1, <2>2
  <2>5. InHand(f) # {} => Cardinality(Uses(f)) = 0
    BY <2>1, FS_EmptySet
  <2> QED
    BY <2>3, <2>4, <2>5
<1> QED
  BY <1>1, MemoryInvariant, PTL
=============================================================================
