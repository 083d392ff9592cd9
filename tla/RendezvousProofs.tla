--------------------------- MODULE RendezvousProofs ---------------------------
(***************************************************************************)
(* The theorems about the places where threads or processors wait for each *)
(* other: Boot, ReusableBarrier with Condition, Barrier and BoundedBuffer. *)
(* MCRendezvous holds all four and they share nothing, so that each part   *)
(* has an inductive invariant of its own; a step of another component      *)
(* leaves its variables alone.                                             *)
(***************************************************************************)
EXTENDS MCRendezvous, Integers, TLAPS, FiniteSetTheorems, FunctionTheorems, SequenceTheorems

-----------------------------------------------------------------------------
(* Boot *)

\* Where the first processor is before it has counted itself.
Early == {"reset", "enter", "globals", "lapic", "first"}

\* Where a processor is once the first one has done with it.
Booted == {"mask", "keyboard", "arrive", "main", "stop"}

\* Processors 1..k-1 have counted themselves, those from l on are still off.
Woken(k, l) ==
  \A c \in Start!Cores \ {0} :
    /\ c < k => pcBoot[c] \in Booted
    /\ c >= l => pcBoot[c] = "off"

\* The processors are woken one after the other: what has been counted at each
\* place of the first one.
BootOrder ==
  \/ pcBoot[0] \in Early /\ nextId = 1 /\ running = 0 /\ Woken(1, 1)
  \/ pcBoot[0] = "wake" /\ running = nextId /\ Woken(nextId, nextId)
  \/ /\ pcBoot[0] = "await" /\ nextId < totalProcs /\ Woken(nextId, nextId + 1)
     /\ \/ /\ running = nextId
           /\ nextId \in Start!Cores => pcBoot[nextId] \in {"reset", "enter", "count"}
        \/ running = nextId + 1 /\ nextId \in Start!Cores /\ pcBoot[nextId] \in Booted
  \/ /\ pcBoot[0] \in {"keyboard", "arrive", "main", "stop"}
     /\ running = nextId /\ nextId = totalProcs /\ Woken(nextId, nextId)

\* Labels and the ranges of the fields.
BootTypes ==
  /\ pcBoot \in [Start!Cores -> Early \cup Booted \cup {"off", "count", "wake", "await"}]
  /\ Start!TypeOK
  /\ globals \in Nat /\ mains \in Nat

\* What the first processor sets up, and when.
BootGlobals ==
  /\ smpInitDone <=> pcBoot[0] \notin {"reset", "enter", "globals", "lapic"}
  /\ globals = (IF pcBoot[0] \in {"reset", "enter", "globals"} THEN 0 ELSE 1)
  /\ totalProcs = (IF globals = 0 THEN 0 ELSE Start!CountProcs)

\* mbr.S: a processor that has left the reset vector is on its own stack.
BootStacks == \A c \in Start!Cores : pcBoot[c] \notin {"off", "reset"} => stack[c] = c

\* The processors that have passed the last barrier of kernelInit.
Arrived == {c \in Start!Cores : pcBoot[c] \in {"main", "stop"}}

\* here counts them.
BootArrivals == here = Cardinality(Arrived)

\* Only the last to arrive starts kernelMain.
BootMain ==
  /\ \A c \in Start!Cores : pcBoot[c] = "main" => here = totalProcs /\ mains = 0
  /\ \A c, d \in Start!Cores : pcBoot[c] = "main" /\ pcBoot[d] = "main" => c = d
  /\ mains <= 1
  /\ mains = 1 => globals = 1 /\ here = totalProcs /\ \A c \in Start!Cores : pcBoot[c] # "main"

\* While the keyboard is masked a processor has yet to unmask it.
BootOpen ==
  ~open => \/ pcBoot[0] \in {"first", "wake", "await"}
           \/ \E c \in Start!Cores : pcBoot[c] = "keyboard"

\* The inductive invariant of the boot.
BootInv ==
  /\ BootTypes /\ BootOrder /\ BootGlobals /\ BootStacks /\ BootArrivals
  /\ BootMain /\ BootOpen

\* The library operator that module Boot takes from FiniteSets.
LEMMA SameCardinality ==
  ASSUME NEW S
  PROVE  Start!Cardinality(S) = Cardinality(S)
BY DEF Start!Cardinality, Cardinality

\* The processors are numbered from 0.
LEMMA BootConstants ==
  /\ NumCores \in Nat \ {0}
  /\ 0 \in Start!Cores
  /\ Start!Cores = 0..(NumCores - 1)
BY RendezvousAssumption DEF Start!BootAssumption, Start!Cores

\* config.cc counts the boot processor whatever the table says.
LEMMA CountProcsPositive ==
  ASSUME table \in Tables
  PROVE  Start!CountProcs \in Nat \ {0}
<1> DEFINE Others == {k \in DOMAIN Start!Seen :
                        Start!Seen[k].type = "apic" /\ Start!Seen[k].processorId # 0}
<1>1. Start!Seen \in Seq(Start!Entries)
  BY RendezvousAssumption DEF Start!BootAssumption, Start!Seen
<1>2. DOMAIN Start!Seen = 1..Len(Start!Seen) /\ Len(Start!Seen) \in Nat
  BY <1>1
<1>3. IsFiniteSet(DOMAIN Start!Seen)
  BY <1>2, FS_Interval
<1>4. Cardinality(Others) \in Nat
  BY <1>3, FS_Subset, FS_CardinalityType
<1> QED
  BY <1>4, SameCardinality DEF Start!CountProcs

\* Which processor can be at which place.
LEMMA BootWhere ==
  ASSUME BootTypes, BootOrder, NEW c \in Start!Cores
  PROVE  /\ pcBoot[c] \in {"globals", "lapic", "first", "wake", "await"} => c = 0
         /\ pcBoot[c] \in {"reset", "enter"} => c = 0 \/ (c = nextId /\ pcBoot[0] = "await")
         /\ pcBoot[c] \in {"count", "mask"} => c # 0
         /\ pcBoot[c] = "count" => c = nextId /\ pcBoot[0] = "await"
         /\ c # 0 /\ pcBoot[c] # "off" => pcBoot[0] \notin Early
<1> USE BootConstants DEF BootTypes, Woken, Early, Booted
<1>1. CASE c = 0
  BY <1>1 DEF BootOrder
<1>2. CASE c # 0 /\ pcBoot[0] \in Early /\ Woken(1, 1)
  BY <1>2
<1>3. CASE c # 0 /\ Woken(nextId, nextId) /\ pcBoot[0] \notin Early
  <2>1. c < nextId \/ c >= nextId
    BY DEF Start!TypeOK
  <2>2. pcBoot[c] \in Booted \cup {"off"}
    BY <1>3, <2>1
  <2> QED
    BY <1>3, <2>2
<1>4. CASE /\ c # 0 /\ pcBoot[0] = "await" /\ Woken(nextId, nextId + 1)
           /\ nextId \in Start!Cores =>
                pcBoot[nextId] \in {"reset", "enter", "count"} \cup Booted
  <2>1. c < nextId \/ c = nextId \/ c >= nextId + 1
    BY DEF Start!TypeOK
  <2>2. \/ pcBoot[c] \in Booted \cup {"off"}
        \/ c = nextId /\ pcBoot[c] \in {"reset", "enter", "count"}
    BY <1>4, <2>1
  <2> QED
    BY <1>4, <2>2
<1> QED
  BY <1>1, <1>2, <1>3, <1>4 DEF BootOrder

\* The first processor leaves reset, the others are off.
LEMMA BootInitially == Init => BootInv
<1> SUFFICES ASSUME Init PROVE BootInv
  OBVIOUS
<1> USE BootConstants DEF Init, Start!Init
<1>1. BootTypes
  <2>1. pcBoot \in [Start!Cores -> Early \cup Booted \cup {"off", "count", "wake", "await"}]
    BY DEF Early
  <2>2. stack \in [Start!Cores -> 0..NumCores]
    OBVIOUS
  <2>3. totalProcs \in Nat /\ nextId \in 1..(IF totalProcs = 0 THEN 1 ELSE totalProcs)
    OBVIOUS
  <2>4. running \in 0..NumCores /\ here \in 0..running /\ globals \in Nat /\ mains \in Nat
    OBVIOUS
  <2>5. table \in Tables /\ smpInitDone \in BOOLEAN /\ open \in BOOLEAN
    OBVIOUS
  <2> QED
    BY <2>1, <2>2, <2>3, <2>4, <2>5 DEF BootTypes, Start!TypeOK
<1>2. BootOrder
  BY DEF BootOrder, Woken, Early
<1>3. BootGlobals
  BY DEF BootGlobals
<1>4. BootStacks /\ BootMain /\ BootOpen
  BY DEF BootStacks, BootMain, BootOpen
<1>5. BootArrivals
  <2>1. Arrived = {}
    BY DEF Arrived
  <2> QED
    BY <2>1, FS_EmptySet DEF BootArrivals
<1> QED
  BY <1>1, <1>2, <1>3, <1>4, <1>5 DEF BootInv

\* mbr.S: the stack is picked, on the first processor or on the one being woken.
LEMMA PickStackBoots ==
  ASSUME BootInv, NEW c \in Start!Cores, Start!PickStack(c)
  PROVE  BootInv'
<1> USE BootConstants DEF BootInv, BootTypes, Start!PickStack, Start!Goto
<1>1. \/ c = 0 /\ pcBoot[0] \in Early /\ nextId = 1 /\ running = 0 /\ Woken(1, 1)
      \/ c # 0 /\ c = nextId /\ pcBoot[0] = "await" /\ running = nextId
         /\ nextId < totalProcs /\ Woken(nextId, nextId + 1)
  BY BootWhere, CountProcsPositive DEF BootOrder, BootGlobals, Start!TypeOK, Early, Booted
<1>2. BootTypes'
  <2>1. pcBoot' \in [Start!Cores -> Early \cup Booted \cup {"off", "count", "wake", "await"}]
    BY DEF Early, Booted
  <2>2. Start!TypeOK'
    BY <1>1, CountProcsPositive DEF Start!TypeOK, BootGlobals, Early
  <2> QED
    BY <2>1, <2>2
<1>3. BootOrder'
  BY <1>1 DEF BootOrder, Woken, Early, Booted, BootGlobals, Start!TypeOK
<1>4. BootGlobals'
  <2>1. Start!CountProcs' = Start!CountProcs
    BY DEF Start!CountProcs, Start!Seen
  <2> QED
    BY <1>1, <2>1 DEF BootGlobals, Early, Start!TypeOK
<1>5. BootStacks'
  BY <1>1 DEF BootStacks, BootGlobals, Early, Booted, Woken, Start!TypeOK
<1>6. BootArrivals'
  <2>1. Arrived' = Arrived
    BY <1>1 DEF Arrived, Early, Booted, Woken
  <2> QED
    BY <2>1 DEF BootArrivals
<1>7. BootMain'
  BY <1>1, <1>4 DEF BootMain, BootGlobals, Early, Booted, Woken, Start!TypeOK
<1>8. BootOpen'
  BY <1>1 DEF BootOpen, Early, Booted, Woken
<1> QED
  BY <1>2, <1>3, <1>4, <1>5, <1>6, <1>7, <1>8

\* kernelInit begins, on the first processor or on the one being woken.
LEMMA EnterBoots ==
  ASSUME BootInv, NEW c \in Start!Cores, Start!Enter(c)
  PROVE  BootInv'
<1> USE BootConstants DEF BootInv, BootTypes, Start!Enter, Start!Goto
<1>1. \/ c = 0 /\ pcBoot[0] \in Early /\ nextId = 1 /\ running = 0 /\ Woken(1, 1)
      \/ c # 0 /\ c = nextId /\ pcBoot[0] = "await" /\ running = nextId
         /\ nextId < totalProcs /\ Woken(nextId, nextId + 1)
  BY BootWhere, CountProcsPositive DEF BootOrder, BootGlobals, Start!TypeOK, Early, Booted
<1>2. BootTypes'
  <2>1. pcBoot' \in [Start!Cores -> Early \cup Booted \cup {"off", "count", "wake", "await"}]
    BY DEF Early, Booted
  <2>2. Start!TypeOK'
    BY <1>1, CountProcsPositive DEF Start!TypeOK, BootGlobals, Early
  <2> QED
    BY <2>1, <2>2
<1>3. BootOrder'
  BY <1>1 DEF BootOrder, Woken, Early, Booted, BootGlobals, Start!TypeOK
<1>4. BootGlobals'
  <2>1. Start!CountProcs' = Start!CountProcs
    BY DEF Start!CountProcs, Start!Seen
  <2> QED
    BY <1>1, <2>1 DEF BootGlobals, Early, Start!TypeOK
<1>5. BootStacks'
  BY <1>1 DEF BootStacks, BootGlobals, Early, Booted, Woken, Start!TypeOK
<1>6. BootArrivals'
  <2>1. Arrived' = Arrived
    BY <1>1 DEF Arrived, Early, Booted, Woken
  <2> QED
    BY <2>1 DEF BootArrivals
<1>7. BootMain'
  BY <1>1, <1>4 DEF BootMain, BootGlobals, Early, Booted, Woken, Start!TypeOK
<1>8. BootOpen'
  BY <1>1 DEF BootOpen, Early, Booted, Woken
<1> QED
  BY <1>2, <1>3, <1>4, <1>5, <1>6, <1>7, <1>8

\* The first processor sets up the globals and counts the table.
LEMMA InitGlobalsBoots ==
  ASSUME BootInv, NEW c \in Start!Cores, Start!InitGlobals(c)
  PROVE  BootInv'
<1> USE BootConstants DEF BootInv, BootTypes, Start!InitGlobals, Start!Goto
<1>1. c = 0 /\ pcBoot[0] \in Early /\ nextId = 1 /\ running = 0 /\ Woken(1, 1)
  BY BootWhere, CountProcsPositive DEF BootOrder, BootGlobals, Start!TypeOK, Early, Booted
<1>2. BootTypes'
  <2>1. pcBoot' \in [Start!Cores -> Early \cup Booted \cup {"off", "count", "wake", "await"}]
    BY DEF Early, Booted
  <2>2. Start!TypeOK'
    BY <1>1, CountProcsPositive DEF Start!TypeOK, BootGlobals, Early
  <2> QED
    BY <2>1, <2>2
<1>3. BootOrder'
  BY <1>1 DEF BootOrder, Woken, Early, Booted, BootGlobals, Start!TypeOK
<1>4. BootGlobals'
  <2>1. Start!CountProcs' = Start!CountProcs
    BY DEF Start!CountProcs, Start!Seen
  <2> QED
    BY <1>1, <2>1 DEF BootGlobals, Early, Start!TypeOK
<1>5. BootStacks'
  BY <1>1 DEF BootStacks, BootGlobals, Early, Booted, Woken, Start!TypeOK
<1>6. BootArrivals'
  <2>1. Arrived' = Arrived
    BY <1>1 DEF Arrived, Early, Booted, Woken
  <2> QED
    BY <2>1 DEF BootArrivals
<1>7. BootMain'
  BY <1>1, <1>4 DEF BootMain, BootGlobals, Early, Booted, Woken, Start!TypeOK
<1>8. BootOpen'
  BY <1>1 DEF BootOpen, Early, Booted, Woken
<1> QED
  BY <1>2, <1>3, <1>4, <1>5, <1>6, <1>7, <1>8

\* The first processor has set up its interrupt controller: the others may follow.
LEMMA InitLapicBoots ==
  ASSUME BootInv, NEW c \in Start!Cores, Start!InitLapic(c)
  PROVE  BootInv'
<1> USE BootConstants DEF BootInv, BootTypes, Start!InitLapic, Start!Goto
<1>1. c = 0 /\ pcBoot[0] \in Early /\ nextId = 1 /\ running = 0 /\ Woken(1, 1)
  BY BootWhere, CountProcsPositive DEF BootOrder, BootGlobals, Start!TypeOK, Early, Booted
<1>2. BootTypes'
  <2>1. pcBoot' \in [Start!Cores -> Early \cup Booted \cup {"off", "count", "wake", "await"}]
    BY DEF Early, Booted
  <2>2. Start!TypeOK'
    BY <1>1, CountProcsPositive DEF Start!TypeOK, BootGlobals, Early
  <2> QED
    BY <2>1, <2>2
<1>3. BootOrder'
  BY <1>1 DEF BootOrder, Woken, Early, Booted, BootGlobals, Start!TypeOK
<1>4. BootGlobals'
  <2>1. Start!CountProcs' = Start!CountProcs
    BY DEF Start!CountProcs, Start!Seen
  <2> QED
    BY <1>1, <2>1 DEF BootGlobals, Early, Start!TypeOK
<1>5. BootStacks'
  BY <1>1 DEF BootStacks, BootGlobals, Early, Booted, Woken, Start!TypeOK
<1>6. BootArrivals'
  <2>1. Arrived' = Arrived
    BY <1>1 DEF Arrived, Early, Booted, Woken
  <2> QED
    BY <2>1 DEF BootArrivals
<1>7. BootMain'
  BY <1>1, <1>4 DEF BootMain, BootGlobals, Early, Booted, Woken, Start!TypeOK
<1>8. BootOpen'
  BY <1>1 DEF BootOpen, Early, Booted, Woken
<1> QED
  BY <1>2, <1>3, <1>4, <1>5, <1>6, <1>7, <1>8

\* The first processor counts itself.
LEMMA CountFirstBoots ==
  ASSUME BootInv, NEW c \in Start!Cores, Start!CountFirst(c)
  PROVE  BootInv'
<1> USE BootConstants DEF BootInv, BootTypes, Start!CountFirst, Start!Goto
<1>1. c = 0 /\ pcBoot[0] \in Early /\ nextId = 1 /\ running = 0 /\ Woken(1, 1)
  BY BootWhere, CountProcsPositive DEF BootOrder, BootGlobals, Start!TypeOK, Early, Booted
<1>2. BootTypes'
  <2>1. pcBoot' \in [Start!Cores -> Early \cup Booted \cup {"off", "count", "wake", "await"}]
    BY DEF Early, Booted
  <2>2. Start!TypeOK'
    BY <1>1, CountProcsPositive DEF Start!TypeOK, BootGlobals, Early
  <2> QED
    BY <2>1, <2>2
<1>3. BootOrder'
  BY <1>1 DEF BootOrder, Woken, Early, Booted, BootGlobals, Start!TypeOK
<1>4. BootGlobals'
  <2>1. Start!CountProcs' = Start!CountProcs
    BY DEF Start!CountProcs, Start!Seen
  <2> QED
    BY <1>1, <2>1 DEF BootGlobals, Early, Start!TypeOK
<1>5. BootStacks'
  BY <1>1 DEF BootStacks, BootGlobals, Early, Booted, Woken, Start!TypeOK
<1>6. BootArrivals'
  <2>1. Arrived' = Arrived
    BY <1>1 DEF Arrived, Early, Booted, Woken
  <2> QED
    BY <2>1 DEF BootArrivals
<1>7. BootMain'
  BY <1>1, <1>4 DEF BootMain, BootGlobals, Early, Booted, Woken, Start!TypeOK
<1>8. BootOpen'
  BY <1>1 DEF BootOpen, Early, Booted, Woken
<1> QED
  BY <1>2, <1>3, <1>4, <1>5, <1>6, <1>7, <1>8

\* The first processor wakes the next.
LEMMA WakeBoots ==
  ASSUME BootInv, NEW c \in Start!Cores, Start!Wake(c)
  PROVE  BootInv'
<1> USE BootConstants DEF BootInv, BootTypes, Start!Wake, Start!Goto
<1>1. c = 0 /\ running = nextId /\ Woken(nextId, nextId)
  BY BootWhere, CountProcsPositive DEF BootOrder, BootGlobals, Start!TypeOK, Early, Booted
<1>2. BootTypes'
  <2>1. pcBoot' \in [Start!Cores -> Early \cup Booted \cup {"off", "count", "wake", "await"}]
    BY DEF Early, Booted
  <2>2. Start!TypeOK'
    BY <1>1, CountProcsPositive DEF Start!TypeOK, BootGlobals, Early
  <2> QED
    BY <2>1, <2>2
<1>3. BootOrder'
  BY <1>1 DEF BootOrder, Woken, Early, Booted, BootGlobals, Start!TypeOK
<1>4. BootGlobals'
  <2>1. Start!CountProcs' = Start!CountProcs
    BY DEF Start!CountProcs, Start!Seen
  <2> QED
    BY <1>1, <2>1 DEF BootGlobals, Early, Start!TypeOK
<1>5. BootStacks'
  BY <1>1 DEF BootStacks, BootGlobals, Early, Booted, Woken, Start!TypeOK
<1>6. BootArrivals'
  <2>1. Arrived' = Arrived
    BY <1>1 DEF Arrived, Early, Booted, Woken
  <2> QED
    BY <2>1 DEF BootArrivals
<1>7. BootMain'
  BY <1>1, <1>4 DEF BootMain, BootGlobals, Early, Booted, Woken, Start!TypeOK
<1>8. BootOpen'
  BY <1>1 DEF BootOpen, Early, Booted, Woken
<1> QED
  BY <1>2, <1>3, <1>4, <1>5, <1>6, <1>7, <1>8

\* The first processor leaves the loop.
LEMMA AllAwakeBoots ==
  ASSUME BootInv, NEW c \in Start!Cores, Start!AllAwake(c)
  PROVE  BootInv'
<1> USE BootConstants DEF BootInv, BootTypes, Start!AllAwake, Start!Goto
<1>1. c = 0 /\ nextId = totalProcs /\ running = nextId /\ Woken(nextId, nextId)
  BY BootWhere, CountProcsPositive DEF BootOrder, BootGlobals, Start!TypeOK, Early, Booted
<1>2. BootTypes'
  <2>1. pcBoot' \in [Start!Cores -> Early \cup Booted \cup {"off", "count", "wake", "await"}]
    BY DEF Early, Booted
  <2>2. Start!TypeOK'
    BY <1>1, CountProcsPositive DEF Start!TypeOK, BootGlobals, Early
  <2> QED
    BY <2>1, <2>2
<1>3. BootOrder'
  BY <1>1 DEF BootOrder, Woken, Early, Booted, BootGlobals, Start!TypeOK
<1>4. BootGlobals'
  <2>1. Start!CountProcs' = Start!CountProcs
    BY DEF Start!CountProcs, Start!Seen
  <2> QED
    BY <1>1, <2>1 DEF BootGlobals, Early, Start!TypeOK
<1>5. BootStacks'
  BY <1>1 DEF BootStacks, BootGlobals, Early, Booted, Woken, Start!TypeOK
<1>6. BootArrivals'
  <2>1. Arrived' = Arrived
    BY <1>1 DEF Arrived, Early, Booted, Woken
  <2> QED
    BY <2>1 DEF BootArrivals
<1>7. BootMain'
  BY <1>1, <1>4 DEF BootMain, BootGlobals, Early, Booted, Woken, Start!TypeOK
<1>8. BootOpen'
  BY <1>1 DEF BootOpen, Early, Booted, Woken
<1> QED
  BY <1>2, <1>3, <1>4, <1>5, <1>6, <1>7, <1>8

\* The first processor has seen the one it woke.
LEMMA AwaitBoots ==
  ASSUME BootInv, NEW c \in Start!Cores, Start!Await(c)
  PROVE  BootInv'
<1> USE BootConstants DEF BootInv, BootTypes, Start!Await, Start!Goto
<1>1. /\ c = 0 /\ running = nextId + 1 /\ nextId < totalProcs /\ Woken(nextId, nextId + 1)
      /\ nextId \in Start!Cores /\ pcBoot[nextId] \in Booted
  BY BootWhere, CountProcsPositive DEF BootOrder, BootGlobals, Start!TypeOK, Early, Booted
<1>2. BootTypes'
  <2>1. pcBoot' \in [Start!Cores -> Early \cup Booted \cup {"off", "count", "wake", "await"}]
    BY DEF Early, Booted
  <2>2. Start!TypeOK'
    <3>1. nextId' \in 1..(IF totalProcs' = 0 THEN 1 ELSE totalProcs')
      BY <1>1 DEF Start!TypeOK
    <3> QED
      BY <3>1 DEF Start!TypeOK
  <2> QED
    BY <2>1, <2>2
<1>3. BootOrder'
  BY <1>1 DEF BootOrder, Woken, Early, Booted, BootGlobals, Start!TypeOK
<1>4. BootGlobals'
  <2>1. Start!CountProcs' = Start!CountProcs
    BY DEF Start!CountProcs, Start!Seen
  <2> QED
    BY <1>1, <2>1 DEF BootGlobals, Early, Start!TypeOK
<1>5. BootStacks'
  BY <1>1 DEF BootStacks, BootGlobals, Early, Booted, Woken, Start!TypeOK
<1>6. BootArrivals'
  <2>1. Arrived' = Arrived
    BY <1>1 DEF Arrived, Early, Booted, Woken
  <2> QED
    BY <2>1 DEF BootArrivals
<1>7. BootMain'
  BY <1>1, <1>4 DEF BootMain, BootGlobals, Early, Booted, Woken, Start!TypeOK
<1>8. BootOpen'
  BY <1>1 DEF BootOpen, Early, Booted, Woken
<1> QED
  BY <1>2, <1>3, <1>4, <1>5, <1>6, <1>7, <1>8

\* The woken processor counts itself.
LEMMA CountSelfBoots ==
  ASSUME BootInv, NEW c \in Start!Cores, Start!CountSelf(c)
  PROVE  BootInv'
<1> USE BootConstants DEF BootInv, BootTypes, Start!CountSelf, Start!Goto
<1>1. /\ c # 0 /\ c = nextId /\ pcBoot[0] = "await" /\ running = nextId
      /\ nextId < totalProcs /\ Woken(nextId, nextId + 1)
  BY BootWhere, CountProcsPositive DEF BootOrder, BootGlobals, Start!TypeOK, Early, Booted
<1>2. BootTypes'
  <2>1. pcBoot' \in [Start!Cores -> Early \cup Booted \cup {"off", "count", "wake", "await"}]
    BY DEF Early, Booted
  <2>2. Start!TypeOK'
    BY <1>1, CountProcsPositive DEF Start!TypeOK, BootGlobals, Early
  <2> QED
    BY <2>1, <2>2
<1>3. BootOrder'
  BY <1>1 DEF BootOrder, Woken, Early, Booted, BootGlobals, Start!TypeOK
<1>4. BootGlobals'
  <2>1. Start!CountProcs' = Start!CountProcs
    BY DEF Start!CountProcs, Start!Seen
  <2> QED
    BY <1>1, <2>1 DEF BootGlobals, Early, Start!TypeOK
<1>5. BootStacks'
  BY <1>1 DEF BootStacks, BootGlobals, Early, Booted, Woken, Start!TypeOK
<1>6. BootArrivals'
  <2>1. Arrived' = Arrived
    BY <1>1 DEF Arrived, Early, Booted, Woken
  <2> QED
    BY <2>1 DEF BootArrivals
<1>7. BootMain'
  BY <1>1, <1>4 DEF BootMain, BootGlobals, Early, Booted, Woken, Start!TypeOK
<1>8. BootOpen'
  BY <1>1 DEF BootOpen, Early, Booted, Woken
<1> QED
  BY <1>2, <1>3, <1>4, <1>5, <1>6, <1>7, <1>8

\* A woken processor masks the keyboard.
LEMMA MaskBoots ==
  ASSUME BootInv, NEW c \in Start!Cores, Start!Mask(c)
  PROVE  BootInv'
<1> USE BootConstants DEF BootInv, BootTypes, Start!Mask, Start!Goto
<1>1. c # 0 /\ pcBoot[0] \notin Early
  BY BootWhere, CountProcsPositive DEF BootOrder, BootGlobals, Start!TypeOK, Early, Booted
<1>2. BootTypes'
  <2>1. pcBoot' \in [Start!Cores -> Early \cup Booted \cup {"off", "count", "wake", "await"}]
    BY DEF Early, Booted
  <2>2. Start!TypeOK'
    BY <1>1, CountProcsPositive DEF Start!TypeOK, BootGlobals, Early
  <2> QED
    BY <2>1, <2>2
<1>3. BootOrder'
  BY <1>1 DEF BootOrder, Woken, Early, Booted, BootGlobals, Start!TypeOK
<1>4. BootGlobals'
  <2>1. Start!CountProcs' = Start!CountProcs
    BY DEF Start!CountProcs, Start!Seen
  <2> QED
    BY <1>1, <2>1 DEF BootGlobals, Early, Start!TypeOK
<1>5. BootStacks'
  BY <1>1 DEF BootStacks, BootGlobals, Early, Booted, Woken, Start!TypeOK
<1>6. BootArrivals'
  <2>1. Arrived' = Arrived
    BY <1>1 DEF Arrived, Early, Booted, Woken
  <2> QED
    BY <2>1 DEF BootArrivals
<1>7. BootMain'
  BY <1>1, <1>4 DEF BootMain, BootGlobals, Early, Booted, Woken, Start!TypeOK
<1>8. BootOpen'
  BY <1>1 DEF BootOpen, Early, Booted, Woken
<1> QED
  BY <1>2, <1>3, <1>4, <1>5, <1>6, <1>7, <1>8

\* A processor unmasks the keyboard, before it arrives.
LEMMA KeyBoardBoots ==
  ASSUME BootInv, NEW c \in Start!Cores, Start!KeyBoard(c)
  PROVE  BootInv'
<1> USE BootConstants DEF BootInv, BootTypes, Start!KeyBoard, Start!Goto
<1>1. /\ c = 0 => running = nextId /\ nextId = totalProcs /\ Woken(nextId, nextId)
      /\ pcBoot[0] \notin Early
  BY BootWhere, CountProcsPositive DEF BootOrder, BootGlobals, Start!TypeOK, Early, Booted
<1>2. BootTypes'
  <2>1. pcBoot' \in [Start!Cores -> Early \cup Booted \cup {"off", "count", "wake", "await"}]
    BY DEF Early, Booted
  <2>2. Start!TypeOK'
    BY <1>1, CountProcsPositive DEF Start!TypeOK, BootGlobals, Early
  <2> QED
    BY <2>1, <2>2
<1>3. BootOrder'
  BY <1>1 DEF BootOrder, Woken, Early, Booted, BootGlobals, Start!TypeOK
<1>4. BootGlobals'
  <2>1. Start!CountProcs' = Start!CountProcs
    BY DEF Start!CountProcs, Start!Seen
  <2> QED
    BY <1>1, <2>1 DEF BootGlobals, Early, Start!TypeOK
<1>5. BootStacks'
  BY <1>1 DEF BootStacks, BootGlobals, Early, Booted, Woken, Start!TypeOK
<1>6. BootArrivals'
  <2>1. Arrived' = Arrived
    BY <1>1 DEF Arrived, Early, Booted, Woken
  <2> QED
    BY <2>1 DEF BootArrivals
<1>7. BootMain'
  BY <1>1, <1>4 DEF BootMain, BootGlobals, Early, Booted, Woken, Start!TypeOK
<1>8. BootOpen'
  BY <1>1 DEF BootOpen, Early, Booted, Woken
<1> QED
  BY <1>2, <1>3, <1>4, <1>5, <1>6, <1>7, <1>8

\* Who has booted has been counted in running.
LEMMA BootCounted ==
  ASSUME BootTypes, BootOrder, BootGlobals
  PROVE  /\ \A c \in Start!Cores : pcBoot[c] \in Booted => c \in 0..(running - 1)
         /\ pcBoot[0] \notin Early => running <= totalProcs
<1> USE BootConstants DEF BootTypes, Start!TypeOK
<1>1. ASSUME NEW c \in Start!Cores, pcBoot[c] \in Booted, c # 0
      PROVE  c \in 0..(running - 1)
  <2>1. pcBoot[0] \notin Early
    BY <1>1, BootWhere DEF Booted
  <2>2. \/ running = nextId /\ c < nextId
        \/ running = nextId + 1 /\ c < nextId + 1
    BY <1>1, <2>1 DEF BootOrder, Woken, Booted
  <2> QED
    BY <2>2
<1>2. pcBoot[0] \notin Early => running >= 1
  BY DEF BootOrder
<1>3. pcBoot[0] \notin Early => running <= totalProcs
  BY CountProcsPositive DEF BootOrder, BootGlobals, Early
<1> QED
  BY <1>1, <1>2, <1>3 DEF Early, Booted

\* Those who have arrived are some of the running processors.
LEMMA ArrivedFinite ==
  ASSUME BootTypes, BootOrder, BootGlobals, BootArrivals
  PROVE  /\ IsFiniteSet(Arrived)
         /\ Arrived \subseteq 0..(running - 1)
         /\ IsFiniteSet(0..(running - 1))
         /\ Cardinality(0..(running - 1)) = running
         /\ here \in Nat
<1>1. Arrived \subseteq 0..(running - 1)
  BY BootCounted DEF Arrived, Booted
<1>2. IsFiniteSet(0..(running - 1)) /\ Cardinality(0..(running - 1)) = running
  <2>1. running \in Nat
    BY BootConstants DEF BootTypes, Start!TypeOK
  <2> QED
    BY <2>1, FS_Interval
<1>3. IsFiniteSet(Arrived)
  BY <1>1, <1>2, FS_Subset
<1> QED
  BY <1>1, <1>2, <1>3, FS_CardinalityType DEF BootArrivals

\* The barrier at the end of kernelInit: the last to come goes on to kernelMain.
LEMMA ArriveBoots ==
  ASSUME BootInv, NEW c \in Start!Cores, Start!Arrive(c)
  PROVE  BootInv'
<1> USE BootConstants DEF BootInv, BootTypes, Start!Arrive, Start!Goto
<1>1. /\ c = 0 => running = nextId /\ nextId = totalProcs /\ Woken(nextId, nextId)
      /\ pcBoot[0] \notin Early
  BY BootWhere DEF BootOrder, Early
<1>2. pcBoot' \in [Start!Cores -> Early \cup Booted \cup {"off", "count", "wake", "await"}]
  BY DEF Booted
<1>3. Arrived' = Arrived \cup {c} /\ c \notin Arrived
  BY <1>2 DEF Arrived
<1>4. Cardinality(Arrived') = here + 1
  BY <1>3, ArrivedFinite, FS_AddElement DEF BootArrivals
<1>5. here + 1 <= running /\ running <= totalProcs
  <2>1. Arrived \cup {c} \subseteq 0..(running - 1)
    BY ArrivedFinite, BootCounted DEF Booted
  <2>2. Cardinality(Arrived \cup {c}) <= running
    BY <2>1, ArrivedFinite, FS_Subset
  <2> QED
    BY <1>1, <1>3, <1>4, <2>2, BootCounted
<1>6. BootTypes'
  BY <1>2, <1>5, ArrivedFinite DEF Start!TypeOK
<1>7. BootOrder'
  BY <1>1, <1>2 DEF BootOrder, Woken, Early, Booted
<1>8. BootGlobals'
  <2>1. Start!CountProcs' = Start!CountProcs
    BY DEF Start!CountProcs, Start!Seen
  <2> QED
    BY <1>1, <2>1 DEF BootGlobals, Early
<1>9. BootStacks'
  BY DEF BootStacks
<1>10. BootArrivals'
  BY <1>4 DEF BootArrivals
<1>11. BootMain'
  <2>1. mains = 0 /\ \A d \in Start!Cores : pcBoot[d] # "main"
    BY <1>5, ArrivedFinite DEF BootMain, Start!TypeOK
  <2> QED
    BY <1>2, <2>1 DEF BootMain
<1>12. BootOpen'
  BY <1>1, <1>2 DEF BootOpen
<1> QED
  BY <1>6, <1>7, <1>8, <1>9, <1>10, <1>11, <1>12

\* The last processor starts kernelMain.
LEMMA StartMainBoots ==
  ASSUME BootInv, NEW c \in Start!Cores, Start!StartMain(c)
  PROVE  BootInv'
<1> USE BootConstants DEF BootInv, BootTypes, Start!StartMain, Start!Goto
<1>1. /\ c = 0 => running = nextId /\ nextId = totalProcs /\ Woken(nextId, nextId)
      /\ pcBoot[0] \notin Early
  BY BootWhere DEF BootOrder, Early
<1>2. pcBoot' \in [Start!Cores -> Early \cup Booted \cup {"off", "count", "wake", "await"}]
  BY DEF Booted
<1>3. BootTypes'
  BY <1>2 DEF Start!TypeOK
<1>4. BootOrder'
  BY <1>1, <1>2 DEF BootOrder, Woken, Early, Booted
<1>5. BootGlobals'
  <2>1. Start!CountProcs' = Start!CountProcs
    BY DEF Start!CountProcs, Start!Seen
  <2> QED
    BY <1>1, <2>1 DEF BootGlobals, Early
<1>6. BootStacks'
  BY DEF BootStacks
<1>7. BootArrivals'
  <2>1. Arrived' = Arrived
    BY <1>2 DEF Arrived
  <2> QED
    BY <2>1 DEF BootArrivals
<1>8. BootMain'
  BY <1>1, <1>2 DEF BootMain, BootGlobals, Early
<1>9. BootOpen'
  BY <1>1, <1>2 DEF BootOpen
<1> QED
  BY <1>3, <1>4, <1>5, <1>6, <1>7, <1>8, <1>9

\* Steps of the other components leave the boot alone.
LEMMA BootUnchanged ==
  ASSUME BootInv, UNCHANGED boot
  PROVE  BootInv'
<1> USE DEF boot, BootInv
<1>1. Arrived' = Arrived /\ Start!CountProcs' = Start!CountProcs
  BY DEF Arrived, Start!CountProcs, Start!Seen
<1>2. BootTypes' /\ BootOrder' /\ BootOpen'
  BY DEF BootTypes, Start!TypeOK, BootOrder, Woken, BootOpen
<1>3. BootGlobals' /\ BootStacks' /\ BootArrivals' /\ BootMain'
  BY <1>1 DEF BootGlobals, BootStacks, BootArrivals, BootMain
<1> QED
  BY <1>2, <1>3

\* Each step of a processor keeps the invariant.
LEMMA BootStepBoots ==
  ASSUME BootInv, NEW c \in Start!Cores, BootStep(c)
  PROVE  BootInv'
BY PickStackBoots, EnterBoots, InitGlobalsBoots, InitLapicBoots, CountFirstBoots, WakeBoots,
   AwaitBoots, AllAwakeBoots, CountSelfBoots, MaskBoots, KeyBoardBoots, ArriveBoots,
   StartMainBoots DEF BootStep, Start!Core

\* Each step of any component keeps it.
LEMMA NextBoots == BootInv /\ [Next]_vars => BootInv'
<1> SUFFICES ASSUME BootInv, [Next]_vars PROVE BootInv'
  OBVIOUS
<1>1. CASE \E c \in Start!Cores : BootStep(c)
  BY <1>1, BootStepBoots
<1>2. CASE UNCHANGED boot
  BY <1>2, BootUnchanged
<1> QED
  BY <1>1, <1>2 DEF Next, vars, BufferWork, BarrierStep, BarrierCall, RoundsStep, CallPut

\* init.cc: the invariant that orders the steps of the processors.
THEOREM BootInvariant == FairSpec => []BootInv
<1>1. Init => BootInv
  BY BootInitially
<1>2. BootInv /\ [Next]_vars => BootInv'
  BY NextBoots
<1> QED
  BY <1>1, <1>2, PTL DEF FairSpec

\* init.cc, mbr.S: whatever the table says and however many processors answer, each
\* boots on a stack of its own, after the globals, which are set up once.
THEOREM BootsApart == FairSpec => []BootedApart
<1>1. BootInv => BootedApart
  <2> SUFFICES ASSUME BootInv PROVE BootedApart
    OBVIOUS
  <2> USE BootConstants DEF BootInv
  <2>1. Start!TypeOK
    BY DEF BootTypes
  <2>2. \A c, d \in Start!Started : stack[c] = stack[d] => c = d
    BY DEF BootStacks, Start!Started
  <2>3. globals <= 1
    BY DEF BootGlobals
  <2>4. Start!Started \ {0} # {} => globals = 1
    BY BootWhere DEF Start!Started, BootGlobals, Early
  <2> QED
    BY <2>1, <2>2, <2>3, <2>4 DEF BootedApart, Start!BootedApart
<1> QED
  BY <1>1, BootInvariant, PTL

\* config.cc reads the entries shifted by one; with the boot processor first and no
\* image of an entry behind the table it counts what the table lists.
LEMMA OthersCounted ==
  ASSUME table \in Tables,
         table.entries[1].type = "apic" => table.entries[1].processorId = 0,
         table.after.type = "apic" => table.after.processorId = 0
  PROVE  Start!CountProcs = 1 + Cardinality({k \in DOMAIN table.entries :
                        table.entries[k].type = "apic" /\ table.entries[k].processorId # 0})
<1> DEFINE e == table.entries
           s == Start!Seen
           A == {k \in DOMAIN s : s[k].type = "apic" /\ s[k].processorId # 0}
           B == {k \in DOMAIN e : e[k].type = "apic" /\ e[k].processorId # 0}
           f == [k \in A |-> k + 1]
<1>1. e \in Seq(Start!Entries) /\ e # <<>> /\ table.after \in Start!Entries
  BY RendezvousAssumption DEF Start!BootAssumption
<1>2. /\ Len(e) \in Nat \ {0} /\ DOMAIN e = 1..Len(e) /\ DOMAIN s = 1..Len(e)
      /\ s[Len(e)] = table.after
      /\ \A k \in 1..(Len(e) - 1) : s[k] = e[k + 1]
  BY <1>1 DEF Start!Seen
<1> HIDE DEF s, e
<1>3. \A k \in A : k \in 1..(Len(e) - 1) /\ k + 1 \in B
  BY <1>2 DEF e
<1>4. f \in [A -> B] /\ \A j, k \in A : f[j] = f[k] => j = k
  BY <1>2, <1>3
<1>5. ASSUME NEW k \in B PROVE \E j \in A : f[j] = k
  <2>1. k \in 2..Len(e)
    BY <1>2 DEF e
  <2>2. k - 1 \in A
    BY <1>2, <2>1
  <2> QED
    BY <2>1, <2>2
<1>6. ExistsBijection(A, B)
  <2>1. f \in Bijection(A, B)
    BY <1>4, <1>5, Fun_IsBij
  <2> QED
    BY <2>1 DEF ExistsBijection
<1>7. IsFiniteSet(A)
  <2>1. IsFiniteSet(1..Len(e))
    BY <1>2, FS_Interval
  <2> QED
    BY <1>2, <2>1, FS_Subset
<1>8. Cardinality(A) = Cardinality(B)
  BY <1>6, <1>7, FS_Bijection
<1> QED
  BY <1>8, SameCardinality DEF Start!CountProcs, s, e

\* init.cc: kernelMain starts once, when all processors have arrived and the keyboard
\* is unmasked; a processor is counted once.
THEOREM MainStartsLast == FairSpec => []MainLast
<1>1. BootInv => MainLast
  <2> SUFFICES ASSUME BootInv PROVE MainLast
    OBVIOUS
  <2> USE BootConstants DEF BootInv
  <2>1. Start!CountedOnce
    BY OthersCounted, SameCardinality DEF Start!CountedOnce, BootGlobals, BootTypes, Start!TypeOK
  <2>2. ASSUME mains = 1
        PROVE  /\ Start!Cardinality({c \in Start!Cores : pcBoot[c] = "stop"}) = totalProcs
               /\ open
    <3>1. Arrived = {c \in Start!Cores : pcBoot[c] = "stop"}
      BY <2>2 DEF BootMain, Arrived
    <3>2. Cardinality(Arrived) = totalProcs
      BY <2>2 DEF BootMain, BootArrivals
    <3>3. pcBoot[0] \notin Early
      <4>1. totalProcs >= 1
        BY <2>2, CountProcsPositive DEF BootMain, BootGlobals, BootTypes, Start!TypeOK
      <4>2. pcBoot[0] \in Early => running = 0
        BY DEF BootOrder, Early
      <4> QED
        BY <3>2, <4>1, <4>2, ArrivedFinite, FS_Subset DEF BootTypes, Start!TypeOK
    <3>4. Arrived = 0..(running - 1)
      BY <3>2, <3>3, ArrivedFinite, BootCounted, FS_Subset DEF BootTypes, Start!TypeOK
    <3>5. \A c \in Start!Cores : pcBoot[c] \in Booted => pcBoot[c] \in {"main", "stop"}
      BY <3>4, BootCounted DEF Arrived
    <3>6. 0 \in Arrived
      BY <3>3, <3>4 DEF BootOrder, BootTypes, Start!TypeOK
    <3>7. open
      BY <3>5, <3>6 DEF BootOpen, Booted, Arrived
    <3> QED
      BY <3>1, <3>2, <3>7, SameCardinality
  <2>3. mains <= 1
    BY DEF BootMain
  <2> QED
    BY <2>1, <2>2, <2>3 DEF MainLast, Start!MainLast
<1> QED
  BY <1>1, BootInvariant, PTL

-----------------------------------------------------------------------------
(* ReusableBarrier and Condition *)

\* Where a thread can be in sync() and wait().
RoundLabels ==
  {"out", "enter", "while", "wait", "blocked", "handler", "asleep", "woken", "leave"}

\* Labels and the types of the fields.
RoundsTypes ==
  /\ lock \in Members \cup {NoThread}
  /\ epoch \in Nat /\ signals = epoch
  /\ queue \in Seq(Members)
  /\ pcRounds \in [Members -> RoundLabels]
  /\ seen \in [Members -> Nat] /\ old \in [Members -> Nat]
  /\ entered \in [Members -> Nat] /\ left \in [Members -> Nat]

\* Between taking the lock and giving it back.
RoundsMutex ==
  \A t \in Members :
    pcRounds[t] \in {"enter", "while", "wait", "handler", "leave"} => lock = t

\* The threads that have yet to enter the open round.
Pending == {t \in Members : entered[t] = epoch}

\* count is what is left of the open round.
RoundsCount == countRounds = Cardinality(Pending)

\* Thread t is in the queue of the condition.
InQueue(t) == \E k \in DOMAIN queue : queue[k] = t

\* Which round a thread is in, wherever it is.
RoundOf(t) ==
  /\ pcRounds[t] \in {"out", "enter"} => left[t] = entered[t] /\ entered[t] = epoch
  /\ pcRounds[t] \notin {"out", "enter"} =>
       /\ entered[t] = left[t] + 1 /\ seen[t] = left[t]
       /\ entered[t] \in {epoch, epoch + 1}
  /\ pcRounds[t] = "leave" => entered[t] = epoch
  /\ pcRounds[t] = "wait" => entered[t] = epoch + 1
  /\ pcRounds[t] \in {"blocked", "handler"} =>
       /\ old[t] <= signals
       /\ old[t] = signals => entered[t] = epoch + 1
  /\ pcRounds[t] = "asleep" => entered[t] = epoch + 1 /\ InQueue(t)

\* Every thread is in a round that fits its place.
RoundsPlaces == \A t \in Members : RoundOf(t)

\* The inductive invariant of the reusable barrier.
RoundsInv == RoundsTypes /\ RoundsMutex /\ RoundsCount /\ RoundsPlaces

\* The barrier is made for the number of its threads.
LEMMA RoundsConstants ==
  /\ IsFiniteSet(Members) /\ NoThread \notin Members
  /\ Rounded!InitialCount = Cardinality(Members)
<1>1. \A S : Rounded!IsFiniteSet(S) <=> IsFiniteSet(S)
  BY DEF Rounded!IsFiniteSet, IsFiniteSet
<1>2. \A S : Rounded!Cardinality(S) = Cardinality(S)
  BY DEF Rounded!Cardinality, Cardinality
<1> QED
  BY <1>1, <1>2, RendezvousAssumption
     DEF Rounded!ReusableBarrierAssumption, Rounded!InitialCount

\* What is counted is finite.
LEMMA PendingFinite == IsFiniteSet(Pending) /\ Cardinality(Pending) \in Nat
BY RoundsConstants, FS_Subset, FS_CardinalityType DEF Pending

\* Nobody has entered the first round.
LEMMA RoundsInitially == Init => RoundsInv
<1> SUFFICES ASSUME Init PROVE RoundsInv
  OBVIOUS
<1> USE RoundsConstants DEF Init, Rounded!Init
<1>1. RoundsTypes
  BY DEF RoundsTypes, RoundLabels
<1>2. RoundsMutex /\ RoundsPlaces
  BY DEF RoundsMutex, RoundsPlaces, RoundOf
<1>3. RoundsCount
  <2>1. Pending = Members
    BY DEF Pending
  <2> QED
    BY <2>1 DEF RoundsCount
<1> QED
  BY <1>1, <1>2, <1>3 DEF RoundsInv

\* The last thread opens the next round and signals the others.
LEMMA LastRounds ==
  ASSUME RoundsInv, NEW t \in Members, Rounded!Last(t)
  PROVE  RoundsInv'
<1> USE RoundsConstants DEF RoundsInv, RoundsTypes, Rounded!Last
<1>1. Pending = {t}
  <2>1. t \in Pending
    BY DEF RoundsPlaces, RoundOf, Pending
  <2>2. Cardinality({t}) = Cardinality(Pending)
    BY FS_Singleton DEF RoundsCount
  <2> QED
    BY <2>1, <2>2, PendingFinite, FS_Subset
<1>2. \A u \in Members : u # t =>
        /\ pcRounds[u] \notin {"out", "enter", "leave", "while", "handler", "wait"}
        /\ entered[u] = epoch + 1
  BY <1>1 DEF RoundsPlaces, RoundOf, RoundsMutex, Pending, RoundLabels
<1>3. RoundsTypes'
  BY DEF RoundLabels
<1>4. RoundsMutex'
  BY DEF RoundsMutex
<1>5. RoundsCount'
  <2>1. Pending' = Members
    BY <1>1, <1>2 DEF Pending, RoundsPlaces, RoundOf
  <2> QED
    BY <2>1 DEF RoundsCount
<1>6. RoundsPlaces'
  <2> SUFFICES ASSUME NEW u \in Members PROVE RoundOf(u)'
    BY DEF RoundsPlaces
  <2>1. CASE u = t
    BY <2>1 DEF RoundsPlaces, RoundOf
  <2>2. CASE u # t /\ InQueue(u)
    BY <2>2, <1>2 DEF RoundsPlaces, RoundOf, InQueue
  <2>3. CASE u # t /\ ~InQueue(u)
    BY <2>3, <1>2 DEF RoundsPlaces, RoundOf, InQueue
  <2> QED
    BY <2>1, <2>2, <2>3
<1> QED
  BY <1>3, <1>4, <1>5, <1>6

\* A thread that is not the last takes itself off the count.
LEMMA NotLastRounds ==
  ASSUME RoundsInv, NEW t \in Members, Rounded!NotLast(t)
  PROVE  RoundsInv'
<1> USE RoundsConstants DEF RoundsInv, RoundsTypes, Rounded!NotLast
<1>1. RoundsTypes'
  BY DEF RoundLabels
<1>2. RoundsMutex'
  BY DEF RoundsMutex
<1>3. RoundsCount'
  <2>1. Pending' = Pending \ {t} /\ t \in Pending
    BY DEF Pending, RoundsPlaces, RoundOf
  <2> QED
    BY <2>1, PendingFinite, FS_RemoveElement DEF RoundsCount
<1>4. RoundsPlaces'
  BY DEF RoundsPlaces, RoundOf, InQueue
<1> QED
  BY <1>1, <1>2, <1>3, <1>4

\* block() calls its lambda: the thread sleeps, unless a signal came since it looked.
LEMMA EnqueueRounds ==
  ASSUME RoundsInv, NEW t \in Members, Rounded!Enqueue(t)
  PROVE  RoundsInv'
<1> USE RoundsConstants DEF RoundsInv, RoundsTypes, Rounded!Enqueue, Rounded!calls
<1>1. RoundsTypes'
  <2>1. queue' \in Seq(Members)
    <3>1. CASE queue' = Append(queue, t)
      BY ONLY <3>1, queue \in Seq(Members)
    <3> QED
      BY <3>1
  <2> QED
    BY <2>1 DEF RoundLabels
<1>2. RoundsMutex'
  BY DEF RoundsMutex
<1>3. RoundsCount'
  <2>1. Pending' = Pending
    BY DEF Pending
  <2> QED
    BY <2>1 DEF RoundsCount
<1>4. RoundsPlaces'
  <2>1. \A u \in Members : InQueue(u) \/ (signals = old[t] /\ u = t) => InQueue(u)'
    <3>1. CASE signals = old[t]
      <4>1. queue' = Append(queue, t) /\ queue \in Seq(Members)
        BY <3>1
      <4>2. /\ Len(queue) \in Nat
            /\ DOMAIN queue = 1..Len(queue) /\ DOMAIN queue' = 1..(Len(queue) + 1)
            /\ queue'[Len(queue) + 1] = t /\ \A k \in 1..Len(queue) : queue'[k] = queue[k]
        BY ONLY <4>1, t \in Members
      <4> QED
        BY ONLY <4>2, t \in Members DEF InQueue
    <3>2. CASE signals # old[t]
      BY <3>2 DEF InQueue
    <3> QED
      BY <3>1, <3>2
  <2> SUFFICES ASSUME NEW u \in Members PROVE RoundOf(u)'
    BY DEF RoundsPlaces
  <2>2. CASE u = t
    BY <2>1, <2>2 DEF RoundsPlaces, RoundOf
  <2>3. CASE u # t
    BY <2>1, <2>3 DEF RoundsPlaces, RoundOf
  <2> QED
    BY <2>2, <2>3
<1> QED
  BY <1>1, <1>2, <1>3, <1>4

\* The other steps leave the queue and the count alone.
LEMMA OtherRounds ==
  ASSUME RoundsInv, NEW t \in Members,
         \/ Rounded!Sync(t) \/ Rounded!While(t) \/ Rounded!Wait(t) \/ Rounded!Handler(t)
         \/ Rounded!Relock(t) \/ Rounded!Leave(t)
  PROVE  RoundsInv'
<1> USE RoundsConstants DEF RoundsInv, RoundsTypes, Rounded!Sync, Rounded!While, Rounded!Wait,
          Rounded!Handler, Rounded!Relock, Rounded!Leave, Rounded!Lock, Rounded!calls
<1>1. RoundsTypes'
  <2>1. pcRounds' \in [Members -> RoundLabels]
    BY DEF RoundLabels
  <2>2. lock' \in Members \cup {NoThread}
    OBVIOUS
  <2>3. old' \in [Members -> Nat] /\ left' \in [Members -> Nat]
    <3>1. old' = old \/ old' = [old EXCEPT ![t] = signals]
      OBVIOUS
    <3>2. left' = left \/ left' = [left EXCEPT ![t] = left[t] + 1]
      OBVIOUS
    <3>3. signals \in Nat /\ old \in [Members -> Nat] /\ left \in [Members -> Nat]
      OBVIOUS
    <3> QED
      BY ONLY <3>1, <3>2, <3>3
  <2>4. epoch' = epoch /\ signals' = signals /\ queue' = queue /\ seen' = seen /\ entered' = entered
    OBVIOUS
  <2> QED
    BY <2>1, <2>2, <2>3, <2>4
<1>2. RoundsMutex'
  BY DEF RoundsMutex
<1>3. RoundsCount'
  <2>1. Pending' = Pending
    BY DEF Pending
  <2> QED
    BY <2>1 DEF RoundsCount
<1>4. RoundsPlaces'
  <2> SUFFICES ASSUME NEW u \in Members PROVE RoundOf(u)'
    BY DEF RoundsPlaces
  <2>1. InQueue(u)' <=> InQueue(u)
    BY DEF InQueue
  <2>2. CASE u # t
    BY <2>1, <2>2 DEF RoundsPlaces, RoundOf
  <2>3. CASE u = t
    BY <2>1, <2>3 DEF RoundsPlaces, RoundOf
  <2> QED
    BY <2>2, <2>3
<1> QED
  BY <1>1, <1>2, <1>3, <1>4

\* Each step of any component keeps the invariant.
LEMMA NextRounds == RoundsInv /\ [Next]_vars => RoundsInv'
<1> SUFFICES ASSUME RoundsInv, [Next]_vars PROVE RoundsInv'
  OBVIOUS
<1>1. CASE \E t \in Members : RoundsStep(t)
  BY <1>1, LastRounds, NotLastRounds, EnqueueRounds, OtherRounds DEF RoundsStep, Rounded!Step
<1>2. CASE UNCHANGED rounds
  BY <1>2 DEF rounds, RoundsInv, RoundsTypes, RoundsMutex, RoundsCount, Pending, RoundsPlaces,
              RoundOf, InQueue
<1> QED
  BY <1>1, <1>2 DEF Next, vars, BufferWork, BarrierStep, BarrierCall, BootStep, CallPut

\* barrier.h, condition.h: the invariant that says which round each thread is in.
THEOREM RoundsInvariant == FairSpec => []RoundsInv
<1>1. Init => RoundsInv
  BY RoundsInitially
<1>2. RoundsInv /\ [Next]_vars => RoundsInv'
  BY NextRounds
<1> QED
  BY <1>1, <1>2, PTL DEF FairSpec

\* condition.h: for any number of threads and rounds nobody is a round ahead, and no
\* thread sleeps through the signal that ends its round.
THEOREM RoundsKeepTogether == FairSpec => [](Rounded!NobodyAhead /\ Rounded!NoMissedSignal)
<1>1. RoundsInv => Rounded!NobodyAhead /\ Rounded!NoMissedSignal
  <2> SUFFICES ASSUME RoundsInv PROVE Rounded!NobodyAhead /\ Rounded!NoMissedSignal
    OBVIOUS
  <2> USE RoundsConstants DEF RoundsInv, RoundsTypes, RoundsPlaces, RoundOf
  <2>1. ASSUME NEW t \in Members PROVE left[t] <= epoch /\ epoch <= entered[t]
    <3>1. /\ left[t] \in Nat /\ entered[t] \in Nat
          /\ \/ left[t] = entered[t] /\ entered[t] = epoch
             \/ entered[t] = left[t] + 1 /\ entered[t] \in {epoch, epoch + 1}
      OBVIOUS
    <3> QED
      BY <3>1
  <2>2. \A t, u \in Members : left[t] <= entered[u]
    BY <2>1
  <2>3. ASSUME NEW t \in Members, pcRounds[t] = "enter" PROVE countRounds # 0
    <3>1. t \in Pending
      BY <2>3 DEF Pending
    <3> QED
      BY <3>1, PendingFinite, FS_EmptySet DEF RoundsCount
  <2>4. \A t \in Members : pcRounds[t] = "handler" => signals >= old[t]
    OBVIOUS
  <2>5. Rounded!NoMissedSignal
    <3> SUFFICES ASSUME NEW t \in Members, pcRounds[t] = "asleep"
                 PROVE  epoch <= seen[t] /\ InQueue(t)
      BY DEF Rounded!NoMissedSignal, InQueue
    <3>1. entered[t] = epoch + 1 /\ entered[t] = left[t] + 1 /\ seen[t] = left[t] /\ InQueue(t)
      OBVIOUS
    <3> QED
      BY <3>1
  <2> QED
    BY <2>2, <2>3, <2>4, <2>5 DEF Rounded!NobodyAhead
<1> QED
  BY <1>1, RoundsInvariant, PTL

-----------------------------------------------------------------------------
(* Barrier *)

\* Labels and the types of the fields.
OnceTypes ==
  /\ countBarrier \in Int /\ countBarrier >= -1
  /\ permits \in Nat
  /\ waiting \in Seq(Comers)
  /\ pcBarrier \in [Comers -> {"out", "down", "asleep", "up", "passed", "panic"}]

\* The queue of the semaphore holds sleeping threads, each once.
OnceQueue ==
  /\ \A k \in DOMAIN waiting : pcBarrier[waiting[k]] = "asleep"
  /\ \A j, k \in DOMAIN waiting : waiting[j] = waiting[k] => j = k

\* The threads that have called sync().
Called == {t \in Comers : pcBarrier[t] # "out"}

\* count is what is left of the argument of the constructor.
OnceCount == IsFiniteSet(Called) /\ Cardinality(Called) = Count - countBarrier

\* There is no permit, and nobody has had it, before the last thread has come.
OncePermit ==
  /\ permits > 0 => countBarrier <= 0
  /\ \A t \in Comers : pcBarrier[t] \in {"up", "passed"} => countBarrier <= 0

\* The threads that found the count negative.
Panicked == {t \in Comers : pcBarrier[t] = "panic"}

\* One call too many is the last there is.
OncePanic == IF countBarrier = -1 THEN \E t \in Comers : Panicked = {t} ELSE Panicked = {}

\* The inductive invariant of the barrier.
OnceInv == OnceTypes /\ OnceQueue /\ OnceCount /\ OncePermit /\ OncePanic

\* A barrier is for at least one thread.
LEMMA CountPositive == Count \in Nat \ {0}
BY RendezvousAssumption DEF Once!BarrierAssumption

\* Nobody has called sync().
LEMMA OnceInitially == Init => OnceInv
<1> SUFFICES ASSUME Init PROVE OnceInv
  OBVIOUS
<1> USE CountPositive DEF Init, Once!Init
<1>1. OnceTypes /\ OnceQueue /\ OncePermit
  BY DEF OnceTypes, OnceQueue, OncePermit
<1>2. OnceCount
  <2>1. Called = {}
    BY DEF Called
  <2> QED
    BY <2>1, FS_EmptySet DEF OnceCount
<1>3. OncePanic
  BY DEF OncePanic, Panicked
<1> QED
  BY <1>1, <1>2, <1>3 DEF OnceInv

\* sync() takes one off the count, and panics when there was none.
LEMMA SyncOnce ==
  ASSUME OnceInv, NEW t \in Comers, Once!Call(t)
  PROVE  OnceInv'
<1> USE CountPositive DEF OnceInv, OnceTypes, Once!Call, Once!Sync, Once!Running
<1>1. countBarrier >= 0
  BY DEF OncePanic, Panicked
<1>2. OnceTypes'
  BY <1>1
<1>3. OnceQueue'
  BY DEF OnceQueue
<1>4. OnceCount'
  <2>1. Called' = Called \cup {t} /\ t \notin Called
    BY DEF Called
  <2> QED
    BY <2>1, FS_AddElement DEF OnceCount
<1>5. OncePermit'
  BY <1>1 DEF OncePermit
<1>6. OncePanic'
  <2>1. Panicked' = IF countBarrier' < 0 THEN {t} ELSE {}
    BY DEF Panicked
  <2> QED
    BY <1>1, <2>1 DEF OncePanic
<1> QED
  BY <1>2, <1>3, <1>4, <1>5, <1>6

\* down() takes the permit or queues the thread.
LEMMA DownOnce ==
  ASSUME OnceInv, NEW t \in Comers, Once!Down(t)
  PROVE  OnceInv'
<1> USE CountPositive DEF OnceInv, OnceTypes, Once!Down
<1>1. Called' = Called /\ Panicked' = Panicked
  BY DEF Called, Panicked
<1>2. OnceCount' /\ OncePanic'
  BY <1>1 DEF OnceCount, OncePanic
<1>3. OncePermit'
  BY DEF OncePermit
<1>4. CASE permits > 0
  <2>1. OnceTypes' /\ OnceQueue'
    BY <1>4 DEF OnceQueue
  <2> QED
    BY <1>2, <1>3, <2>1
<1>5. CASE ~(permits > 0)
  <2>1. waiting' = Append(waiting, t) /\ waiting \in Seq(Comers)
    BY <1>5
  <2>2. /\ Len(waiting) \in Nat /\ waiting' \in Seq(Comers)
        /\ DOMAIN waiting = 1..Len(waiting) /\ DOMAIN waiting' = 1..(Len(waiting) + 1)
        /\ waiting'[Len(waiting) + 1] = t
        /\ \A k \in 1..Len(waiting) : waiting'[k] = waiting[k]
    BY ONLY <2>1, t \in Comers
  <2>3. OnceTypes'
    BY <1>5, <2>2
  <2>4. pcBarrier' = [pcBarrier EXCEPT ![t] = "asleep"]
    BY <1>5
  <2>5. \A k \in 1..Len(waiting) : waiting[k] \in Comers /\ waiting[k] # t
    BY <2>2 DEF OnceQueue
  <2>6. OnceQueue'
    <3>1. \A k \in DOMAIN waiting' : pcBarrier'[waiting'[k]] = "asleep"
      BY <2>2, <2>4, <2>5 DEF OnceQueue
    <3>2. \A j, k \in DOMAIN waiting' : waiting'[j] = waiting'[k] => j = k
      BY <2>2, <2>5 DEF OnceQueue
    <3> QED
      BY <3>1, <3>2 DEF OnceQueue
  <2> QED
    BY <1>2, <1>3, <2>3, <2>6
<1> QED
  BY <1>4, <1>5

\* up() passes the permit on, to the first sleeper if there is one.
LEMMA UpOnce ==
  ASSUME OnceInv, NEW t \in Comers, Once!Up(t)
  PROVE  OnceInv'
<1> USE CountPositive DEF OnceInv, OnceTypes, Once!Up
<1>1. CASE waiting = <<>>
  <2>1. OnceTypes' /\ OnceQueue'
    BY <1>1 DEF OnceQueue
  <2>2. Called' = Called /\ Panicked' = Panicked
    BY <1>1 DEF Called, Panicked
  <2>3. OnceCount' /\ OncePanic'
    BY <2>2 DEF OnceCount, OncePanic
  <2>4. OncePermit'
    BY <1>1 DEF OncePermit
  <2> QED
    BY <2>1, <2>3, <2>4
<1>2. CASE waiting # <<>>
  <2> DEFINE w == Head(waiting)
  <2>1. /\ Len(waiting) \in Nat \ {0} /\ DOMAIN waiting = 1..Len(waiting)
        /\ w = waiting[1] /\ w \in Comers
        /\ Tail(waiting) \in Seq(Comers) /\ DOMAIN Tail(waiting) = 1..(Len(waiting) - 1)
        /\ \A k \in 1..(Len(waiting) - 1) : Tail(waiting)[k] = waiting[k + 1]
    BY <1>2
  <2>2. pcBarrier[w] = "asleep" /\ w # t
    BY <2>1 DEF OnceQueue
  <2>3. pcBarrier' = [pcBarrier EXCEPT ![t] = "passed", ![w] = "up"] /\ permits' = permits
        /\ waiting' = Tail(waiting) /\ countBarrier' = countBarrier
    BY <1>2
  <2> HIDE DEF w
  <2>4. OnceTypes'
    BY <2>1, <2>3
  <2>5. OnceQueue'
    <3>1. \A k \in DOMAIN waiting' : pcBarrier'[waiting'[k]] = "asleep"
      BY <2>1, <2>2, <2>3 DEF OnceQueue
    <3>2. \A j, k \in DOMAIN waiting' : waiting'[j] = waiting'[k] => j = k
      BY <2>1, <2>3 DEF OnceQueue
    <3> QED
      BY <3>1, <3>2 DEF OnceQueue
  <2>6. Called' = Called /\ Panicked' = Panicked
    BY <2>1, <2>2, <2>3 DEF Called, Panicked
  <2>7. OnceCount' /\ OncePanic'
    BY <2>3, <2>6 DEF OnceCount, OncePanic
  <2>8. OncePermit'
    BY <2>3 DEF OncePermit
  <2> QED
    BY <2>4, <2>5, <2>7, <2>8
<1> QED
  BY <1>1, <1>2

\* Each step of any component keeps the invariant.
LEMMA NextOnce == OnceInv /\ [Next]_vars => OnceInv'
<1> SUFFICES ASSUME OnceInv, [Next]_vars PROVE OnceInv'
  OBVIOUS
<1>1. CASE \E t \in Comers : BarrierCall(t) \/ BarrierStep(t)
  BY <1>1, SyncOnce, DownOnce, UpOnce DEF BarrierCall, BarrierStep, Once!Step
<1>2. CASE UNCHANGED barrier
  BY <1>2 DEF barrier, OnceInv, OnceTypes, OnceQueue, OnceCount, Called, OncePermit, OncePanic,
              Panicked
<1> QED
  BY <1>1, <1>2 DEF Next, vars, BufferWork, RoundsStep, BootStep, CallPut

\* barrier.h: the invariant that follows the single permit from the last thread to the others.
THEOREM OnceInvariant == FairSpec => []OnceInv
<1>1. Init => OnceInv
  BY OnceInitially
<1>2. OnceInv /\ [Next]_vars => OnceInv'
  BY NextOnce
<1> QED
  BY <1>1, <1>2, PTL DEF FairSpec

\* barrier.h: nobody passes a barrier before all have come, once or in any round, for
\* any number of threads; a call too many panics.
THEOREM BarriersHold == FairSpec => []NobodyEarly
<1>1. OnceInv => Once!NobodyEarly
  <2> SUFFICES ASSUME OnceInv PROVE Once!NobodyEarly
    OBVIOUS
  <2> USE CountPositive DEF OnceInv, OnceTypes
  <2>1. \A S : Once!Cardinality(S) = Cardinality(S)
    BY DEF Once!Cardinality, Cardinality
  <2>2. \A t \in Comers : pcBarrier[t] = "passed" => Cardinality(Called) >= Count
    BY DEF OncePermit, OnceCount
  <2>3. Cardinality(Panicked) =
          (IF Cardinality(Called) > Count THEN Cardinality(Called) - Count ELSE 0)
    <3>1. Cardinality(Panicked) = IF countBarrier = -1 THEN 1 ELSE 0
      BY FS_Singleton, FS_EmptySet DEF OncePanic
    <3>2. Cardinality(Called) = Count - countBarrier
      BY DEF OnceCount
    <3> QED
      BY <3>1, <3>2
  <2> QED
    BY <2>1, <2>2, <2>3 DEF Once!NobodyEarly, Called, Panicked
<1> QED
  BY <1>1, OnceInvariant, RoundsKeepTogether, PTL DEF NobodyEarly

-----------------------------------------------------------------------------
(* BoundedBuffer *)

\* The slot k places behind the first one, without the modulus.
LEMMA SlotOf ==
  ASSUME NEW h \in 0..(N - 1), NEW k \in 0..(N - 1), N \in Nat \ {0}
  PROVE  (h + k) % N = IF h + k < N THEN h + k ELSE h + k - N
<1>1. CASE h + k < N
  <2>1. h + k \in 0..(N - 1)
    BY <1>1
  <2> QED
    BY <1>1, <2>1
<1>2. CASE ~(h + k < N)
  <2>1. h + k \in N..(2 * N - 1)
    BY <1>2
  <2>2. \A a \in N..(2 * N - 1) : a % N = a - N
    OBVIOUS
  <2> QED
    BY <1>2, <2>1, <2>2
<1> QED
  BY <1>1, <1>2

\* Where a thread can be in put().
PutLabels == {"out", "putEmpty", "putLock", "putData", "putCount", "putUnlock", "putFull"}

\* Where a thread can be in get().
GetLabels == {"getFull", "getLock", "getData", "getCount", "getUnlock", "getEmpty"}

\* The call of down() that returns to label l.
Calling(l) ==
  IF l = "putLock" THEN "putEmpty" ELSE IF l = "putData" THEN "putLock"
  ELSE IF l = "getLock" THEN "getFull" ELSE "getLock"

\* The label of a thread; one that sleeps in a down() is still at the call.
at == [t \in Buffer!Threads |->
         IF pcBuffer[t] = "asleep" THEN Calling(then[t]) ELSE pcBuffer[t]]

\* Where a thread holds a full slot, an empty one, the lock.
FullHeld  == {"putUnlock", "putFull", "getLock", "getData", "getCount"}
EmptyHeld == {"putLock", "putData", "putCount", "getUnlock", "getEmpty"}
LockHeld  == {"putData", "putCount", "putUnlock", "getData", "getCount", "getUnlock"}

\* Who is at one of the labels of L.
Those(f, L) == {t \in DOMAIN f : f[t] \in L}

\* What a thread that sleeps in semaphore s does next.
Wakes(s) == CASE s = "nEmpty" -> {"putLock"} [] s = "nFull" -> {"getLock"}
              [] OTHER -> {"putData", "getData"}

\* The values of a semaphore.
Semaphores == [count : Nat, waiting : Seq(Buffer!Threads)]

\* Labels and the types of the fields; who puts does not get.
BufferTypes ==
  /\ head \in 0..(N - 1) /\ n \in Nat
  /\ data \in [0..(N - 1) -> Items]
  /\ sem \in [Buffer!Sems -> Semaphores]
  /\ pcBuffer \in [Buffer!Threads -> PutLabels \cup GetLabels \cup {"asleep"}]
  /\ then \in [Buffer!Threads -> {"out", "putLock", "putData", "getLock", "getData"}]
  /\ item \in [Buffer!Threads -> Items]
  /\ \A t \in Putters : pcBuffer[t] \in PutLabels \cup {"asleep"}
  /\ \A t \in Getters : pcBuffer[t] \in GetLabels \cup {"asleep"}
  /\ \A t \in Buffer!Threads : pcBuffer[t] = "asleep" =>
       then[t] \in (IF t \in Putters THEN {"putLock", "putData"} ELSE {"getLock", "getData"})

\* The queue of each semaphore holds threads that sleep in it, each once.
QueueOk(s, q) ==
  /\ \A k \in DOMAIN q : pcBuffer[q[k]] = "asleep" /\ then[q[k]] \in Wakes(s)
  /\ \A j, k \in DOMAIN q : q[j] = q[k] => j = k

\* The queues of the three semaphores.
BufferQueues == \A s \in Buffer!Sems : QueueOk(s, sem[s].waiting)

\* A full slot has a permit of nFull or a thread that holds it, and so has an empty one.
BufferCounts ==
  /\ IsFiniteSet(Those(at, FullHeld)) /\ IsFiniteSet(Those(at, EmptyHeld))
  /\ IsFiniteSet(Those(at, LockHeld))
  /\ n = sem["nFull"].count + Cardinality(Those(at, FullHeld))
  /\ N - n = sem["nEmpty"].count + Cardinality(Those(at, EmptyHeld))
  /\ 1 = sem["lock"].count + Cardinality(Those(at, LockHeld))

\* The item of a put is in its slot before n counts it.
BufferData == \A t \in Putters : pcBuffer[t] = "putCount" => data[(head + n) % N] = item[t]

\* The inductive invariant of the buffer.
BufferInv == BufferTypes /\ BufferQueues /\ BufferCounts /\ BufferData

\* The ring has a slot, and who puts does not get.
LEMMA BufferConstants ==
  /\ N \in Nat \ {0} /\ Putters \cap Getters = {} /\ Items # {} /\ NoItem \notin Items
  /\ Buffer!Threads = Putters \cup Getters
  /\ Buffer!Sems = {"nEmpty", "nFull", "lock"}
BY RendezvousAssumption DEF Buffer!BoundedBufferAssumption, Buffer!Threads, Buffer!Sems

\* One thread moves: at most its own membership changes.
LEMMA CountMove ==
  ASSUME NEW f, NEW L, NEW t \in DOMAIN f, NEW l, IsFiniteSet(Those(f, L))
  PROVE  LET after == Those([f EXCEPT ![t] = l], L) IN
         /\ IsFiniteSet(after)
         /\ l \in L /\ f[t] \notin L => Cardinality(after) = Cardinality(Those(f, L)) + 1
         /\ l \notin L /\ f[t] \in L => Cardinality(after) = Cardinality(Those(f, L)) - 1
         /\ (l \in L <=> f[t] \in L) => Cardinality(after) = Cardinality(Those(f, L))
<1> DEFINE after == Those([f EXCEPT ![t] = l], L)
<1>1. CASE l \in L /\ f[t] \notin L
  <2>1. after = Those(f, L) \cup {t} /\ t \notin Those(f, L)
    BY <1>1 DEF Those
  <2> HIDE DEF after
  <2>2. IsFiniteSet(after) /\ Cardinality(after) = Cardinality(Those(f, L)) + 1
    BY <2>1, FS_AddElement
  <2> QED
    BY <1>1, <2>2 DEF after
<1>2. CASE l \notin L /\ f[t] \in L
  <2>1. after = Those(f, L) \ {t} /\ t \in Those(f, L)
    BY <1>2 DEF Those
  <2> HIDE DEF after
  <2>2. IsFiniteSet(after) /\ Cardinality(after) = Cardinality(Those(f, L)) - 1
    BY <2>1, FS_RemoveElement
  <2> QED
    BY <1>2, <2>2 DEF after
<1>3. CASE l \in L <=> f[t] \in L
  <2>1. after = Those(f, L)
    BY <1>3 DEF Those
  <2> QED
    BY <1>3, <2>1
<1> QED
  BY <1>1, <1>2, <1>3

\* An empty ring has all permits in nEmpty.
LEMMA BufferInitially == Init => BufferInv
<1> SUFFICES ASSUME Init PROVE BufferInv
  OBVIOUS
<1> USE BufferConstants DEF Init, Buffer!Init
<1>1. BufferTypes
  BY DEF BufferTypes, PutLabels, GetLabels, Semaphores
<1>2. BufferQueues
  BY DEF BufferQueues, QueueOk
<1>3. BufferCounts
  <2>1. Those(at, FullHeld) = {} /\ Those(at, EmptyHeld) = {} /\ Those(at, LockHeld) = {}
    BY DEF Those, at, FullHeld, EmptyHeld, LockHeld
  <2> QED
    BY <2>1, FS_EmptySet DEF BufferCounts
<1>4. BufferData
  BY DEF BufferData
<1> QED
  BY <1>1, <1>2, <1>3, <1>4 DEF BufferInv

\* Who holds the lock holds it alone.
LEMMA BufferMutex ==
  ASSUME BufferTypes, BufferCounts, NEW t \in Buffer!Threads, at[t] \in LockHeld
  PROVE  /\ sem["lock"].count = 0 /\ Cardinality(Those(at, LockHeld)) = 1
         /\ \A u \in Buffer!Threads : at[u] \in LockHeld => u = t
<1> DEFINE S == Those(at, LockHeld)
<1>1. t \in S /\ sem["lock"].count \in Nat
  BY BufferConstants DEF Those, at, BufferTypes, Semaphores
<1>2. Cardinality({t}) = 1 /\ Cardinality({t}) <= Cardinality(S)
      /\ (Cardinality(S) = Cardinality({t}) => S = {t})
  <2>1. IsFiniteSet(S) /\ {t} \in SUBSET S
    BY <1>1 DEF BufferCounts
  <2> HIDE DEF S
  <2> QED
    BY <2>1, FS_Singleton, FS_Subset
<1>3. Cardinality(S) = 1 /\ sem["lock"].count = 0
  BY <1>1, <1>2, FS_CardinalityType DEF BufferCounts
<1>4. S = {t}
  BY <1>2, <1>3
<1> QED
  BY <1>3, <1>4 DEF Those, at

\* Who holds a slot knows that there is one.
LEMMA BufferSlots ==
  ASSUME BufferTypes, BufferCounts, NEW t \in Buffer!Threads
  PROVE  /\ n \in 0..N
         /\ at[t] \in FullHeld => n >= 1
         /\ at[t] \in EmptyHeld => n < N
<1> USE BufferConstants
<1>1. /\ sem["nFull"].count \in Nat /\ sem["nEmpty"].count \in Nat
      /\ Cardinality(Those(at, FullHeld)) \in Nat /\ Cardinality(Those(at, EmptyHeld)) \in Nat
  BY FS_CardinalityType DEF BufferTypes, Semaphores, BufferCounts
<1>2. at[t] \in FullHeld => Cardinality(Those(at, FullHeld)) # 0
  <2>1. at[t] \in FullHeld => t \in Those(at, FullHeld)
    BY DEF Those, at
  <2> QED
    BY <2>1, FS_EmptySet DEF BufferCounts
<1>3. at[t] \in EmptyHeld => Cardinality(Those(at, EmptyHeld)) # 0
  <2>1. at[t] \in EmptyHeld => t \in Those(at, EmptyHeld)
    BY DEF Those, at
  <2> QED
    BY <2>1, FS_EmptySet DEF BufferCounts
<1>4. /\ n \in Nat /\ N \in Nat
      /\ n = sem["nFull"].count + Cardinality(Those(at, FullHeld))
      /\ N - n = sem["nEmpty"].count + Cardinality(Those(at, EmptyHeld))
  BY DEF BufferCounts, BufferTypes
<1> QED
  BY ONLY <1>1, <1>2, <1>3, <1>4

\* The four calls of down(), with their semaphores and where they return to.
Downs == {<<"putEmpty", "nEmpty", "putLock">>, <<"putLock", "lock", "putData">>,
          <<"getFull", "nFull", "getLock">>, <<"getLock", "lock", "getData">>}

\* The four calls of up().
Ups == {<<"putUnlock", "lock", "putFull">>, <<"putFull", "nFull", "out">>,
        <<"getUnlock", "lock", "getEmpty">>, <<"getEmpty", "nEmpty", "getFull">>}

\* down() moves the thread and takes a permit, or does neither.
LEMMA DownMoves ==
  ASSUME BufferTypes, BufferQueues, NEW t \in Buffer!Threads, NEW from, NEW s, NEW to,
         <<from, s, to>> \in Downs, Buffer!Down(t, from, s, to)
  PROVE  /\ BufferTypes' /\ BufferQueues' /\ at[t] = from
         /\ \/ /\ sem[s].count > 0
               /\ at' = [at EXCEPT ![t] = to]
               /\ sem'[s].count = sem[s].count - 1
            \/ /\ at' = at
               /\ sem'[s].count = sem[s].count
         /\ \A r \in Buffer!Sems : r # s => sem'[r].count = sem[r].count
         /\ UNCHANGED <<head, n, data, item>>
<1> USE BufferConstants DEF Buffer!Down, Buffer!fields
<1>1. /\ s \in Buffer!Sems /\ from = Calling(to) /\ from # "asleep" /\ to \in Wakes(s)
      /\ to \in {"putLock", "putData", "getLock", "getData"}
      /\ to \in PutLabels <=> from \in PutLabels
      /\ to \in GetLabels <=> from \in GetLabels
  BY DEF Downs, Calling, Wakes, PutLabels, GetLabels
<1>2. /\ pcBuffer[t] = from /\ at[t] = from
      /\ t \in Putters <=> to \in {"putLock", "putData"}
      /\ t \in Getters <=> to \in {"getLock", "getData"}
  BY <1>1 DEF at, BufferTypes, PutLabels, GetLabels, Calling
<1>3. sem[s] \in Semaphores /\ sem[s].count \in Nat /\ sem[s].waiting \in Seq(Buffer!Threads)
  BY <1>1 DEF BufferTypes, Semaphores
<1>4. CASE sem[s].count > 0
  <2>1. /\ sem' = [sem EXCEPT ![s].count = @ - 1]
        /\ pcBuffer' = [pcBuffer EXCEPT ![t] = to] /\ then' = then
        /\ UNCHANGED <<head, n, data, item>>
    BY <1>4
  <2>2. sem' \in [Buffer!Sems -> Semaphores] /\ \A r \in Buffer!Sems :
          /\ sem'[r].waiting = sem[r].waiting
          /\ sem'[r].count = IF r = s THEN sem[r].count - 1 ELSE sem[r].count
    <3>1. sem'[s] = [sem[s] EXCEPT !.count = sem[s].count - 1]
          /\ sem[s].count - 1 \in Nat
      BY <1>1, <1>3, <1>4, <2>1 DEF BufferTypes
    <3>2. sem'[s] \in Semaphores /\ sem'[s].count = sem[s].count - 1
          /\ sem'[s].waiting = sem[s].waiting
      BY <1>3, <3>1 DEF Semaphores
    <3> QED
      BY <1>1, <2>1, <3>2 DEF BufferTypes
  <2>3. at' = [at EXCEPT ![t] = to]
    BY <1>1, <2>1 DEF at, BufferTypes
  <2>4. BufferTypes'
    BY <1>1, <1>2, <2>1, <2>2 DEF BufferTypes, PutLabels, GetLabels
  <2>5. BufferQueues'
    <3> SUFFICES ASSUME NEW r \in Buffer!Sems PROVE QueueOk(r, sem[r].waiting)'
      BY DEF BufferQueues
    <3>1. \A k \in DOMAIN sem[r].waiting : sem[r].waiting[k] # t
      BY <1>1, <1>2 DEF BufferQueues, QueueOk
    <3>2. \A k \in DOMAIN sem[r].waiting : sem[r].waiting[k] \in Buffer!Threads
      BY DEF BufferTypes, Semaphores
    <3> QED
      BY <2>1, <2>2, <3>1, <3>2 DEF BufferQueues, QueueOk, BufferTypes
  <2> QED
    BY <1>1, <1>2, <1>4, <2>1, <2>2, <2>3, <2>4, <2>5
<1>5. CASE ~(sem[s].count > 0)
  <2> DEFINE q == sem[s].waiting
  <2>1. /\ sem' = [sem EXCEPT ![s].waiting = Append(q, t)]
        /\ pcBuffer' = [pcBuffer EXCEPT ![t] = "asleep"] /\ then' = [then EXCEPT ![t] = to]
        /\ UNCHANGED <<head, n, data, item>>
    BY <1>5
  <2>2. Append(q, t) \in Seq(Buffer!Threads)
    BY <1>3
  <2>3. sem' \in [Buffer!Sems -> Semaphores] /\ \A r \in Buffer!Sems :
          /\ sem'[r].waiting = IF r = s THEN Append(q, t) ELSE sem[r].waiting
          /\ sem'[r].count = sem[r].count
    BY <1>1, <1>3, <2>1, <2>2 DEF BufferTypes, Semaphores
  <2>4. at' = at
    BY <1>1, <1>2, <2>1 DEF at, BufferTypes
  <2>5. BufferTypes'
    BY <1>1, <1>2, <2>1, <2>3 DEF BufferTypes
  <2>6. BufferQueues'
    <3> SUFFICES ASSUME NEW r \in Buffer!Sems PROVE QueueOk(r, sem[r].waiting)'
      BY DEF BufferQueues
    <3>1. \A k \in DOMAIN sem[r].waiting :
            /\ sem[r].waiting[k] \in Buffer!Threads /\ sem[r].waiting[k] # t
            /\ pcBuffer[sem[r].waiting[k]] = "asleep" /\ then[sem[r].waiting[k]] \in Wakes(r)
      BY <1>1, <1>2 DEF BufferQueues, QueueOk, BufferTypes, Semaphores
    <3>2. \A j, k \in DOMAIN sem[r].waiting : sem[r].waiting[j] = sem[r].waiting[k] => j = k
      BY DEF BufferQueues, QueueOk
    <3>3. CASE r # s
      BY <2>1, <2>3, <3>1, <3>2, <3>3 DEF QueueOk, BufferTypes
    <3>4. CASE r = s
      <4>1. /\ Len(q) \in Nat /\ DOMAIN q = 1..Len(q)
            /\ DOMAIN Append(q, t) = 1..(Len(q) + 1) /\ Append(q, t)[Len(q) + 1] = t
            /\ \A k \in 1..Len(q) : Append(q, t)[k] = q[k]
        BY ONLY <1>3, t \in Buffer!Threads
      <4> DEFINE a == Append(q, t)
      <4>2. sem'[r].waiting = a
        BY <2>3, <3>4
      <4>3. pcBuffer'[t] = "asleep" /\ then'[t] \in Wakes(r)
        BY <1>1, <2>1, <3>4 DEF BufferTypes
      <4>4. \A k \in 1..Len(q) : pcBuffer'[q[k]] = "asleep" /\ then'[q[k]] \in Wakes(r) /\ q[k] # t
        BY <2>1, <3>1, <3>4, <4>1 DEF BufferTypes
      <4>5. \A j, k \in 1..Len(q) : q[j] = q[k] => j = k
        BY <3>2, <3>4, <4>1
      <4> HIDE DEF a, q
      <4>6. \A k \in DOMAIN a : pcBuffer'[a[k]] = "asleep" /\ then'[a[k]] \in Wakes(r)
        BY ONLY <4>1, <4>3, <4>4 DEF a
      <4>7. \A j, k \in DOMAIN a : a[j] = a[k] => j = k
        BY ONLY <4>1, <4>4, <4>5 DEF a
      <4> QED
        BY <4>2, <4>6, <4>7 DEF QueueOk
    <3> QED
      BY <3>3, <3>4
  <2> QED
    BY <1>1, <1>2, <2>1, <2>3, <2>4, <2>5, <2>6
<1> QED
  BY <1>4, <1>5

\* up() moves the thread, and leaves a permit or moves the first sleeper.
LEMMA UpMoves ==
  ASSUME BufferTypes, BufferQueues, NEW t \in Buffer!Threads, NEW from, NEW s, NEW to,
         <<from, s, to>> \in Ups, Buffer!Up(t, from, s, to)
  PROVE  /\ BufferTypes' /\ BufferQueues' /\ at[t] = from
         /\ \/ /\ at' = [at EXCEPT ![t] = to]
               /\ sem'[s].count = sem[s].count + 1
            \/ \E w \in Buffer!Threads \ {t} :
               /\ pcBuffer[w] = "asleep" /\ then[w] \in Wakes(s) /\ at[w] = Calling(then[w])
               /\ at' = [at EXCEPT ![t] = to, ![w] = then[w]]
               /\ sem'[s].count = sem[s].count
         /\ \A r \in Buffer!Sems : r # s => sem'[r].count = sem[r].count
         /\ UNCHANGED <<head, n, data, item>>
<1> USE BufferConstants DEF Buffer!Up, Buffer!fields
<1>1. /\ s \in Buffer!Sems /\ from # "asleep" /\ to # "asleep"
      /\ to \in PutLabels <=> from \in PutLabels
      /\ to \in GetLabels <=> from \in GetLabels
      /\ to \in PutLabels \cup GetLabels
  BY DEF Ups, PutLabels, GetLabels
<1>2. /\ pcBuffer[t] = from /\ at[t] = from
      /\ t \in Putters => to \in PutLabels
      /\ t \in Getters => to \in GetLabels
  BY <1>1 DEF at, BufferTypes
<1>3. sem[s] \in Semaphores /\ sem[s].count \in Nat /\ sem[s].waiting \in Seq(Buffer!Threads)
  BY <1>1 DEF BufferTypes, Semaphores
<1>4. CASE sem[s].waiting = <<>>
  <2>1. /\ sem' = [sem EXCEPT ![s].count = @ + 1]
        /\ pcBuffer' = [pcBuffer EXCEPT ![t] = to] /\ then' = then
        /\ UNCHANGED <<head, n, data, item>>
    BY <1>4
  <2>2. sem' \in [Buffer!Sems -> Semaphores] /\ \A r \in Buffer!Sems :
          /\ sem'[r].waiting = sem[r].waiting
          /\ sem'[r].count = IF r = s THEN sem[r].count + 1 ELSE sem[r].count
    <3>1. sem'[s] = [sem[s] EXCEPT !.count = sem[s].count + 1]
      BY <1>1, <2>1 DEF BufferTypes
    <3>2. sem'[s] \in Semaphores /\ sem'[s].count = sem[s].count + 1
          /\ sem'[s].waiting = sem[s].waiting
      BY <1>3, <3>1 DEF Semaphores
    <3> QED
      BY <1>1, <2>1, <3>2 DEF BufferTypes
  <2>3. at' = [at EXCEPT ![t] = to]
    BY <1>1, <2>1 DEF at, BufferTypes
  <2>4. BufferTypes'
    BY <1>1, <1>2, <2>1, <2>2 DEF BufferTypes
  <2>5. BufferQueues'
    <3> SUFFICES ASSUME NEW r \in Buffer!Sems PROVE QueueOk(r, sem[r].waiting)'
      BY DEF BufferQueues
    <3>1. \A k \in DOMAIN sem[r].waiting : sem[r].waiting[k] # t
      BY <1>1, <1>2 DEF BufferQueues, QueueOk
    <3>2. \A k \in DOMAIN sem[r].waiting : sem[r].waiting[k] \in Buffer!Threads
      BY DEF BufferTypes, Semaphores
    <3> QED
      BY <2>1, <2>2, <3>1, <3>2 DEF BufferQueues, QueueOk, BufferTypes
  <2> QED
    BY <1>1, <1>2, <2>1, <2>2, <2>3, <2>4, <2>5
<1>5. CASE sem[s].waiting # <<>>
  <2> DEFINE q == sem[s].waiting
             w == Head(q)
             l == then[w]
  <2>1. /\ sem' = [sem EXCEPT ![s].waiting = Tail(q)]
        /\ pcBuffer' = [pcBuffer EXCEPT ![t] = to, ![w] = l]
        /\ then' = [then EXCEPT ![w] = "out"]
        /\ UNCHANGED <<head, n, data, item>>
    BY <1>5
  <2>2. /\ Len(q) \in Nat \ {0} /\ DOMAIN q = 1..Len(q) /\ w = q[1] /\ w \in Buffer!Threads
        /\ Tail(q) \in Seq(Buffer!Threads) /\ DOMAIN Tail(q) = 1..(Len(q) - 1)
        /\ \A k \in 1..(Len(q) - 1) : Tail(q)[k] = q[k + 1]
    BY ONLY <1>3, <1>5
  <2>3. pcBuffer[w] = "asleep" /\ l \in Wakes(s) /\ w # t
    BY <1>1, <1>2, <2>2 DEF BufferQueues, QueueOk
  <2>4. /\ l \in {"putLock", "putData", "getLock", "getData"}
        /\ w \in Putters => l \in PutLabels
        /\ w \in Getters => l \in GetLabels
    BY <2>2, <2>3 DEF BufferTypes, PutLabels, GetLabels
  <2> HIDE DEF w, l
  <2>5. sem' \in [Buffer!Sems -> Semaphores] /\ \A r \in Buffer!Sems :
          /\ sem'[r].waiting = IF r = s THEN Tail(q) ELSE sem[r].waiting
          /\ sem'[r].count = sem[r].count
    BY <1>1, <1>3, <2>1, <2>2 DEF BufferTypes, Semaphores
  <2>6. at[w] = Calling(l) /\ at' = [at EXCEPT ![t] = to, ![w] = l]
    BY <1>1, <2>1, <2>2, <2>3, <2>4 DEF at, BufferTypes, l
  <2>7. BufferTypes'
    <3>1. pcBuffer' \in [Buffer!Threads -> PutLabels \cup GetLabels \cup {"asleep"}]
      BY <1>1, <2>1, <2>2, <2>4 DEF BufferTypes
    <3>2. then' \in [Buffer!Threads -> {"out", "putLock", "putData", "getLock", "getData"}]
      BY <2>1, <2>2 DEF BufferTypes
    <3>3. /\ \A u \in Putters : pcBuffer'[u] \in PutLabels \cup {"asleep"}
          /\ \A u \in Getters : pcBuffer'[u] \in GetLabels \cup {"asleep"}
      BY <1>2, <2>1, <2>2, <2>4 DEF BufferTypes
    <3>4. ASSUME NEW u \in Buffer!Threads, pcBuffer'[u] = "asleep"
          PROVE  u # w /\ pcBuffer[u] = "asleep" /\ then'[u] = then[u]
      <4>1. u # t /\ u # w
        BY <1>1, <2>1, <2>3, <2>4, <3>4 DEF BufferTypes, PutLabels
      <4> QED
        BY <2>1, <3>4, <4>1 DEF BufferTypes
    <3> QED
      BY <2>1, <2>5, <3>1, <3>2, <3>3, <3>4 DEF BufferTypes
  <2>8. BufferQueues'
    <3> SUFFICES ASSUME NEW r \in Buffer!Sems PROVE QueueOk(r, sem[r].waiting)'
      BY DEF BufferQueues
    <3>1. \A k \in DOMAIN sem[r].waiting :
            /\ sem[r].waiting[k] \in Buffer!Threads /\ sem[r].waiting[k] # t
            /\ pcBuffer[sem[r].waiting[k]] = "asleep" /\ then[sem[r].waiting[k]] \in Wakes(r)
      BY <1>1, <1>2 DEF BufferQueues, QueueOk, BufferTypes, Semaphores
    <3>2. \A j, k \in DOMAIN sem[r].waiting : sem[r].waiting[j] = sem[r].waiting[k] => j = k
      BY DEF BufferQueues, QueueOk
    <3>3. CASE r # s
      <4>1. \A k \in DOMAIN sem[r].waiting : sem[r].waiting[k] # w
        BY <1>1, <2>3, <3>1, <3>3 DEF Wakes, l
      <4> QED
        BY <2>1, <2>5, <3>1, <3>2, <3>3, <4>1 DEF QueueOk, BufferTypes
    <3>4. CASE r = s
      <4> DEFINE a == Tail(q)
      <4>1. sem'[r].waiting = a
        BY <2>5, <3>4
      <4>2. \A k \in 2..Len(q) : q[k] # w
        BY <2>2, <3>2, <3>4
      <4>3. \A k \in 2..Len(q) : pcBuffer'[q[k]] = "asleep" /\ then'[q[k]] \in Wakes(r)
        BY <2>1, <2>2, <3>1, <3>4, <4>2 DEF BufferTypes
      <4>4. \A j, k \in 1..Len(q) : q[j] = q[k] => j = k
        BY <2>2, <3>2, <3>4
      <4> HIDE DEF a, q
      <4>5. \A k \in DOMAIN a : pcBuffer'[a[k]] = "asleep" /\ then'[a[k]] \in Wakes(r)
        BY ONLY <2>2, <4>3 DEF a
      <4>6. \A j, k \in DOMAIN a : a[j] = a[k] => j = k
        BY ONLY <2>2, <4>4 DEF a
      <4> QED
        BY <4>1, <4>5, <4>6 DEF QueueOk
    <3> QED
      BY <3>3, <3>4
  <2> QED
    BY <1>1, <1>2, <2>1, <2>2, <2>3, <2>5, <2>6, <2>7, <2>8 DEF l
<1> QED
  BY <1>4, <1>5

\* A thread moves from label `from' to label `to'.
LEMMA Moved ==
  ASSUME BufferTypes, BufferCounts, NEW t \in Buffer!Threads, NEW to, at' = [at EXCEPT ![t] = to],
         NEW L \in {FullHeld, EmptyHeld, LockHeld}
  PROVE  /\ IsFiniteSet(Those(at, L)')
         /\ to \in L /\ at[t] \notin L => Cardinality(Those(at, L)') = Cardinality(Those(at, L)) + 1
         /\ to \notin L /\ at[t] \in L => Cardinality(Those(at, L)') = Cardinality(Those(at, L)) - 1
         /\ (to \in L <=> at[t] \in L) => Cardinality(Those(at, L)') = Cardinality(Those(at, L))
<1>1. IsFiniteSet(Those(at, L)) /\ t \in DOMAIN at
  BY DEF BufferCounts, at
<1>2. Those(at, L)' = Those(at', L)
  BY DEF Those, FullHeld, EmptyHeld, LockHeld
<1>3. Those(at, L)' = Those([at EXCEPT ![t] = to], L)
  BY <1>2
<1> QED
  BY ONLY <1>1, <1>3, CountMove

\* Two threads move; what one gives up the other takes, or neither does.
LEMMA MovedBoth ==
  ASSUME BufferTypes, BufferCounts, NEW t \in Buffer!Threads, NEW w \in Buffer!Threads \ {t},
         NEW to, NEW l, at' = [at EXCEPT ![t] = to, ![w] = l],
         NEW L \in {FullHeld, EmptyHeld, LockHeld},
         \/ at[t] \in L /\ to \notin L /\ at[w] \notin L /\ l \in L
         \/ (to \in L <=> at[t] \in L) /\ (l \in L <=> at[w] \in L)
  PROVE  IsFiniteSet(Those(at, L)') /\ Cardinality(Those(at, L)') = Cardinality(Those(at, L))
<1> DEFINE mid == [at EXCEPT ![t] = to]
<1>1. IsFiniteSet(Those(at, L)) /\ t \in DOMAIN at /\ w \in DOMAIN at
  BY DEF BufferCounts, at
<1>2. Those(at, L)' = Those([mid EXCEPT ![w] = l], L)
  BY DEF Those, FullHeld, EmptyHeld, LockHeld
<1>3. w \in DOMAIN mid /\ mid[w] = at[w]
  BY <1>1
<1>4. /\ IsFiniteSet(Those(mid, L))
      /\ to \in L /\ at[t] \notin L => Cardinality(Those(mid, L)) = Cardinality(Those(at, L)) + 1
      /\ to \notin L /\ at[t] \in L => Cardinality(Those(mid, L)) = Cardinality(Those(at, L)) - 1
      /\ (to \in L <=> at[t] \in L) => Cardinality(Those(mid, L)) = Cardinality(Those(at, L))
  BY <1>1, CountMove
<1> HIDE DEF mid
<1>5. /\ IsFiniteSet(Those([mid EXCEPT ![w] = l], L))
      /\ l \in L /\ at[w] \notin L =>
           Cardinality(Those([mid EXCEPT ![w] = l], L)) = Cardinality(Those(mid, L)) + 1
      /\ (l \in L <=> at[w] \in L) =>
           Cardinality(Those([mid EXCEPT ![w] = l], L)) = Cardinality(Those(mid, L))
  BY <1>3, <1>4, CountMove
<1>6. Cardinality(Those(at, L)) \in Nat
  BY <1>1, FS_CardinalityType
<1> QED
  BY <1>2, <1>4, <1>5, <1>6

\* Where a thread is not at a down(), at is its program counter.
LEMMA AtIsPc ==
  ASSUME BufferTypes, NEW t \in Buffer!Threads,
         NEW l \in (PutLabels \cup GetLabels) \ {"putEmpty", "putLock", "getFull", "getLock"}
  PROVE  at[t] = l <=> pcBuffer[t] = l
BY DEF at, BufferTypes, Calling, PutLabels, GetLabels

\* The four calls of down() keep the accounts.
LEMMA DownKeeps ==
  ASSUME BufferInv, NEW t \in Buffer!Threads, NEW from, NEW s, NEW to,
         <<from, s, to>> \in Downs, Buffer!Down(t, from, s, to)
  PROVE  BufferInv'
<1> USE BufferConstants DEF BufferInv
<1>1. /\ BufferTypes' /\ BufferQueues' /\ at[t] = from
      /\ \/ /\ sem[s].count > 0 /\ at' = [at EXCEPT ![t] = to]
            /\ sem'[s].count = sem[s].count - 1
         \/ at' = at /\ sem'[s].count = sem[s].count
      /\ \A r \in Buffer!Sems : r # s => sem'[r].count = sem[r].count
      /\ UNCHANGED <<head, n, data, item>>
  BY DownMoves
<1>2. BufferCounts'
  <2>1. CASE at' = at /\ sem'[s].count = sem[s].count
    BY <1>1, <2>1 DEF BufferCounts, Those, FullHeld, EmptyHeld, LockHeld, Downs
  <2>2. CASE at' = [at EXCEPT ![t] = to] /\ sem'[s].count = sem[s].count - 1
    <3>1. \A r \in Buffer!Sems : sem[r].count \in Nat
      BY DEF BufferTypes, Semaphores
    <3>2. ASSUME NEW L \in {FullHeld, EmptyHeld, LockHeld}
          PROVE
            /\ IsFiniteSet(Those(at, L)')
            /\ to \in L /\ from \notin L =>
                 Cardinality(Those(at, L)') = Cardinality(Those(at, L)) + 1
            /\ (to \in L <=> from \in L) =>
                 Cardinality(Those(at, L)') = Cardinality(Those(at, L))
      BY <1>1, <2>2, Moved
    <3>6. /\ Cardinality(Those(at, FullHeld)) \in Nat /\ Cardinality(Those(at, EmptyHeld)) \in Nat
          /\ Cardinality(Those(at, LockHeld)) \in Nat
      BY FS_CardinalityType DEF BufferCounts
    <3>3. Cardinality(Those(at, FullHeld)') =
            Cardinality(Those(at, FullHeld)) + (IF s = "nFull" THEN 1 ELSE 0)
      <4>1. /\ s = "nFull" => to \in FullHeld /\ from \notin FullHeld
            /\ s # "nFull" => (to \in FullHeld <=> from \in FullHeld)
        BY DEF Downs, FullHeld
      <4> QED
        BY <3>2, <3>6, <4>1
    <3>4. Cardinality(Those(at, EmptyHeld)') =
            Cardinality(Those(at, EmptyHeld)) + (IF s = "nEmpty" THEN 1 ELSE 0)
      <4>1. /\ s = "nEmpty" => to \in EmptyHeld /\ from \notin EmptyHeld
            /\ s # "nEmpty" => (to \in EmptyHeld <=> from \in EmptyHeld)
        BY DEF Downs, EmptyHeld
      <4> QED
        BY <3>2, <3>6, <4>1
    <3>5. Cardinality(Those(at, LockHeld)') =
            Cardinality(Those(at, LockHeld)) + (IF s = "lock" THEN 1 ELSE 0)
      <4>1. /\ s = "lock" => to \in LockHeld /\ from \notin LockHeld
            /\ s # "lock" => (to \in LockHeld <=> from \in LockHeld)
        BY DEF Downs, LockHeld
      <4> QED
        BY <3>2, <3>6, <4>1
    <3>7. s \in Buffer!Sems
      BY DEF Downs
    <3> QED
      BY <1>1, <2>2, <3>1, <3>2, <3>3, <3>4, <3>5, <3>6, <3>7 DEF BufferCounts
  <2> QED
    BY <1>1, <2>1, <2>2
<1>3. BufferData'
  <2> SUFFICES ASSUME NEW u \in Putters, pcBuffer'[u] = "putCount"
               PROVE  data[(head + n) % N] = item[u]
    BY <1>1 DEF BufferData
  <2>1. pcBuffer[u] = "putCount"
    BY DEF Buffer!Down, Downs, BufferTypes
  <2> QED
    BY <2>1 DEF BufferData
<1> QED
  BY <1>1, <1>2, <1>3

\* The four calls of up() keep the accounts, whoever is woken.
LEMMA UpKeeps ==
  ASSUME BufferInv, NEW t \in Buffer!Threads, NEW from, NEW s, NEW to,
         <<from, s, to>> \in Ups, Buffer!Up(t, from, s, to)
  PROVE  BufferInv'
<1> USE BufferConstants DEF BufferInv
<1>1. /\ BufferTypes' /\ BufferQueues' /\ at[t] = from
      /\ \/ at' = [at EXCEPT ![t] = to] /\ sem'[s].count = sem[s].count + 1
         \/ \E w \in Buffer!Threads \ {t} :
              /\ pcBuffer[w] = "asleep" /\ then[w] \in Wakes(s) /\ at[w] = Calling(then[w])
              /\ at' = [at EXCEPT ![t] = to, ![w] = then[w]]
              /\ sem'[s].count = sem[s].count
      /\ \A r \in Buffer!Sems : r # s => sem'[r].count = sem[r].count
      /\ UNCHANGED <<head, n, data, item>>
  BY UpMoves
<1>2. s \in Buffer!Sems /\ (\A r \in Buffer!Sems : sem[r].count \in Nat) /\ at[t] = from
  BY <1>1 DEF BufferTypes, Semaphores, Ups
<1>3. /\ Cardinality(Those(at, FullHeld)) \in Nat /\ Cardinality(Those(at, EmptyHeld)) \in Nat
      /\ Cardinality(Those(at, LockHeld)) \in Nat
  BY FS_CardinalityType DEF BufferCounts
<1>4. CASE at' = [at EXCEPT ![t] = to] /\ sem'[s].count = sem[s].count + 1
  <2>1. ASSUME NEW L \in {FullHeld, EmptyHeld, LockHeld}
        PROVE
          /\ IsFiniteSet(Those(at, L)')
          /\ to \notin L /\ from \in L =>
               Cardinality(Those(at, L)') = Cardinality(Those(at, L)) - 1
          /\ (to \in L <=> from \in L) =>
               Cardinality(Those(at, L)') = Cardinality(Those(at, L))
    BY <1>2, <1>4, Moved
  <2>2. Cardinality(Those(at, FullHeld)') =
          Cardinality(Those(at, FullHeld)) - (IF s = "nFull" THEN 1 ELSE 0)
    <3>1. /\ s = "nFull" => to \notin FullHeld /\ from \in FullHeld
          /\ s # "nFull" => (to \in FullHeld <=> from \in FullHeld)
      BY DEF Ups, FullHeld
    <3> QED
      BY <1>3, <2>1, <3>1
  <2>3. Cardinality(Those(at, EmptyHeld)') =
          Cardinality(Those(at, EmptyHeld)) - (IF s = "nEmpty" THEN 1 ELSE 0)
    <3>1. /\ s = "nEmpty" => to \notin EmptyHeld /\ from \in EmptyHeld
          /\ s # "nEmpty" => (to \in EmptyHeld <=> from \in EmptyHeld)
      BY DEF Ups, EmptyHeld
    <3> QED
      BY <1>3, <2>1, <3>1
  <2>4. Cardinality(Those(at, LockHeld)') =
          Cardinality(Those(at, LockHeld)) - (IF s = "lock" THEN 1 ELSE 0)
    <3>1. /\ s = "lock" => to \notin LockHeld /\ from \in LockHeld
          /\ s # "lock" => (to \in LockHeld <=> from \in LockHeld)
      BY DEF Ups, LockHeld
    <3> QED
      BY <1>3, <2>1, <3>1
  <2>5. BufferCounts'
    BY <1>1, <1>2, <1>3, <1>4, <2>1, <2>2, <2>3, <2>4 DEF BufferCounts
  <2>6. \A u \in Buffer!Threads : at'[u] = "putCount" => at[u] = "putCount"
    BY <1>4 DEF Ups, at
  <2>7. \A u \in Putters : pcBuffer'[u] = "putCount" => pcBuffer[u] = "putCount"
    <3>1. \A u \in Putters : pcBuffer'[u] = "putCount" => at'[u] = "putCount"
      BY DEF at
    <3>2. \A u \in Putters : at[u] = "putCount" => pcBuffer[u] = "putCount"
      BY AtIsPc DEF PutLabels
    <3> QED
      BY <2>6, <3>1, <3>2
  <2> QED
    BY <1>1, <2>5, <2>7 DEF BufferData
<1>5. ASSUME NEW w \in Buffer!Threads \ {t},
             pcBuffer[w] = "asleep", then[w] \in Wakes(s), at[w] = Calling(then[w]),
             at' = [at EXCEPT ![t] = to, ![w] = then[w]], sem'[s].count = sem[s].count
      PROVE  BufferInv'
  <2> DEFINE Fits(L) ==
        \/ at[t] \in L /\ to \notin L /\ at[w] \notin L /\ then[w] \in L
        \/ (to \in L <=> at[t] \in L) /\ (then[w] \in L <=> at[w] \in L)
  <2>1. Fits(FullHeld)
    BY <1>1, <1>5 DEF Ups, Wakes, Calling, FullHeld
  <2>2. Fits(EmptyHeld)
    BY <1>1, <1>5 DEF Ups, Wakes, Calling, EmptyHeld
  <2>3. Fits(LockHeld)
    BY <1>1, <1>5 DEF Ups, Wakes, Calling, LockHeld
  <2>4. \A L \in {FullHeld, EmptyHeld, LockHeld} :
          IsFiniteSet(Those(at, L)') /\ Cardinality(Those(at, L)') = Cardinality(Those(at, L))
    BY <1>5, <2>1, <2>2, <2>3, MovedBoth
  <2>5. BufferCounts'
    BY <1>1, <1>2, <1>5, <2>4 DEF BufferCounts
  <2>6. \A u \in Buffer!Threads : at'[u] = "putCount" => at[u] = "putCount"
    BY <1>5 DEF Ups, at, Wakes
  <2>7. BufferData'
    <3>1. \A u \in Putters : pcBuffer'[u] = "putCount" => at'[u] = "putCount"
      BY DEF at
    <3>2. \A u \in Putters : at[u] = "putCount" => pcBuffer[u] = "putCount"
      BY AtIsPc DEF PutLabels
    <3> QED
      BY <1>1, <2>6, <3>1, <3>2 DEF BufferData
  <2> QED
    BY <1>1, <2>5, <2>7
<1> QED
  BY <1>1, <1>4, <1>5

\* What the steps below have in common: a thread moves and the semaphores stay.
LEMMA GoesOn ==
  ASSUME BufferInv, NEW t \in Buffer!Threads, NEW from, NEW to, Buffer!Goto(t, from, to),
         UNCHANGED <<sem, then>>,
         <<from, to>> \in {<<"out", "putEmpty">>, <<"putData", "putCount">>,
           <<"putCount", "putUnlock">>, <<"getData", "getCount">>, <<"getCount", "getUnlock">>}
  PROVE  /\ pcBuffer' \in [Buffer!Threads -> PutLabels \cup GetLabels \cup {"asleep"}]
         /\ \A u \in Putters : pcBuffer'[u] \in PutLabels \cup {"asleep"}
         /\ \A u \in Getters : pcBuffer'[u] \in GetLabels \cup {"asleep"}
         /\ \A u \in Buffer!Threads : pcBuffer'[u] = "asleep" => pcBuffer[u] = "asleep"
         /\ at' = [at EXCEPT ![t] = to] /\ at[t] = from
         /\ BufferQueues'
<1> USE BufferConstants DEF Buffer!Goto, BufferInv, BufferTypes
<1>1. /\ pcBuffer' \in [Buffer!Threads -> PutLabels \cup GetLabels \cup {"asleep"}]
      /\ \A u \in Putters : pcBuffer'[u] \in PutLabels \cup {"asleep"}
      /\ \A u \in Getters : pcBuffer'[u] \in GetLabels \cup {"asleep"}
  BY DEF PutLabels, GetLabels
<1>2. \A u \in Buffer!Threads : pcBuffer'[u] = "asleep" => pcBuffer[u] = "asleep"
  OBVIOUS
<1>3. at' = [at EXCEPT ![t] = to] /\ at[t] = from
  BY DEF at
<1>4. BufferQueues'
  <2> SUFFICES ASSUME NEW r \in Buffer!Sems PROVE QueueOk(r, sem[r].waiting)'
    BY DEF BufferQueues
  <2>1. \A k \in DOMAIN sem[r].waiting :
          sem[r].waiting[k] \in Buffer!Threads /\ sem[r].waiting[k] # t
    BY DEF BufferQueues, QueueOk, Semaphores
  <2> QED
    BY <2>1 DEF BufferQueues, QueueOk
<1> QED
  BY <1>1, <1>2, <1>3, <1>4

\* A call of put() holds nothing yet.
LEMMA CallPutKeeps ==
  ASSUME BufferInv, NEW t \in Putters, NEW i \in Items, Buffer!CallPut(t, i)
  PROVE  BufferInv'
<1> USE BufferConstants DEF Buffer!CallPut, Buffer!fields
<1>1. /\ pcBuffer' \in [Buffer!Threads -> PutLabels \cup GetLabels \cup {"asleep"}]
      /\ \A u \in Putters : pcBuffer'[u] \in PutLabels \cup {"asleep"}
      /\ \A u \in Getters : pcBuffer'[u] \in GetLabels \cup {"asleep"}
      /\ \A u \in Buffer!Threads : pcBuffer'[u] = "asleep" => pcBuffer[u] = "asleep"
      /\ at' = [at EXCEPT ![t] = "putEmpty"] /\ at[t] = "out"
      /\ BufferQueues'
  BY GoesOn
<1> USE DEF BufferInv
<1>2. BufferTypes'
  BY <1>1 DEF BufferTypes
<1>3. BufferCounts'
  <2>1. ASSUME NEW L \in {FullHeld, EmptyHeld, LockHeld}
        PROVE  IsFiniteSet(Those(at, L)') /\ Cardinality(Those(at, L)') = Cardinality(Those(at, L))
    <3>1. "out" \notin L /\ "putEmpty" \notin L
      BY DEF FullHeld, EmptyHeld, LockHeld
    <3> QED
      BY <1>1, <3>1, Moved
  <2> QED
    BY <2>1 DEF BufferCounts
<1>4. BufferData'
  BY DEF BufferData, Buffer!Goto, BufferTypes
<1> QED
  BY <1>1, <1>2, <1>3, <1>4

\* data[(head+n) % N] = t, in a slot that the thread holds.
LEMMA PutDataKeeps ==
  ASSUME BufferInv, NEW t \in Buffer!Threads, Buffer!PutData(t)
  PROVE  BufferInv'
<1> USE BufferConstants DEF Buffer!PutData
<1>1. /\ pcBuffer' \in [Buffer!Threads -> PutLabels \cup GetLabels \cup {"asleep"}]
      /\ \A u \in Putters : pcBuffer'[u] \in PutLabels \cup {"asleep"}
      /\ \A u \in Getters : pcBuffer'[u] \in GetLabels \cup {"asleep"}
      /\ \A u \in Buffer!Threads : pcBuffer'[u] = "asleep" => pcBuffer[u] = "asleep"
      /\ at' = [at EXCEPT ![t] = "putCount"] /\ at[t] = "putData"
      /\ BufferQueues'
  BY GoesOn
<1> USE DEF BufferInv
<1>2. (head + n) % N \in 0..(N - 1)
  BY DEF BufferTypes
<1>3. BufferTypes'
  BY <1>1, <1>2 DEF BufferTypes
<1>4. BufferCounts'
  <2>1. ASSUME NEW L \in {FullHeld, EmptyHeld, LockHeld}
        PROVE  IsFiniteSet(Those(at, L)') /\ Cardinality(Those(at, L)') = Cardinality(Those(at, L))
    <3>1. "putData" \in L <=> "putCount" \in L
      BY DEF FullHeld, EmptyHeld, LockHeld
    <3> QED
      BY <1>1, <3>1, Moved
  <2> QED
    BY <2>1 DEF BufferCounts
<1>5. BufferData'
  <2> SUFFICES ASSUME NEW u \in Putters, pcBuffer'[u] = "putCount"
               PROVE  data'[(head + n) % N] = item[u]
    BY DEF BufferData
  <2>1. u = t
    <3>1. at[t] \in LockHeld /\ (pcBuffer[u] = "putCount" => at[u] \in LockHeld)
      BY <1>1 DEF at, LockHeld
    <3>2. pcBuffer[u] = "putCount" => u = t
      BY <3>1, BufferMutex
    <3> QED
      BY <3>2 DEF Buffer!Goto, BufferTypes
  <2> QED
    BY <1>2, <2>1 DEF BufferTypes
<1> QED
  BY <1>1, <1>3, <1>4, <1>5

\* n += 1: an empty slot has become a full one.
LEMMA PutCountKeeps ==
  ASSUME BufferInv, NEW t \in Buffer!Threads, Buffer!PutCount(t)
  PROVE  BufferInv'
<1> USE BufferConstants DEF Buffer!PutCount
<1>1. /\ pcBuffer' \in [Buffer!Threads -> PutLabels \cup GetLabels \cup {"asleep"}]
      /\ \A u \in Putters : pcBuffer'[u] \in PutLabels \cup {"asleep"}
      /\ \A u \in Getters : pcBuffer'[u] \in GetLabels \cup {"asleep"}
      /\ \A u \in Buffer!Threads : pcBuffer'[u] = "asleep" => pcBuffer[u] = "asleep"
      /\ at' = [at EXCEPT ![t] = "putUnlock"] /\ at[t] = "putCount"
      /\ BufferQueues'
  BY GoesOn
<1> USE DEF BufferInv
<1>2. BufferTypes'
  BY <1>1 DEF BufferTypes
<1>3. BufferCounts'
  <2>1. /\ "putUnlock" \in FullHeld /\ "putCount" \notin FullHeld
        /\ "putUnlock" \notin EmptyHeld /\ "putCount" \in EmptyHeld
        /\ "putUnlock" \in LockHeld /\ "putCount" \in LockHeld
    BY DEF FullHeld, EmptyHeld, LockHeld
  <2>2. IsFiniteSet(Those(at, FullHeld)')
        /\ Cardinality(Those(at, FullHeld)') = Cardinality(Those(at, FullHeld)) + 1
    BY <1>1, <2>1, Moved
  <2>3. IsFiniteSet(Those(at, EmptyHeld)')
        /\ Cardinality(Those(at, EmptyHeld)') = Cardinality(Those(at, EmptyHeld)) - 1
    BY <1>1, <2>1, Moved
  <2>4. IsFiniteSet(Those(at, LockHeld)')
        /\ Cardinality(Those(at, LockHeld)') = Cardinality(Those(at, LockHeld))
    BY <1>1, <2>1, Moved
  <2>5. /\ Cardinality(Those(at, FullHeld)) \in Nat /\ Cardinality(Those(at, EmptyHeld)) \in Nat
        /\ sem["nFull"].count \in Nat /\ sem["nEmpty"].count \in Nat
    BY FS_CardinalityType DEF BufferCounts, BufferTypes, Semaphores
  <2>6. n' = n + 1 /\ sem' = sem /\ n \in Nat /\ N \in Nat
    BY DEF BufferTypes
  <2>7. /\ n = sem["nFull"].count + Cardinality(Those(at, FullHeld))
        /\ N - n = sem["nEmpty"].count + Cardinality(Those(at, EmptyHeld))
        /\ 1 = sem["lock"].count + Cardinality(Those(at, LockHeld))
    BY DEF BufferCounts
  <2>8. n' = sem'["nFull"].count + Cardinality(Those(at, FullHeld)')
    BY ONLY <2>2, <2>5, <2>6, <2>7
  <2>9. N - n' = sem'["nEmpty"].count + Cardinality(Those(at, EmptyHeld)')
    BY ONLY <2>3, <2>5, <2>6, <2>7
  <2>10. 1 = sem'["lock"].count + Cardinality(Those(at, LockHeld)')
    BY ONLY <2>4, <2>6, <2>7
  <2> QED
    BY <2>2, <2>3, <2>4, <2>8, <2>9, <2>10 DEF BufferCounts
<1>4. BufferData'
  <2> SUFFICES ASSUME NEW u \in Putters PROVE pcBuffer'[u] # "putCount"
    BY DEF BufferData
  <2>1. at[t] \in LockHeld /\ (pcBuffer[u] = "putCount" => at[u] \in LockHeld)
    BY <1>1 DEF at, LockHeld
  <2>2. pcBuffer[u] = "putCount" => u = t
    BY <2>1, BufferMutex
  <2> QED
    BY <2>2 DEF Buffer!Goto, BufferTypes
<1> QED
  BY <1>1, <1>2, <1>3, <1>4

\* T out = data[head], head = (head+1) % N.
LEMMA GetDataKeeps ==
  ASSUME BufferInv, NEW t \in Buffer!Threads, Buffer!GetData(t)
  PROVE  BufferInv'
<1> USE BufferConstants DEF Buffer!GetData
<1>1. /\ pcBuffer' \in [Buffer!Threads -> PutLabels \cup GetLabels \cup {"asleep"}]
      /\ \A u \in Putters : pcBuffer'[u] \in PutLabels \cup {"asleep"}
      /\ \A u \in Getters : pcBuffer'[u] \in GetLabels \cup {"asleep"}
      /\ \A u \in Buffer!Threads : pcBuffer'[u] = "asleep" => pcBuffer[u] = "asleep"
      /\ at' = [at EXCEPT ![t] = "getCount"] /\ at[t] = "getData"
      /\ BufferQueues'
  BY GoesOn
<1> USE DEF BufferInv
<1>2. (head + 1) % N \in 0..(N - 1)
  BY DEF BufferTypes
<1>3. BufferTypes'
  BY <1>1, <1>2 DEF BufferTypes
<1>4. BufferCounts'
  <2>1. ASSUME NEW L \in {FullHeld, EmptyHeld, LockHeld}
        PROVE  IsFiniteSet(Those(at, L)') /\ Cardinality(Those(at, L)') = Cardinality(Those(at, L))
    <3>1. "getData" \in L <=> "getCount" \in L
      BY DEF FullHeld, EmptyHeld, LockHeld
    <3> QED
      BY <1>1, <3>1, Moved
  <2> QED
    BY <2>1 DEF BufferCounts
<1>5. BufferData'
  <2> SUFFICES ASSUME NEW u \in Putters PROVE pcBuffer'[u] # "putCount"
    BY DEF BufferData
  <2>1. at[t] \in LockHeld /\ (pcBuffer[u] = "putCount" => at[u] \in LockHeld /\ u # t)
    BY <1>1 DEF at, LockHeld
  <2>2. pcBuffer[u] # "putCount"
    BY <2>1, BufferMutex
  <2> QED
    BY <2>2 DEF Buffer!Goto, BufferTypes
<1> QED
  BY <1>1, <1>3, <1>4, <1>5

\* n -= 1: a full slot has become an empty one.
LEMMA GetCountKeeps ==
  ASSUME BufferInv, NEW t \in Buffer!Threads, Buffer!GetCount(t)
  PROVE  BufferInv'
<1> USE BufferConstants DEF Buffer!GetCount
<1>1. /\ pcBuffer' \in [Buffer!Threads -> PutLabels \cup GetLabels \cup {"asleep"}]
      /\ \A u \in Putters : pcBuffer'[u] \in PutLabels \cup {"asleep"}
      /\ \A u \in Getters : pcBuffer'[u] \in GetLabels \cup {"asleep"}
      /\ \A u \in Buffer!Threads : pcBuffer'[u] = "asleep" => pcBuffer[u] = "asleep"
      /\ at' = [at EXCEPT ![t] = "getUnlock"] /\ at[t] = "getCount"
      /\ BufferQueues'
  BY GoesOn
<1> USE DEF BufferInv
<1>2. n >= 1
  BY <1>1, BufferSlots DEF FullHeld
<1>3. BufferTypes'
  BY <1>1, <1>2 DEF BufferTypes
<1>4. BufferCounts'
  <2>1. /\ "getUnlock" \notin FullHeld /\ "getCount" \in FullHeld
        /\ "getUnlock" \in EmptyHeld /\ "getCount" \notin EmptyHeld
        /\ "getUnlock" \in LockHeld /\ "getCount" \in LockHeld
    BY DEF FullHeld, EmptyHeld, LockHeld
  <2>2. IsFiniteSet(Those(at, FullHeld)')
        /\ Cardinality(Those(at, FullHeld)') = Cardinality(Those(at, FullHeld)) - 1
    BY <1>1, <2>1, Moved
  <2>3. IsFiniteSet(Those(at, EmptyHeld)')
        /\ Cardinality(Those(at, EmptyHeld)') = Cardinality(Those(at, EmptyHeld)) + 1
    BY <1>1, <2>1, Moved
  <2>4. IsFiniteSet(Those(at, LockHeld)')
        /\ Cardinality(Those(at, LockHeld)') = Cardinality(Those(at, LockHeld))
    BY <1>1, <2>1, Moved
  <2>5. /\ Cardinality(Those(at, FullHeld)) \in Nat /\ Cardinality(Those(at, EmptyHeld)) \in Nat
        /\ sem["nFull"].count \in Nat /\ sem["nEmpty"].count \in Nat
    BY FS_CardinalityType DEF BufferCounts, BufferTypes, Semaphores
  <2>6. n' = n - 1 /\ sem' = sem /\ n \in Nat /\ N \in Nat
    BY DEF BufferTypes
  <2>7. /\ n = sem["nFull"].count + Cardinality(Those(at, FullHeld))
        /\ N - n = sem["nEmpty"].count + Cardinality(Those(at, EmptyHeld))
        /\ 1 = sem["lock"].count + Cardinality(Those(at, LockHeld))
    BY DEF BufferCounts
  <2>8. n' = sem'["nFull"].count + Cardinality(Those(at, FullHeld)')
    <3>1. \A a, b \in Nat : a + b - 1 = a + (b - 1)
      OBVIOUS
    <3> QED
      BY ONLY <2>2, <2>5, <2>6, <2>7, <3>1
  <2>9. N - n' = sem'["nEmpty"].count + Cardinality(Those(at, EmptyHeld)')
    BY ONLY <2>3, <2>5, <2>6, <2>7
  <2>10. 1 = sem'["lock"].count + Cardinality(Those(at, LockHeld)')
    BY ONLY <2>4, <2>6, <2>7
  <2> QED
    BY <2>2, <2>3, <2>4, <2>8, <2>9, <2>10 DEF BufferCounts
<1>5. BufferData'
  <2> SUFFICES ASSUME NEW u \in Putters PROVE pcBuffer'[u] # "putCount"
    BY DEF BufferData
  <2>1. at[t] \in LockHeld /\ (pcBuffer[u] = "putCount" => at[u] \in LockHeld /\ u # t)
    BY <1>1 DEF at, LockHeld
  <2>2. pcBuffer[u] # "putCount"
    BY <2>1, BufferMutex
  <2> QED
    BY <2>2 DEF Buffer!Goto, BufferTypes
<1> QED
  BY <1>1, <1>3, <1>4, <1>5

\* Each step of put() and get() keeps the invariant.
LEMMA WorkKeeps ==
  ASSUME BufferInv, NEW t \in Buffer!Threads, Buffer!Work(t)
  PROVE  BufferInv'
<1>1. CASE Buffer!PutEmpty(t) \/ Buffer!PutLock(t) \/ Buffer!GetFull(t) \/ Buffer!GetLock(t)
  BY <1>1, DownKeeps
     DEF Buffer!PutEmpty, Buffer!PutLock, Buffer!GetFull, Buffer!GetLock, Downs
<1>2. CASE Buffer!PutUnlock(t) \/ Buffer!PutFull(t) \/ Buffer!GetUnlock(t) \/ Buffer!GetEmpty(t)
  BY <1>2, UpKeeps
     DEF Buffer!PutUnlock, Buffer!PutFull, Buffer!GetUnlock, Buffer!GetEmpty, Ups
<1> QED
  BY <1>1, <1>2, PutDataKeeps, PutCountKeeps, GetDataKeeps, GetCountKeeps DEF Buffer!Work

\* Each step of any component keeps it.
LEMMA NextKeeps == BufferInv /\ [Next]_vars => BufferInv'
<1> SUFFICES ASSUME BufferInv, [Next]_vars PROVE BufferInv'
  OBVIOUS
<1>1. CASE CallPut \/ \E t \in Putters \cup Getters : BufferWork(t)
  BY <1>1, CallPutKeeps, WorkKeeps, BufferConstants DEF CallPut, BufferWork
<1>2. CASE UNCHANGED buffer
  BY <1>2 DEF buffer, BufferInv, BufferTypes, BufferQueues, QueueOk, BufferCounts, BufferData,
              at, Those
<1> QED
  BY <1>1, <1>2 DEF Next, vars, BarrierStep, BarrierCall, RoundsStep, BootStep

\* bb.h: the invariant that says who holds which slot of the ring, and the lock.
THEOREM BufferInvariant == FairSpec => []BufferInv
<1>1. Init => BufferInv
  BY BufferInitially
<1>2. BufferInv /\ [Next]_vars => BufferInv'
  BY NextKeeps
<1> QED
  BY <1>1, <1>2, PTL DEF FairSpec

\* The permits account for the slots of the ring, as the counts of the invariant say.
LEMMA BufferAccounts == BufferInv => Buffer!SlotsAccounted
<1> SUFFICES ASSUME BufferInv PROVE Buffer!SlotsAccounted
  OBVIOUS
<1> DEFINE InLock  == {t \in Buffer!Threads : pcBuffer[t] \in {"putData", "putCount", "putUnlock",
                                                   "getData", "getCount", "getUnlock"}}
           Holding == InLock \cup {t \in Buffer!Threads :
                        \/ pcBuffer[t] \in {"putLock", "putFull", "getLock", "getEmpty"}
                        \/ pcBuffer[t] = "asleep" /\ then[t] \in {"putData", "getData"}}
<1>1. \A t \in Buffer!Threads : pcBuffer[t] = "asleep" =>
        then[t] \in {"putLock", "putData", "getLock", "getData"}
  BY DEF BufferInv, BufferTypes
<1>2. InLock = Those(at, LockHeld)
  BY <1>1 DEF Those, at, Calling, LockHeld
<1>3. Holding = Those(at, FullHeld) \cup Those(at, EmptyHeld)
  BY <1>1 DEF Those, at, Calling, FullHeld, EmptyHeld
<1>4. Those(at, FullHeld) \cap Those(at, EmptyHeld) = {}
  BY DEF Those, FullHeld, EmptyHeld
<1> HIDE DEF InLock, Holding
<1>5. /\ IsFiniteSet(Those(at, FullHeld)) /\ IsFiniteSet(Those(at, EmptyHeld))
      /\ n = sem["nFull"].count + Cardinality(Those(at, FullHeld))
      /\ N - n = sem["nEmpty"].count + Cardinality(Those(at, EmptyHeld))
      /\ 1 = sem["lock"].count + Cardinality(Those(at, LockHeld))
  BY DEF BufferInv, BufferCounts
<1>6. Cardinality(Holding) = Cardinality(Those(at, FullHeld)) + Cardinality(Those(at, EmptyHeld))
  <2>1. Cardinality(Holding) = Cardinality(Those(at, FullHeld)) + Cardinality(Those(at, EmptyHeld))
          - Cardinality(Those(at, FullHeld) \cap Those(at, EmptyHeld))
    BY <1>3, <1>5, FS_Union
  <2>2. Cardinality(Those(at, FullHeld) \cap Those(at, EmptyHeld)) = 0
    BY <1>4, FS_EmptySet
  <2>3. Cardinality(Those(at, FullHeld)) \in Nat /\ Cardinality(Those(at, EmptyHeld)) \in Nat
    BY <1>5, FS_CardinalityType
  <2> QED
    BY ONLY <2>1, <2>2, <2>3
<1>7. /\ N \in Nat /\ n \in Nat /\ sem["nFull"].count \in Nat /\ sem["nEmpty"].count \in Nat
      /\ Cardinality(Those(at, FullHeld)) \in Nat /\ Cardinality(Those(at, EmptyHeld)) \in Nat
  BY <1>5, BufferConstants, FS_CardinalityType DEF BufferInv, BufferTypes, Semaphores
<1>8. sem["nEmpty"].count + sem["nFull"].count + Cardinality(Holding) = N
  BY ONLY <1>5, <1>6, <1>7
<1>9. sem["lock"].count + Cardinality(InLock) = 1
  BY <1>2, <1>5
<1>10. Buffer!Cardinality(Holding) = Cardinality(Holding)
       /\ Buffer!Cardinality(InLock) = Cardinality(InLock)
  BY DEF Buffer!Cardinality, Cardinality
<1> QED
  BY <1>8, <1>9, <1>10 DEF Buffer!SlotsAccounted, InLock, Holding

\* condition.h and bb.h: no signal and no permit is ever lost, for any number of
\* threads, rounds and slots (the counts and queues of their semaphores add up).
THEOREM NothingIsLost == FairSpec => []NothingLost
BY RoundsKeepTogether, BufferInvariant, BufferAccounts, PTL DEF NothingLost

-----------------------------------------------------------------------------
(* The ring implements the queue *)

\* A getter that has moved head and not yet n is alone between the two.
LEMMA BetweenIs ==
  ASSUME BufferInv
  PROVE  /\ \A g \in Getters : pcBuffer[g] = "getCount" => Buffer!Between = 1
         /\ (\A g \in Getters : pcBuffer[g] # "getCount") => Buffer!Between = 0
<1> DEFINE S == {t \in Getters : pcBuffer[t] = "getCount"}
<1>1. Buffer!Between = Cardinality(S)
  BY DEF Buffer!Between, Buffer!Cardinality, Cardinality
<1>2. ASSUME NEW g \in Getters, pcBuffer[g] = "getCount" PROVE Buffer!Between = 1
  <2>1. at[g] \in LockHeld /\ \A t \in S : t \in Buffer!Threads /\ at[t] \in LockHeld
    BY <1>2, BufferConstants DEF at, LockHeld
  <2>2. S = {g}
    BY <1>2, <2>1, BufferMutex, BufferConstants DEF BufferInv
  <2> QED
    BY <1>1, <2>2, FS_Singleton
<1>3. ASSUME \A g \in Getters : pcBuffer[g] # "getCount" PROVE Buffer!Between = 0
  BY <1>1, <1>3, FS_EmptySet
<1> QED
  BY <1>2, <1>3

\* The m items from slot h on, in their order.
Ring(d, h, m) == [k \in 1..m |-> d[(h + k - 1) % N]]

\* What is in the ring is a sequence of items.
LEMMA RingType ==
  ASSUME NEW d \in [0..(N - 1) -> Items], NEW h \in 0..(N - 1), NEW m \in Nat
  PROVE  Ring(d, h, m) \in Seq(Items) /\ Len(Ring(d, h, m)) = m
<1>1. N \in Nat \ {0}
  BY BufferConstants
<1>2. \A k \in 1..m : d[(h + k - 1) % N] \in Items
  BY <1>1
<1> QED
  BY <1>2 DEF Ring

\* To count one more item is to append the one behind the last.
LEMMA RingPut ==
  ASSUME NEW d \in [0..(N - 1) -> Items], NEW h \in 0..(N - 1), NEW m \in 0..(N - 1)
  PROVE  Ring(d, h, m + 1) = Append(Ring(d, h, m), d[(h + m) % N])
<1>1. N \in Nat \ {0} /\ m \in Nat /\ m + 1 \in Nat /\ (h + m) % N \in 0..(N - 1)
  BY BufferConstants
<1> DEFINE R == Ring(d, h, m)
           S == Ring(d, h, m + 1)
           x == d[(h + m) % N]
<1>2. R \in Seq(Items) /\ Len(R) = m /\ S \in Seq(Items) /\ Len(S) = m + 1 /\ x \in Items
  BY <1>1, RingType
<1>3. \A k \in 1..m : S[k] = R[k]
  BY <1>1 DEF Ring
<1>4. S[m + 1] = x
  BY <1>1 DEF Ring
<1> HIDE DEF R, S, x
<1>5. /\ Append(R, x) \in Seq(Items) /\ Len(Append(R, x)) = m + 1
      /\ \A k \in 1..m : Append(R, x)[k] = R[k]
      /\ Append(R, x)[m + 1] = x
  BY ONLY <1>2
<1>6. \A k \in 1..(m + 1) : S[k] = Append(R, x)[k]
  BY <1>1, <1>3, <1>4, <1>5
<1> QED
  BY <1>2, <1>5, <1>6, SeqEqual DEF R, S, x

\* To move the first slot on is to take the first item.
LEMMA RingTake ==
  ASSUME NEW d \in [0..(N - 1) -> Items], NEW h \in 0..(N - 1), NEW m \in 1..N
  PROVE  /\ Ring(d, h, m) # <<>> /\ Head(Ring(d, h, m)) = d[h]
         /\ Ring(d, (h + 1) % N, m - 1) = Tail(Ring(d, h, m))
<1>1. N \in Nat \ {0} /\ m \in Nat /\ m - 1 \in Nat /\ (h + 1) % N \in 0..(N - 1)
  BY BufferConstants
<1> DEFINE R == Ring(d, h, m)
           S == Ring(d, (h + 1) % N, m - 1)
<1>2. R \in Seq(Items) /\ Len(R) = m /\ S \in Seq(Items) /\ Len(S) = m - 1
  BY <1>1, RingType
<1>3. R[1] = d[h]
  <2>1. h + 1 - 1 = h /\ h % N = h
    BY <1>1
  <2> QED
    BY <1>1, <2>1 DEF Ring
<1>4. ASSUME NEW k \in 1..(m - 1) PROVE S[k] = R[k + 1]
  <2> DEFINE e == (h + 1) % N
  <2>1. /\ k - 1 \in 0..(N - 1) /\ k \in 0..(N - 1) /\ 1 \in 0..(N - 1)
        /\ h \in 0..(N - 1) /\ e \in 0..(N - 1)
    BY <1>1
  <2>2. e = IF h + 1 < N THEN h + 1 ELSE h + 1 - N
    BY <1>1, <2>1, SlotOf
  <2>3. (h + k) % N = IF h + k < N THEN h + k ELSE h + k - N
    BY <1>1, <2>1, SlotOf
  <2> HIDE DEF e
  <2>4. (e + (k - 1)) % N = IF e + (k - 1) < N THEN e + (k - 1) ELSE e + (k - 1) - N
    BY <1>1, <2>1, SlotOf
  <2>5. (e + (k - 1)) % N = (h + k) % N
    BY ONLY <1>1, <2>1, <2>2, <2>3, <2>4
  <2>6. e + k - 1 = e + (k - 1) /\ h + (k + 1) - 1 = h + k
    BY <1>1
  <2>7. S[k] = d[(e + k - 1) % N] /\ R[k + 1] = d[(h + (k + 1) - 1) % N]
    BY <1>1 DEF Ring, e
  <2> QED
    BY <2>5, <2>6, <2>7
<1> HIDE DEF R, S
<1>5. /\ R # <<>> /\ Head(R) = R[1] /\ Tail(R) \in Seq(Items) /\ Len(Tail(R)) = m - 1
      /\ \A k \in 1..(m - 1) : Tail(R)[k] = R[k + 1]
  BY ONLY <1>1, <1>2
<1>6. \A k \in 1..(m - 1) : S[k] = Tail(R)[k]
  BY <1>4, <1>5
<1>7. S = Tail(R)
  BY <1>2, <1>5, <1>6, SeqEqual
<1> QED
  BY <1>3, <1>5, <1>7 DEF R, S

\* The slot behind the last is none of those in use.
LEMMA RingWrite ==
  ASSUME NEW d \in [0..(N - 1) -> Items], NEW h \in 0..(N - 1), NEW m \in 0..(N - 1),
         NEW l \in 0..m, NEW i
  PROVE  Ring([d EXCEPT ![(h + m) % N] = i], h, l) = Ring(d, h, l)
<1>1. N \in Nat \ {0}
  BY BufferConstants
<1>2. ASSUME NEW k \in 1..l PROVE (h + k - 1) % N # (h + m) % N /\ (h + k - 1) % N \in 0..(N - 1)
  <2>1. k - 1 \in 0..(N - 1) /\ h + k - 1 = h + (k - 1) /\ k - 1 < m
    BY <1>1
  <2>2. (h + (k - 1)) % N = IF h + (k - 1) < N THEN h + (k - 1) ELSE h + (k - 1) - N
    BY <1>1, <2>1, SlotOf
  <2>3. (h + m) % N = IF h + m < N THEN h + m ELSE h + m - N
    BY <1>1, <2>1, SlotOf
  <2> QED
    BY <1>1, <2>1, <2>2, <2>3
<1> QED
  BY <1>2 DEF Ring

\* The queue is what lies between head and the last item that n counts; a getter
\* that has moved head has taken its item.
LEMMA InRingIs ==
  ASSUME BufferInv
  PROVE  /\ Buffer!Between \in {0, 1} /\ n - Buffer!Between \in Nat
         /\ Buffer!InRing = Ring(data, head, n - Buffer!Between)
<1>1. Buffer!Between \in {0, 1}
  BY BetweenIs
<1>2. Buffer!Between = 1 => n >= 1
  <2> SUFFICES ASSUME NEW g \in Getters, pcBuffer[g] = "getCount" PROVE n >= 1
    BY BetweenIs
  <2> QED
    BY BufferSlots, BufferConstants DEF BufferInv, at, FullHeld
<1>3. n \in Nat
  BY DEF BufferInv, BufferTypes
<1>4. (IF n > Buffer!Between THEN n - Buffer!Between ELSE 0) = n - Buffer!Between
  BY <1>1, <1>2, <1>3
<1> QED
  BY <1>1, <1>2, <1>3, <1>4 DEF Buffer!InRing, Ring

\* A step that moves no item: the queue, what is offered and what was got stay.
LEMMA QueueStays ==
  ASSUME BufferInv, BufferInv', UNCHANGED <<head, n, data, item>>,
         \A p \in Putters : pcBuffer[p] \in {"out", "putUnlock", "putFull"} <=>
                            pcBuffer'[p] \in {"out", "putUnlock", "putFull"},
         \A g \in Getters : pcBuffer[g] = "getCount" <=> pcBuffer'[g] = "getCount"
  PROVE  UNCHANGED Buffer!Abstract!vars
<1>1. Buffer!Offered' = Buffer!Offered
  BY DEF Buffer!Offered
<1>2. Buffer!Between' = Buffer!Between
  BY DEF Buffer!Between
<1>3. Buffer!InRing' = Buffer!InRing
  BY <1>2 DEF Buffer!InRing
<1>4. [g \in Getters |-> item[g]]' = [g \in Getters |-> item[g]]
  OBVIOUS
<1> QED
  BY <1>1, <1>3, <1>4 DEF Buffer!Abstract!vars

\* put() between its call and its return offers its argument until n counts it.
LEMMA CallPutCalls ==
  ASSUME BufferInv, BufferInv', NEW t \in Putters, NEW i \in Items, Buffer!CallPut(t, i)
  PROVE  Buffer!Abstract!Call(t, i)
<1> USE BufferConstants DEF Buffer!CallPut, Buffer!Goto, Buffer!fields, BufferInv, BufferTypes
<1>1. Buffer!Offered[t] = NoItem /\ Buffer!Offered' = [Buffer!Offered EXCEPT ![t] = i]
  BY DEF Buffer!Offered
<1>2. Buffer!Between' = Buffer!Between
  <2>1. {u \in Getters : pcBuffer[u] = "getCount"}' = {u \in Getters : pcBuffer[u] = "getCount"}
    OBVIOUS
  <2> QED
    BY <2>1 DEF Buffer!Between
<1>3. Buffer!InRing' = Buffer!InRing
  BY <1>2 DEF Buffer!InRing
<1>4. [g \in Getters |-> item[g]]' = [g \in Getters |-> item[g]]
  OBVIOUS
<1> QED
  BY <1>1, <1>3, <1>4 DEF Buffer!Abstract!Call

\* data[(head+n) % N] = t, n += 1: the second assignment appends the item.
LEMMA PutCountPuts ==
  ASSUME BufferInv, BufferInv', NEW t \in Buffer!Threads, Buffer!PutCount(t)
  PROVE  t \in Putters /\ Buffer!Abstract!Put(t)
<1> USE BufferConstants DEF Buffer!PutCount, Buffer!Goto
<1>1. t \in Putters /\ pcBuffer[t] = "putCount" /\ pcBuffer' = [pcBuffer EXCEPT ![t] = "putUnlock"]
  BY DEF BufferInv, BufferTypes, GetLabels
<1>2. at[t] \in LockHeld /\ at[t] \in EmptyHeld
  BY <1>1 DEF at, LockHeld, EmptyHeld
<1>3. n \in 0..(N - 1)
  BY <1>2, BufferSlots DEF BufferInv
<1>4. \A g \in Getters : pcBuffer[g] # "getCount" /\ pcBuffer'[g] # "getCount"
  <2>1. \A g \in Getters : pcBuffer[g] = "getCount" => at[g] \in LockHeld /\ g # t
    BY <1>1 DEF at, LockHeld
  <2>2. \A g \in Getters : pcBuffer[g] # "getCount"
    BY <1>2, <2>1, BufferMutex DEF BufferInv
  <2> QED
    BY <1>1, <2>2 DEF BufferInv, BufferTypes
<1>5. Buffer!Between = 0
  BY <1>4, BetweenIs
<1>6. Buffer!Between' = 0
  <2>1. {u \in Getters : pcBuffer[u] = "getCount"}' = {}
    BY <1>4
  <2>2. Buffer!Cardinality({}) = Cardinality({})
    BY DEF Buffer!Cardinality, Cardinality
  <2> QED
    BY <2>1, <2>2, FS_EmptySet DEF Buffer!Between
<1>7. Buffer!InRing = Ring(data, head, n)
  <2>1. n - 0 = n
    BY <1>3
  <2> QED
    BY <1>5, <2>1, InRingIs
<1>8. Buffer!InRing' = Ring(data, head, n + 1)
  <2>1. n + 1 \in Nat /\ n' = n + 1 /\ data' = data /\ head' = head
    BY <1>3
  <2>2. (IF n + 1 > 0 THEN n + 1 - 0 ELSE 0) = n + 1
    BY <2>1
  <2> QED
    BY <1>6, <2>1, <2>2 DEF Buffer!InRing, Ring
<1>9. data[(head + n) % N] = item[t] /\ item[t] \in Items
  BY <1>1 DEF BufferInv, BufferData, BufferTypes
<1>10. Buffer!Offered[t] = item[t] /\ Buffer!Offered' = [Buffer!Offered EXCEPT ![t] = NoItem]
  BY <1>1 DEF Buffer!Offered, BufferInv, BufferTypes
<1>11. data \in [0..(N - 1) -> Items] /\ head \in 0..(N - 1)
  BY DEF BufferInv, BufferTypes
<1>12. Len(Buffer!InRing) < N
  BY <1>3, <1>7, <1>11, RingType
<1>13. Buffer!InRing' = Append(Buffer!InRing, item[t])
  BY <1>3, <1>7, <1>8, <1>9, <1>11, RingPut
<1>14. [g \in Getters |-> item[g]]' = [g \in Getters |-> item[g]]
  OBVIOUS
<1> QED
  BY <1>1, <1>9, <1>10, <1>12, <1>13, <1>14 DEF Buffer!Abstract!Put

\* T out = data[head], head = (head+1) % N: the second assignment takes the oldest item.
LEMMA GetDataGets ==
  ASSUME BufferInv, BufferInv', NEW t \in Buffer!Threads, Buffer!GetData(t)
  PROVE  t \in Getters /\ Buffer!Abstract!Get(t)
<1> USE BufferConstants DEF Buffer!GetData, Buffer!Goto
<1>1. t \in Getters /\ pcBuffer[t] = "getData" /\ pcBuffer' = [pcBuffer EXCEPT ![t] = "getCount"]
  BY DEF BufferInv, BufferTypes, PutLabels
<1>2. at[t] \in LockHeld /\ at[t] \in FullHeld
  BY <1>1 DEF at, LockHeld, FullHeld
<1>3. n \in 1..N
  BY <1>2, BufferSlots DEF BufferInv
<1>4. \A g \in Getters : pcBuffer[g] # "getCount"
  <2>1. \A g \in Getters : pcBuffer[g] = "getCount" => at[g] \in LockHeld /\ g # t
    BY <1>1 DEF at, LockHeld
  <2> QED
    BY <1>2, <2>1, BufferMutex DEF BufferInv
<1>5. Buffer!Between = 0
  BY <1>4, BetweenIs
<1>6. Buffer!Between' = 1
  <2>1. {u \in Getters : pcBuffer[u] = "getCount"}' = {t}
    BY <1>1, <1>4 DEF BufferInv, BufferTypes
  <2>2. Buffer!Cardinality({t}) = Cardinality({t})
    BY DEF Buffer!Cardinality, Cardinality
  <2> QED
    BY <2>1, <2>2, FS_Singleton DEF Buffer!Between
<1>7. Buffer!InRing = Ring(data, head, n)
  <2>1. n - 0 = n
    BY <1>3
  <2> QED
    BY <1>5, <2>1, InRingIs
<1>8. Buffer!InRing' = Ring(data, (head + 1) % N, n - 1)
  <2>1. n - 1 \in Nat /\ n' = n /\ data' = data /\ head' = (head + 1) % N
    BY <1>3
  <2>2. (IF n > 1 THEN n - 1 ELSE 0) = n - 1
    BY <1>3
  <2> QED
    BY <1>6, <2>1, <2>2 DEF Buffer!InRing, Ring
<1>9. data \in [0..(N - 1) -> Items] /\ head \in 0..(N - 1)
  BY DEF BufferInv, BufferTypes
<1>10. Buffer!InRing # <<>> /\ Head(Buffer!InRing) = data[head]
       /\ Buffer!InRing' = Tail(Buffer!InRing)
  BY <1>3, <1>7, <1>8, <1>9, RingTake
<1>11. [g \in Getters |-> item[g]]' = [[g \in Getters |-> item[g]] EXCEPT ![t] = data[head]]
  BY <1>1 DEF BufferInv, BufferTypes
<1>12. Buffer!Offered' = Buffer!Offered
  BY <1>1 DEF Buffer!Offered, BufferInv, BufferTypes
<1> QED
  BY <1>1, <1>10, <1>11, <1>12 DEF Buffer!Abstract!Get

\* The first assignment of put() writes a slot that nobody reads yet.
LEMMA PutDataStays ==
  ASSUME BufferInv, BufferInv', NEW t \in Buffer!Threads, Buffer!PutData(t)
  PROVE  UNCHANGED Buffer!Abstract!vars
<1> USE BufferConstants DEF Buffer!PutData, Buffer!Goto
<1>1. t \in Putters /\ pcBuffer[t] = "putData" /\ pcBuffer' = [pcBuffer EXCEPT ![t] = "putCount"]
  BY DEF BufferInv, BufferTypes, GetLabels
<1>2. n \in 0..(N - 1)
  <2>1. at[t] \in EmptyHeld
    BY <1>1 DEF at, EmptyHeld
  <2> QED
    BY <2>1, BufferSlots DEF BufferInv
<1>3. Buffer!Between' = Buffer!Between
  <2>1. {u \in Getters : pcBuffer[u] = "getCount"}' = {u \in Getters : pcBuffer[u] = "getCount"}
    BY <1>1 DEF BufferInv, BufferTypes
  <2> QED
    BY <2>1 DEF Buffer!Between
<1>4. Buffer!InRing' = Buffer!InRing
  <2> DEFINE m == n - Buffer!Between
  <2>1. m \in 0..n /\ Buffer!InRing = Ring(data, head, m)
    BY <1>2, InRingIs
  <2>2. Buffer!InRing' = Ring(data', head, m)
    <3>1. n' = n /\ head' = head /\ n \in Nat
      BY <1>2
    <3>2. (IF n > Buffer!Between THEN n - Buffer!Between ELSE 0) = m
      BY <2>1, <3>1, InRingIs
    <3> QED
      BY <1>3, <3>1, <3>2 DEF Buffer!InRing, Ring
  <2>3. data \in [0..(N - 1) -> Items] /\ head \in 0..(N - 1)
    BY DEF BufferInv, BufferTypes
  <2>4. data' = [data EXCEPT ![(head + n) % N] = item[t]]
    OBVIOUS
  <2> HIDE DEF m
  <2>5. Ring([data EXCEPT ![(head + n) % N] = item[t]], head, m) = Ring(data, head, m)
    BY ONLY <1>2, <2>1, <2>3, RingWrite
  <2> QED
    BY ONLY <2>1, <2>2, <2>4, <2>5
<1>5. Buffer!Offered' = Buffer!Offered
  BY <1>1 DEF Buffer!Offered, BufferInv, BufferTypes
<1>6. [g \in Getters |-> item[g]]' = [g \in Getters |-> item[g]]
  OBVIOUS
<1> QED
  BY <1>4, <1>5, <1>6 DEF Buffer!Abstract!vars

\* The last assignment of get() counts off the item that it has taken.
LEMMA GetCountStays ==
  ASSUME BufferInv, BufferInv', NEW t \in Buffer!Threads, Buffer!GetCount(t)
  PROVE  UNCHANGED Buffer!Abstract!vars
<1> USE BufferConstants DEF Buffer!GetCount, Buffer!Goto
<1>1. t \in Getters /\ pcBuffer[t] = "getCount" /\ pcBuffer' = [pcBuffer EXCEPT ![t] = "getUnlock"]
  BY DEF BufferInv, BufferTypes, PutLabels
<1>2. Buffer!Between = 1
  BY <1>1, BetweenIs
<1>3. Buffer!Between' = 0
  <2>1. \A g \in Getters : pcBuffer[g] = "getCount" => at[g] \in LockHeld
    BY DEF at, LockHeld
  <2>2. \A g \in Getters : pcBuffer[g] = "getCount" => g = t
    BY <1>1, <2>1, BufferMutex DEF BufferInv
  <2>3. {u \in Getters : pcBuffer[u] = "getCount"}' = {}
    BY <1>1, <2>2 DEF BufferInv, BufferTypes
  <2>4. Buffer!Cardinality({}) = Cardinality({})
    BY DEF Buffer!Cardinality, Cardinality
  <2> QED
    BY <2>3, <2>4, FS_EmptySet DEF Buffer!Between
<1>4. Buffer!InRing' = Buffer!InRing
  <2>1. Buffer!InRing = Ring(data, head, n - 1) /\ n - 1 \in Nat
    BY <1>2, InRingIs
  <2>2. n' = n - 1 /\ data' = data /\ head' = head
    OBVIOUS
  <2>3. (IF n - 1 > 0 THEN n - 1 - 0 ELSE 0) = n - 1
    BY <2>1
  <2> QED
    BY <1>3, <2>1, <2>2, <2>3 DEF Buffer!InRing, Ring
<1>5. Buffer!Offered' = Buffer!Offered
  BY <1>1 DEF Buffer!Offered, BufferInv, BufferTypes
<1>6. [g \in Getters |-> item[g]]' = [g \in Getters |-> item[g]]
  OBVIOUS
<1> QED
  BY <1>4, <1>5, <1>6 DEF Buffer!Abstract!vars

\* down() moves no item, whether the thread passes or sleeps.
LEMMA DownStays ==
  ASSUME BufferInv, BufferInv', NEW t \in Buffer!Threads, NEW from, NEW s, NEW to,
         <<from, s, to>> \in Downs, Buffer!Down(t, from, s, to)
  PROVE  UNCHANGED Buffer!Abstract!vars
<1>1. /\ from \in {"putEmpty", "putLock", "getFull", "getLock"}
      /\ to \in {"putLock", "putData", "getLock", "getData"}
  BY DEF Downs
<1>2. /\ pcBuffer[t] = from /\ UNCHANGED <<head, n, data, item>>
      /\ \/ pcBuffer' = [pcBuffer EXCEPT ![t] = to]
         \/ pcBuffer' = [pcBuffer EXCEPT ![t] = "asleep"]
  BY DEF Buffer!Down, Buffer!fields
<1>3. \A p \in Putters : pcBuffer[p] \in {"out", "putUnlock", "putFull"} <=>
                         pcBuffer'[p] \in {"out", "putUnlock", "putFull"}
  BY <1>1, <1>2, BufferConstants DEF BufferInv, BufferTypes
<1>4. \A g \in Getters : pcBuffer[g] = "getCount" <=> pcBuffer'[g] = "getCount"
  BY <1>1, <1>2, BufferConstants DEF BufferInv, BufferTypes
<1> QED
  BY <1>2, <1>3, <1>4, QueueStays

\* up() moves no item either, whomever it wakes.
LEMMA UpStays ==
  ASSUME BufferInv, BufferInv', NEW t \in Buffer!Threads, NEW from, NEW s, NEW to,
         <<from, s, to>> \in Ups, Buffer!Up(t, from, s, to)
  PROVE  UNCHANGED Buffer!Abstract!vars
<1>1. /\ <<from, to>> \in {<<"putUnlock", "putFull">>, <<"putFull", "out">>,
                           <<"getUnlock", "getEmpty">>, <<"getEmpty", "getFull">>}
      /\ s \in Buffer!Sems
  BY BufferConstants DEF Ups
<1>2. pcBuffer[t] = from /\ UNCHANGED <<head, n, data, item>>
  BY DEF Buffer!Up, Buffer!fields
<1>3. CASE sem[s].waiting = <<>>
  <2>1. pcBuffer' = [pcBuffer EXCEPT ![t] = to]
    BY <1>3 DEF Buffer!Up
  <2>2. \A p \in Putters : pcBuffer[p] \in {"out", "putUnlock", "putFull"} <=>
                           pcBuffer'[p] \in {"out", "putUnlock", "putFull"}
    BY <1>1, <1>2, <2>1, BufferConstants DEF BufferInv, BufferTypes
  <2>3. \A g \in Getters : pcBuffer[g] = "getCount" <=> pcBuffer'[g] = "getCount"
    BY <1>1, <1>2, <2>1, BufferConstants DEF BufferInv, BufferTypes
  <2> QED
    BY <1>2, <2>2, <2>3, QueueStays
<1>4. CASE sem[s].waiting # <<>>
  <2> DEFINE w == Head(sem[s].waiting)
  <2>1. pcBuffer' = [pcBuffer EXCEPT ![t] = to, ![w] = then[w]]
    BY <1>4 DEF Buffer!Up
  <2>2. sem[s].waiting \in Seq(Buffer!Threads)
    BY <1>1 DEF BufferInv, BufferTypes, Semaphores
  <2>3. w = sem[s].waiting[1] /\ 1 \in DOMAIN sem[s].waiting /\ w \in Buffer!Threads
    BY ONLY <1>4, <2>2
  <2>4. pcBuffer[w] = "asleep" /\ then[w] \in {"putLock", "putData", "getLock", "getData"}
    <3>1. QueueOk(s, sem[s].waiting)
      BY <1>1 DEF BufferInv, BufferQueues
    <3>2. pcBuffer[w] = "asleep"
      BY <2>3, <3>1 DEF QueueOk
    <3> QED
      BY <2>3, <3>2 DEF BufferInv, BufferTypes
  <2> HIDE DEF w
  <2>5. \A p \in Putters : pcBuffer[p] \in {"out", "putUnlock", "putFull"} <=>
                           pcBuffer'[p] \in {"out", "putUnlock", "putFull"}
    BY <1>1, <1>2, <2>1, <2>3, <2>4, BufferConstants DEF BufferInv, BufferTypes
  <2>6. \A g \in Getters : pcBuffer[g] = "getCount" <=> pcBuffer'[g] = "getCount"
    BY <1>1, <1>2, <2>1, <2>3, <2>4, BufferConstants DEF BufferInv, BufferTypes
  <2> QED
    BY <1>2, <2>5, <2>6, QueueStays
<1> QED
  BY <1>3, <1>4

\* Every step of a thread is a step of the queue or none.
LEMMA WorkImplements ==
  ASSUME BufferInv, BufferInv', NEW t \in Buffer!Threads, Buffer!Work(t)
  PROVE  [Buffer!Abstract!Next]_Buffer!Abstract!vars
<1>1. CASE Buffer!PutEmpty(t) \/ Buffer!PutLock(t) \/ Buffer!GetFull(t) \/ Buffer!GetLock(t)
  BY <1>1, DownStays
     DEF Buffer!PutEmpty, Buffer!PutLock, Buffer!GetFull, Buffer!GetLock, Downs
<1>2. CASE Buffer!PutUnlock(t) \/ Buffer!PutFull(t) \/ Buffer!GetUnlock(t) \/ Buffer!GetEmpty(t)
  BY <1>2, UpStays
     DEF Buffer!PutUnlock, Buffer!PutFull, Buffer!GetUnlock, Buffer!GetEmpty, Ups
<1>3. CASE Buffer!PutCount(t)
  BY <1>3, PutCountPuts DEF Buffer!Abstract!Next
<1>4. CASE Buffer!GetData(t)
  BY <1>4, GetDataGets DEF Buffer!Abstract!Next
<1>5. CASE Buffer!PutData(t) \/ Buffer!GetCount(t)
  BY <1>5, PutDataStays, GetCountStays
<1> QED
  BY <1>1, <1>2, <1>3, <1>4, <1>5 DEF Buffer!Work

\* class BoundedBuffer implements the queue of module Channel: an item is appended
\* where put() counts it and taken where get() moves head (bb.h:25-44).
THEOREM BufferIsChannel == FairSpec => ImplementsChannel
<1>1. Init => Buffer!Abstract!Init
  <2> SUFFICES ASSUME Init PROVE Buffer!Abstract!Init
    OBVIOUS
  <2> USE BufferConstants DEF Init, Buffer!Init
  <2>1. Buffer!Offered = [p \in Putters |-> NoItem]
    BY DEF Buffer!Offered
  <2>2. \E i \in Items : [g \in Getters |-> item[g]] = [g \in Getters |-> i]
    OBVIOUS
  <2>3. Buffer!InRing = <<>>
    <3>1. BufferInv /\ n = 0
      BY BufferInitially
    <3>2. n - Buffer!Between = 0
      BY <3>1, InRingIs
    <3>3. /\ Buffer!InRing = Ring(data, head, 0)
          /\ data \in [0..(N - 1) -> Items] /\ head \in 0..(N - 1)
      BY <3>1, <3>2, InRingIs DEF BufferInv, BufferTypes
    <3>4. Buffer!InRing \in Seq(Items) /\ Len(Buffer!InRing) = 0
      BY <3>3, RingType
    <3> QED
      BY ONLY <3>4
  <2> QED
    BY <2>1, <2>2, <2>3 DEF Buffer!Abstract!Init
<1>2. BufferInv /\ BufferInv' /\ [Next]_vars => [Buffer!Abstract!Next]_Buffer!Abstract!vars
  <2> SUFFICES ASSUME BufferInv, BufferInv', [Next]_vars
               PROVE  [Buffer!Abstract!Next]_Buffer!Abstract!vars
    OBVIOUS
  <2>1. CASE CallPut
    BY <2>1, CallPutCalls DEF CallPut, Buffer!Abstract!Next
  <2>2. CASE \E t \in Putters \cup Getters : BufferWork(t)
    BY <2>2, WorkImplements, BufferConstants DEF BufferWork
  <2>3. CASE UNCHANGED buffer
    BY <2>3, QueueStays DEF buffer
  <2> QED
    BY <2>1, <2>2, <2>3 DEF Next, vars, BarrierStep, BarrierCall, RoundsStep, BootStep
<1> QED
  BY <1>1, <1>2, BufferInvariant, PTL DEF FairSpec, ImplementsChannel,
     Buffer!ImplementsChannel, Buffer!Abstract!Spec
=============================================================================
