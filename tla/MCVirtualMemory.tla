-------------------------- MODULE MCVirtualMemory --------------------------
(* Instances of VirtualMemory for TLC: see the .cfg files. *)
EXTENDS VirtualMemory, TLC

\* Every page below the first page table of user memory.
FirstRegion == [i \in Pages |-> 512]

\* Every page below the page table that also maps the APICs.
ApicRegion == [i \in Pages |-> Apic]

Symmetry == Permutations(Cores) \cup Permutations(Procs \ {Root})

\* All states in which at most six frames were ever used, and of the rest those without a
\* freed frame: there a fork of two mapped pages completes, which takes eight.
SixOrNoneFreed == avail <= 7 \/ firstFree = <<>>

\* A third process is not followed: it is there for a fork that finds no frame left.
TwoBorn == Cardinality({p \in Procs : pc[p] # "none"}) <= 2
=============================================================================
