-------------------------------- MODULE Heap --------------------------------
(***************************************************************************)
(* The two boundary-tag heaps: kernel/heap.cc, which takes the smallest of *)
(* the first CountDown blocks that fit, and t0.dir/sbin/heap.c, which takes*)
(* the first block that fits and also has realloc.  Everything else is the *)
(* same code in both files.  A block is a run of ints: a header and a      *)
(* footer that hold its size, positive when the block is available,        *)
(* negative when it is taken; an available block keeps its list links in   *)
(* the ints after the header, where a taken block has the client's data.   *)
(*                                                                         *)
(* The kernel's operations run under theLock (module Semaphore) and a user *)
(* program has one thread: each operation is one step.  Addresses are      *)
(* indexes of array.  sanity() only returns its argument (safe is 0 in the *)
(* kernel, the complaints are comments in the user's heap).  The unit of   *)
(* data is the int.                                                        *)
(***************************************************************************)
EXTENDS Integers, Sequences, FiniteSets

CONSTANTS
  Kinds,      \* which heaps run: a subset of {"kernel", "user"}
  Ints,       \* len, heap_len
  CountDown,  \* the kernel looks at this many blocks that fit (20)
  SizeMod,    \* the modulus of size_t (2^32)
  Requests,   \* the sizes in bytes that clients ask for
  Words,      \* the values that clients store: any int, tags of blocks too
  MaxLive     \* bound: allocated blocks at any time

\* Assumed by the modules that give the constants their values.
HeapAssumption ==
  /\ Kinds \subseteq {"kernel", "user"}
  /\ Ints \in Nat /\ Ints >= 8
  /\ CountDown \in Nat \ {0}
  /\ SizeMod \in Nat \ {0}
  /\ Requests \subseteq 1..(SizeMod - 4)   \* bytes + 3 does not wrap
  /\ Words \subseteq Int
  /\ MaxLive \in Nat

VARIABLES
  kind,    \* the heap of this behaviour
  heap,    \* [array, avail]: the two statics of heap.cc and heap.c
  live,    \* live[p]: the bytes asked for and the data stored at p (history)
  failed   \* the ints of a malloc that just returned 0, or 0 (history)

vars == <<kind, heap, live, failed>>

Index == 0..(Ints - 1)

-----------------------------------------------------------------------------
(* Blocks: h is a value of the variable heap, i the index of a header *)

Size(h, i) == IF h.array[i] < 0 THEN -h.array[i] ELSE h.array[i]

IsAvail(h, i) == h.array[i] > 0

IsTaken(h, i) == h.array[i] < 0

\* headerFromFooter(i - 1)
Left(h, i) == i - Size(h, i - 1)

Right(h, i) == i + Size(h, i)

NextFree(h, i) == h.array[i + 1]

PrevFree(h, i) == h.array[i + 2]

MakeTaken(h, i, ints) ==
  [h EXCEPT !.array = [@ EXCEPT ![i] = -ints, ![i + ints - 1] = -ints]]

\* The ints of an available block that are neither tag nor link hold whatever
\* was there before; nobody reads them, and the model keeps 0 there.
Dead(a, i, ints) == [j \in Index |-> IF j \in i..(i + ints - 1) THEN 0 ELSE a[j]]

\* Writes the tags and pushes the block on the list of available blocks.
MakeAvail(h, i, ints) ==
  [array |-> [Dead(h.array, i, ints) EXCEPT
                ![i] = ints, ![i + ints - 1] = ints,
                ![i + 1] = h.avail, ![i + 2] = 0,
                ![h.avail + 2] = IF h.avail = 0 THEN @ ELSE i],
   avail |-> i]

\* Unlinks block i; prev of the first block is 0.
Remove(h, i) ==
  LET p == PrevFree(h, i)
      n == NextFree(h, i)
  IN  [array |-> [h.array EXCEPT ![p + 1] = IF p = 0 THEN @ ELSE n,
                                 ![n + 2] = IF n = 0 THEN @ ELSE p],
       avail |-> IF p = 0 THEN n ELSE h.avail]

\* The available blocks by their place in the list: link[k] is the block after
\* k steps of next(), 0 past the end.  A block has at least 4 ints.
FreeList(h) ==
  LET after == [i \in Index |->
        IF i \in 1..(Ints - 2) /\ NextFree(h, i) \in Index THEN NextFree(h, i) ELSE 0]
      link[k \in 0..(Ints \div 4)] == IF k = 0 THEN h.avail ELSE after[link[k - 1]]
  IN  [k \in {k \in 1..(Ints \div 4) : link[k - 1] # 0} |-> link[k - 1]]

-----------------------------------------------------------------------------
(* malloc and free *)

\* The ints of a block for so many bytes; bytes + 3 is computed in size_t.
IntsFor(bytes) ==
  LET ints == (((bytes + 3) % SizeMod) \div 4) + 2
  IN  IF ints < 4 THEN 4 ELSE ints

\* The places in the list of the blocks that fit.
Fitting(h, ints) == {k \in DOMAIN FreeList(h) : Size(h, FreeList(h)[k]) >= ints}

\* The user's heap; 0 when nothing fits.
FirstFit(h, ints) ==
  LET fit == Fitting(h, ints)
  IN  IF fit = {} THEN 0
      ELSE FreeList(h)[CHOOSE k \in fit : \A j \in fit : k <= j]

\* The kernel's heap: the first of the smallest among the first CountDown.
BestFit(h, ints) ==
  LET list == FreeList(h)
      fit  == Fitting(h, ints)
      seen == {k \in fit : Cardinality({j \in fit : j < k}) < CountDown}
      Better(j, k) == \/ Size(h, list[j]) < Size(h, list[k])
                      \/ Size(h, list[j]) = Size(h, list[k]) /\ j < k
  IN  IF fit = {} THEN 0
      ELSE list[CHOOSE k \in seen : \A j \in seen : ~Better(j, k)]

\* The block is taken; what is left of it becomes a block of its own if it can.
Take(h, i, ints) ==
  LET extra == Size(h, i) - ints
      rest  == Remove(h, i)
  IN  IF extra >= 4 THEN MakeAvail(MakeTaken(rest, i, ints), i + ints, extra)
      ELSE MakeTaken(rest, i, Size(h, i))

\* malloc(bytes): the new heap and the address returned.
Alloc(h, bytes) ==
  LET ints == IntsFor(bytes)
      it   == IF kind = "kernel" THEN BestFit(h, ints) ELSE FirstFit(h, ints)
  IN  IF it = 0 THEN [heap |-> h, ptr |-> 0]
      ELSE [heap |-> Take(h, it, ints), ptr |-> it + 1]

\* Faulty: does not merge with the block on the left.
ReleaseNoLeft(h, idx) ==
  LET r  == Right(h, idx)
      h2 == IF IsAvail(h, r) THEN Remove(h, r) ELSE h
  IN  MakeAvail(h2, idx, Size(h, idx) + (IF IsAvail(h, r) THEN Size(h, r) ELSE 0))

\* free(): merges the block with an available one on either side.
Release(h, idx) ==
  LET l  == Left(h, idx)
      r  == Right(h, idx)
      h1 == IF IsAvail(h, l) THEN Remove(h, l) ELSE h
      h2 == IF IsAvail(h1, r) THEN Remove(h1, r) ELSE h1
  IN  MakeAvail(h2, IF IsAvail(h, l) THEN l ELSE idx,
                Size(h, idx) + (IF IsAvail(h, l) THEN Size(h, l) ELSE 0)
                             + (IF IsAvail(h, r) THEN Size(h, r) ELSE 0))

\* A block that is not taken is left alone (the kernel panics).
Freed(h, p) == IF IsTaken(h, p - 1) THEN Release(h, p - 1) ELSE h

\* memcpy of n ints.
Copy(h, to, from, n) ==
  [h EXCEPT !.array = [j \in Index |->
      IF j \in to..(to + n - 1) THEN h.array[from + j - to] ELSE h.array[j]]]

-----------------------------------------------------------------------------
(* The clients *)

DataInts(bytes) == (bytes + 3) \div 4

Stored(h, p, n) == [k \in 1..n |-> h.array[p + k - 1]]

Without(p) == [q \in DOMAIN live \ {p} |-> live[q]]

With(f, p, b, d) ==
  [q \in DOMAIN f \cup {p} |-> IF q = p THEN [bytes |-> b, data |-> d] ELSE f[q]]

Init ==
  /\ kind \in Kinds
  /\ heap = MakeTaken(MakeAvail(MakeTaken([array |-> [i \in Index |-> 0], avail |-> 0],
                                          0, 2), 2, Ints - 4), Ints - 2, 2)
  /\ live = [p \in {} |-> 0]
  /\ failed = 0

\* The client of malloc(bytes) fills its block with w.  malloc(0) returns array
\* and changes nothing, as does free of that address.
Malloc(bytes, w) ==
  /\ Cardinality(DOMAIN live) < MaxLive
  /\ LET r == Alloc(heap, bytes)
         n == DataInts(bytes)
     IN  \/ /\ r.ptr = 0
            /\ failed' = IntsFor(bytes)
            /\ UNCHANGED <<heap, live>>
         \/ /\ r.ptr # 0
            /\ failed' = 0
            /\ heap' = [r.heap EXCEPT !.array = [j \in Index |->
                           IF j \in r.ptr..(r.ptr + n - 1) THEN w ELSE @[j]]]
            /\ live' = With(live, r.ptr, bytes, [k \in 1..n |-> w])
  /\ UNCHANGED kind

Free(p) ==
  /\ heap' = Freed(heap, p)
  /\ live' = Without(p)
  /\ failed' = 0
  /\ UNCHANGED kind

\* Faulty: the old block is freed before its data is copied.
ReallocFreeFirst(p, bytes) ==
  /\ kind = "user"
  /\ LET r   == Alloc(Freed(heap, p), bytes)
         old == live[p].data
         n   == DataInts(bytes)
         m   == IF n < Size(heap, p - 1) THEN n ELSE Size(heap, p - 1)
         h2  == Copy(r.heap, r.ptr, p, m)
         d   == [k \in 1..n |-> IF k \in DOMAIN old THEN old[k] ELSE h2.array[r.ptr + k - 1]]
     IN  /\ r.ptr # 0
         /\ heap' = h2
         /\ live' = With(Without(p), r.ptr, bytes, d)
  /\ failed' = 0
  /\ UNCHANGED kind

\* realloc(p, 0) is free(p) and realloc(0, n) is malloc(n).  Copies as many
\* bytes as the whole old block has, its tags counted; frees the old block
\* even when there is no new one.
Realloc(p, bytes) ==
  /\ kind = "user"
  /\ LET r   == Alloc(heap, bytes)
         old == live[p].data
         n   == DataInts(bytes)
         m   == IF n < Size(heap, p - 1) THEN n ELSE Size(heap, p - 1)
         h2  == Copy(r.heap, r.ptr, p, m)
         d   == [k \in 1..n |-> IF k \in DOMAIN old THEN old[k] ELSE h2.array[r.ptr + k - 1]]
     IN  \/ /\ r.ptr = 0
            /\ heap' = Freed(heap, p)
            /\ live' = Without(p)
         \/ /\ r.ptr # 0
            /\ heap' = Freed(h2, p)
            /\ live' = With(Without(p), r.ptr, bytes, d)
  /\ failed' = 0
  /\ UNCHANGED kind

Next ==
  \/ \E bytes \in Requests, w \in Words : Malloc(bytes, w)
  \/ \E p \in DOMAIN live :
       \/ Free(p)
       \/ \E bytes \in Requests : Realloc(p, bytes)

Spec == Init /\ [][Next]_vars

-----------------------------------------------------------------------------
(* Properties *)

\* The headers that right() reaches from the first sentinel; Ints is the end.
Headers(h) ==
  LET after == [i \in 0..Ints |->
        IF i \in Index /\ Right(h, i) \in Index THEN Right(h, i) ELSE Ints]
      step[k \in 0..(Ints \div 4 + 1)] == IF k = 0 THEN 0 ELSE after[step[k - 1]]
  IN  {step[k] : k \in 0..(Ints \div 4 + 1)}

\* The types of the statics and of the history variables; the first available
\* block lies with its 4 ints between the sentinels.
TypeOK ==
  /\ kind \in Kinds
  /\ heap.array \in [Index -> Int]
  /\ heap.avail \in {0} \cup 2..(Ints - 6)
  /\ DOMAIN live \subseteq Index
  /\ failed \in Nat

\* Whatever clients stored, the tags cut the array into blocks without gap or
\* overlap, each footer equals its header, and the taken blocks between the
\* sentinels are exactly the ones malloc handed out and free did not get back
\* (the tags that left() and right() trust, heap.cc:61-67).
BlocksTile ==
  LET H == Headers(heap)
  IN  /\ Ints \in H
      /\ \A i \in H \ {Ints} : /\ i \in Index
                               /\ Right(heap, i) <= Ints
                               /\ heap.array[i] = heap.array[Right(heap, i) - 1]
      /\ {i \in H \ {Ints} : IsTaken(heap, i)} =
           {0, Ints - 2} \cup {p - 1 : p \in DOMAIN live}

\* The doubly linked list holds every available block exactly once, and no two
\* available blocks are neighbours: free merged them (remove and makeAvail,
\* heap.cc:85-110, and free, heap.cc:205-221).
FreeListExact ==
  LET H == Headers(heap)
      list == FreeList(heap)
  IN  /\ {list[k] : k \in DOMAIN list} = {i \in H \ {Ints} : IsAvail(heap, i)}
      /\ \A j, k \in DOMAIN list : list[j] = list[k] => j = k
      /\ \A k \in DOMAIN list :
           /\ PrevFree(heap, list[k]) = (IF k = 1 THEN 0 ELSE list[k - 1])
           /\ IsTaken(heap, Right(heap, list[k]))

\* A client finds the data that it stored, whatever the others allocate, free
\* or resize in between, and its block has the bytes it asked for (malloc,
\* heap.cc:145-146, realloc, t0.dir/sbin/heap.c:193-218).
DataIntact ==
  \A p \in DOMAIN live :
    /\ Stored(heap, p, Len(live[p].data)) = live[p].data
    /\ 4 * (Size(heap, p - 1) - 2) >= live[p].bytes

\* malloc returns 0 only when no run of ints outside the taken blocks is long
\* enough (the searches of heap.cc:152-174 and t0.dir/sbin/heap.c:132-156).
FailsOnlyWhenFull ==
  failed # 0 =>
    ~ \E i \in 2..(Ints - 2 - failed) :
         \A p \in DOMAIN live : \/ i + failed <= p - 1
                                \/ i >= p - 1 + Size(heap, p - 1)

\* After every sequence of calls the tags, the list and the search agree.
HeapConsistent == TypeOK /\ BlocksTile /\ FreeListExact /\ FailsOnlyWhenFull
=============================================================================
