---------------------------- MODULE StorageProofs ----------------------------
(***************************************************************************)
(* Proofs about Files, BlockIO, Filesystem and Heap, as MCStorage holds    *)
(* them: the counts of shared file descriptors are exact, read stays in    *)
(* the file and, unless the offset is moved under it, in what was asked    *)
(* for, read_all() gives the bytes it promises, find() follows the entries of   *)
(* the disk and pwd names the directory it leads to, the two heaps stay    *)
(* consistent and their clients find what they stored.  They hold for      *)
(* every number of processes, descriptors and slots, every file size and   *)
(* width of uint32_t, every block size and number of block references,     *)
(* every well-formed disk and set of paths, every size of the heap, of the *)
(* requests and of the kernel's search.                                    *)
(*                                                                         *)
(* Each of the four has an inductive invariant of its own; a step of       *)
(* another component leaves its variables alone.  TablesInv adds to the    *)
(* counts that they are finite, that a descriptor not made yet and a       *)
(* process not forked yet have no reference, and that what read tested and *)
(* clamped is not stale unless the offset was moved.  ReadingInv says what *)
(* read_all() has stored after each turn of its loop.  LookupInv says      *)
(* where a string that plain uses of cd made leads.  MemoryInv says that   *)
(* there are blocks, with a rank for each available one, that the tags and *)
(* the links describe, and what each client finds in its own.              *)
(***************************************************************************)
EXTENDS MCStorage, TLAPS, FiniteSetTheorems, WellFoundedInduction

-----------------------------------------------------------------------------
(* Files *)

\* Inside read.
Reads == {"readClamp", "readCall", "readAdd", "readStore"}

\* The types of the variables of Files.
TablesTypes ==
  /\ pc \in [Procs -> {"unborn", "user"} \cup Reads]
  /\ fd \in [Procs -> [Shared!Fds -> Descs \cup {None} \cup (Procs \X Shared!Fds)]]
  /\ refCount \in [Descs -> Int] /\ offsetOf \in [Descs -> 0..(Word - 1)] /\ made \subseteq Descs
  /\ marker \in [Procs -> Descs \cup {None}]
  /\ nbyte \in [Procs -> Nat] /\ at \in [Procs -> Nat] /\ asked \in [Procs -> 0..(Word - 1)]
  /\ ret \in [Procs -> Int] /\ sum \in [Procs -> 0..(Word - 1)] /\ moved \in [Procs -> BOOLEAN]

\* The reads that work on d.
Readers(d) == {p \in Procs : marker[p] = d}

\* A read, and nothing else, works on a descriptor.
MarkersOk == \A p \in Procs : marker[p] \in Descs <=> pc[p] \in Reads

\* A process that is not there yet has no file open, and a descriptor that is not made is in
\* no table.
UnbornEmpty ==
  /\ pc[Root] # "unborn"
  /\ \A p \in Procs : pc[p] = "unborn" => \A i \in Shared!Fds : fd[p][i] \notin Descs
  /\ \A d \in Descs \ made :
       refCount[d] = 0 /\ Shared!Slots(d) = {} /\ Readers(d) = {}

\* Every count is exact, and finite.
DescsCounted ==
  \A d \in Descs :
    /\ IsFiniteSet(Shared!Slots(d)) /\ IsFiniteSet(Readers(d))
    /\ refCount[d] = Cardinality(Shared!Slots(d)) + Cardinality(Readers(d))

\* What the test and the clamp of read, with the same offset, leave of an nbyte of m.
Clamped(o, m) == IF Shared!Exceeds(o, m) THEN Shared!Left(o) ELSE m

\* What read has been told so far is not stale, unless the offset was moved under it.
ReadOk(p) ==
  /\ pc[p] = "readClamp" => Shared!Exceeds(offsetOf[marker[p]], asked[p])
  /\ pc[p] = "readCall" => nbyte[p] = Clamped(offsetOf[marker[p]], asked[p])
  /\ pc[p] = "readAdd" => ret[p] <= asked[p]

\* What a read gets is in the file, and what it has been told is true.
ReadsOk ==
  /\ Shared!ReadInFile
  /\ \A p \in Procs : ~moved[p] => ReadOk(p)

\* The inductive invariant of Files.
TablesInv == TablesTypes /\ MarkersOk /\ UnbornEmpty /\ DescsCounted /\ ReadsOk

\* The constants.
LEMMA FilesFacts ==
  /\ Root \in Procs /\ Word \in Nat \ {0} /\ FileSize \in 0..(Word - 1)
  /\ Sizes \subseteq 0..(Word - 1) /\ Offsets \subseteq 0..(Word - 1)
  /\ None \notin Descs /\ \A p \in Procs, i \in Shared!Fds : <<p, i>> \notin Descs
  BY StorageAssumption DEF Shared!FilesAssumption

\* The module of finite sets that Files uses is the one of the theorems.
LEMMA SameCardinality == \A S : Shared!Cardinality(S) = Cardinality(S)
  BY DEF Shared!Cardinality, Cardinality

\* uint32_t: what is below Word stays, what is not gets smaller.
LEMMA Modulo ==
  ASSUME NEW x \in Int
  PROVE  /\ x % Word \in 0..(Word - 1)
         /\ x \in 0..(Word - 1) => x % Word = x
         /\ x \in Nat => x % Word <= x
  BY FilesFacts

\* read_all() with what read clamped gives at most what was asked for, and from any offset
\* bytes of the file.
LEMMA ClampFits ==
  ASSUME NEW o \in 0..(Word - 1), NEW m \in 0..(Word - 1)
  PROVE  Clamped(o, m) \in Nat /\ Shared!Left(o) \in Nat /\ Shared!ReadAll(o, Clamped(o, m)) <= m
<1>1. FileSize \in Nat /\ Word \in Nat /\ o \in Nat /\ m \in Nat /\ FileSize < Word
  BY FilesFacts
<1>2. Shared!Left(o) \in Nat
  BY <1>1, Modulo DEF Shared!Left
<1>3. CASE Shared!Exceeds(o, m)
  <2>1. o + m > FileSize /\ Clamped(o, m) = Shared!Left(o)
    BY <1>1, <1>3, Modulo DEF Clamped, Shared!Exceeds
  <2>2. CASE o < FileSize
    <3>1. Shared!Left(o) = FileSize - o
      BY <1>1, <2>2, Modulo DEF Shared!Left
    <3> QED
      BY <1>1, <2>1, <2>2, <3>1 DEF Shared!ReadAll
  <2>3. CASE o >= FileSize
    BY <1>1, <1>2, <2>1, <2>3 DEF Shared!ReadAll
  <2> QED
    BY <1>1, <2>2, <2>3
<1>4. CASE ~Shared!Exceeds(o, m)
  BY <1>1, <1>2, <1>4 DEF Clamped, Shared!ReadAll
<1> QED
  BY <1>2, <1>3, <1>4

\* read_all() stays in the file.
LEMMA ReadAllIs ==
  ASSUME NEW o \in Nat, NEW m \in Nat
  PROVE  /\ Shared!ReadAll(o, m) \in Int
         /\ Shared!ReadAll(o, m) > 0 => o + Shared!ReadAll(o, m) <= FileSize
  BY FilesFacts DEF Shared!ReadAll

\* One more element, or one less.
LEMMA CountOne ==
  ASSUME NEW S, IsFiniteSet(S), NEW e
  PROVE  /\ Cardinality(S) \in Nat
         /\ IsFiniteSet(S \cup {e}) /\ IsFiniteSet(S \ {e})
         /\ e \notin S => Cardinality(S \cup {e}) = Cardinality(S) + 1
         /\ e \in S => Cardinality(S \ {e}) = Cardinality(S) - 1
  BY FS_CardinalityType, FS_AddElement, FS_RemoveElement

\* A step that leaves the tables and the readers of d alone leaves its count exact.
LEMMA SameCount ==
  ASSUME NEW d \in Descs, DescsCounted, UnbornEmpty, refCount'[d] = refCount[d],
         (\A p \in Procs : (marker'[p] = d) <=> (marker[p] = d)),
         (\A p \in Procs, i \in Shared!Fds : (fd'[p][i] = d) <=> (fd[p][i] = d))
  PROVE  /\ Shared!Slots(d)' = Shared!Slots(d) /\ Readers(d)' = Readers(d)
         /\ IsFiniteSet(Shared!Slots(d)') /\ IsFiniteSet(Readers(d)')
         /\ refCount'[d] = Cardinality(Shared!Slots(d)') + Cardinality(Readers(d)')
<1>1. Shared!Slots(d)' = Shared!Slots(d) /\ Readers(d)' = Readers(d)
  BY DEF Shared!Slots, Readers
<1> QED
  BY <1>1 DEF DescsCounted

\* fork: every descriptor of the parent is in the table of the child as often.
LEMMA ForkCounts ==
  ASSUME TablesInv, NEW p \in Procs, NEW q \in Procs, Shared!Fork(p, q), NEW d \in Descs
  PROVE  /\ IsFiniteSet(Shared!Slots(d)') /\ IsFiniteSet(Readers(d)')
         /\ refCount'[d] = Cardinality(Shared!Slots(d)') + Cardinality(Readers(d)')
         /\ d \notin made => refCount'[d] = 0 /\ Shared!Slots(d)' = {} /\ Readers(d)' = {}
<1> DEFINE row == {i \in Shared!Fds : fd[p][i] = d}
<1>1. /\ TablesTypes /\ UnbornEmpty /\ DescsCounted /\ pc[q] = "unborn" /\ pc[p] = "user"
      /\ fd' = [fd EXCEPT ![q] = fd[p]] /\ marker' = marker
      /\ refCount'[d] = refCount[d] + Cardinality(row)
  BY SameCardinality DEF TablesInv, Shared!Fork, Shared!Call, Shared!readVars
<1>2. /\ Readers(d)' = Readers(d) /\ IsFiniteSet(Readers(d)) /\ IsFiniteSet(Shared!Slots(d))
      /\ refCount[d] = Cardinality(Shared!Slots(d)) + Cardinality(Readers(d))
  BY <1>1 DEF Readers, DescsCounted
<1>3. IsFiniteSet(row) /\ Cardinality(row) \in Nat
  <2>1. IsFiniteSet(Shared!Fds)
    <3>1. 0 \in Int /\ NumFds - 1 \in Int
      BY StorageAssumption DEF Shared!FilesAssumption
    <3> QED
      BY <3>1, FS_Interval DEF Shared!Fds
  <2> QED
    BY <2>1, FS_Subset, FS_CardinalityType
<1>4. /\ DOMAIN fd = Procs /\ q \in Procs /\ p # q
      /\ \A i \in Shared!Fds : fd[q][i] # d
  BY <1>1 DEF TablesTypes, UnbornEmpty
<1>5. Shared!Slots(d)' = Shared!Slots(d) \cup ({q} \X row)
  BY <1>1, <1>4 DEF Shared!Slots, TablesTypes
<1>6. Shared!Slots(d) \cap ({q} \X row) = {}
  BY <1>4 DEF Shared!Slots
<1>7. IsFiniteSet({q} \X row) /\ Cardinality({q} \X row) = Cardinality(row)
  <2>1. IsFiniteSet({q}) /\ Cardinality({q}) = 1
    BY FS_Singleton
  <2>2. IsFiniteSet({q} \X row) /\ Cardinality({q} \X row) = 1 * Cardinality(row)
    BY <1>3, <2>1, FS_Product
  <2> QED
    BY <1>3, <2>2
<1> HIDE DEF row
<1>8. PICK S, T : S = Shared!Slots(d) /\ T = {q} \X row
  OBVIOUS
<1>9. IsFiniteSet(S \cup T) /\ Cardinality(S \cup T) = Cardinality(S) + Cardinality(T)
  <2>1. IsFiniteSet(S) /\ IsFiniteSet(T) /\ S \cap T = {} /\ Cardinality(S \cap T) = 0
    BY <1>2, <1>6, <1>7, <1>8, FS_EmptySet
  <2>2. Cardinality(S) \in Nat /\ Cardinality(T) \in Nat
    BY <2>1, FS_CardinalityType
  <2>3. IsFiniteSet(S \cup T)
        /\ Cardinality(S \cup T) = Cardinality(S) + Cardinality(T) - Cardinality(S \cap T)
    BY <2>1, FS_Union
  <2> QED
    BY <2>1, <2>2, <2>3
<1>10. Cardinality(Readers(d)) \in Nat /\ Cardinality(S) \in Nat
  BY <1>2, <1>8, FS_CardinalityType
<1>11. d \notin made => refCount'[d] = 0 /\ Shared!Slots(d)' = {} /\ Readers(d)' = {}
  <2> SUFFICES ASSUME d \notin made
               PROVE  refCount'[d] = 0 /\ Shared!Slots(d)' = {} /\ Readers(d)' = {}
    OBVIOUS
  <2>1. refCount[d] = 0 /\ Shared!Slots(d) = {} /\ Readers(d) = {}
    BY <1>1 DEF UnbornEmpty
  <2>2. row = {}
    <3>1. \A i \in Shared!Fds : <<p, i>> \notin Shared!Slots(d)
      BY <2>1
    <3> QED
      BY <3>1 DEF row, Shared!Slots
  <2>3. Cardinality(row) = 0 /\ {q} \X row = {}
    BY <2>2, FS_EmptySet
  <2> QED
    BY <1>1, <1>2, <1>5, <2>1, <2>3
<1> QED
  BY <1>1, <1>2, <1>3, <1>5, <1>7, <1>8, <1>9, <1>10, <1>11

\* fork keeps the invariant.
LEMMA ForkKeeps ==
  ASSUME TablesInv, NEW p \in Procs, NEW q \in Procs, Shared!Fork(p, q)
  PROVE  TablesInv'
<1>1. /\ TablesTypes /\ MarkersOk /\ UnbornEmpty /\ DescsCounted /\ ReadsOk
      /\ pc[q] = "unborn" /\ pc[p] = "user" /\ pc' = [pc EXCEPT ![q] = "user"]
      /\ fd' = [fd EXCEPT ![q] = fd[p]] /\ offsetOf' = offsetOf /\ made' = made
      /\ marker' = marker /\ nbyte' = nbyte /\ at' = at /\ ret' = ret /\ asked' = asked
      /\ sum' = sum /\ moved' = moved
      /\ refCount' = [d \in Descs |-> refCount[d]
                        + Cardinality({i \in Shared!Fds : fd[p][i] = d})]
  BY SameCardinality DEF TablesInv, Shared!Fork, Shared!Call, Shared!readVars
<1>2. \A d \in Descs :
         /\ IsFiniteSet(Shared!Slots(d)') /\ IsFiniteSet(Readers(d)')
         /\ refCount'[d] = Cardinality(Shared!Slots(d)') + Cardinality(Readers(d)')
         /\ d \notin made => refCount'[d] = 0 /\ Shared!Slots(d)' = {} /\ Readers(d)' = {}
  BY ForkCounts
<1>3. DescsCounted'
  BY <1>2 DEF DescsCounted
<1>4. TablesTypes'
  <2>1. \A d \in Descs : refCount'[d] \in Int
    BY <1>2, FS_CardinalityType
  <2>2. refCount' \in [Descs -> Int]
    BY <1>1, <2>1
  <2> QED
    BY <1>1, <2>2 DEF TablesTypes
<1>5. MarkersOk'
  BY <1>1 DEF MarkersOk, TablesTypes, Reads
<1>6. UnbornEmpty'
  <2>1. \A r \in Procs : pc'[r] = "unborn" => \A i \in Shared!Fds : fd'[r][i] \notin Descs
    BY <1>1 DEF UnbornEmpty, TablesTypes
  <2> QED
    BY <1>1, <1>2, <2>1 DEF UnbornEmpty
<1>7. ReadsOk'
  <2>1. Shared!ReadInFile'
    BY <1>1 DEF ReadsOk, Shared!ReadInFile, TablesTypes
  <2>2. \A r \in Procs : pc'[r] = pc[r] \/ pc'[r] = "user"
    BY <1>1 DEF TablesTypes
  <2> QED
    BY <1>1, <2>1, <2>2 DEF ReadsOk, ReadOk
<1> QED
  BY <1>3, <1>4, <1>5, <1>6, <1>7 DEF TablesInv

\* A step that changes no table and no reader keeps the counts.
LEMMA CountsKept ==
  ASSUME TablesInv, refCount' = refCount, marker' = marker, fd' = fd, made' = made,
         \A p \in Procs : pc'[p] = "unborn" <=> pc[p] = "unborn"
  PROVE  UnbornEmpty' /\ DescsCounted'
<1>1. UnbornEmpty /\ DescsCounted /\ Root \in Procs
  BY FilesFacts DEF TablesInv
<1>2. \A d \in Descs : Shared!Slots(d)' = Shared!Slots(d) /\ Readers(d)' = Readers(d)
  BY DEF Shared!Slots, Readers
<1> QED
  BY <1>1, <1>2 DEF UnbornEmpty, DescsCounted

\* A store to the offset of d leaves the other offsets, and is noted for the reads it is under.
LEMMA OffsetMoves ==
  ASSUME TablesInv, NEW d \in Descs, NEW o, Shared!SetOffset(d, o)
  PROVE  /\ \A q \in Procs : moved'[q] \in BOOLEAN
         /\ \A q \in Procs : moved[q] => moved'[q]
         /\ \A q \in Procs : pc[q] \in {"readClamp", "readCall"} /\ ~moved'[q] =>
              marker[q] \in Descs /\ offsetOf'[marker[q]] = offsetOf[marker[q]]
<1>1. /\ offsetOf' = [offsetOf EXCEPT ![d] = o]
      /\ \A q \in Procs :
           moved'[q] = (moved[q] \/ (marker[q] = d /\ pc[q] \in {"readClamp", "readCall"}))
  BY DEF Shared!SetOffset
<1>2. offsetOf \in [Descs -> 0..(Word - 1)] /\ moved \in [Procs -> BOOLEAN]
  BY DEF TablesInv, TablesTypes
<1>3. ASSUME NEW q \in Procs, pc[q] \in {"readClamp", "readCall"}, ~moved'[q]
      PROVE  marker[q] \in Descs /\ offsetOf'[marker[q]] = offsetOf[marker[q]]
  <2>1. marker[q] \in Descs
    BY <1>3 DEF TablesInv, MarkersOk, Reads
  <2>2. marker[q] # d
    BY <1>1, <1>3
  <2> QED
    BY <1>1, <1>2, <2>1, <2>2
<1> QED
  BY <1>1, <1>2, <1>3

\* seek moves the offset under the reads of other processes.
LEMMA SeekKeeps ==
  ASSUME TablesInv, NEW p \in Procs, NEW i \in Shared!Fds, NEW o \in Offsets, Shared!Seek(p, i, o)
  PROVE  TablesInv'
<1>1. PICK d \in Descs : d = fd[p][i]
  BY DEF Shared!Seek, Shared!IsFile
<1>2. /\ TablesTypes /\ MarkersOk /\ ReadsOk /\ pc[p] = "user"
      /\ Shared!SetOffset(d, o) /\ o \in 0..(Word - 1)
      /\ pc' = pc /\ fd' = fd /\ refCount' = refCount /\ made' = made
      /\ marker' = marker /\ nbyte' = nbyte /\ at' = at /\ ret' = ret /\ sum' = sum
      /\ asked' = asked
  BY <1>1, FilesFacts DEF TablesInv, Shared!Seek, Shared!Call, Shared!readVars
<1>3. UnbornEmpty' /\ DescsCounted'
  BY <1>2, CountsKept
<1>4. TablesTypes' /\ MarkersOk'
  <2>1. offsetOf' \in [Descs -> 0..(Word - 1)] /\ moved' \in [Procs -> BOOLEAN]
    BY <1>2 DEF TablesTypes, Shared!SetOffset
  <2> QED
    BY <1>2, <2>1 DEF TablesTypes, MarkersOk
<1>5. ReadsOk'
  <2>1. Shared!ReadInFile'
    BY <1>2 DEF ReadsOk, Shared!ReadInFile
  <2>2. ASSUME NEW q \in Procs, ~moved'[q] PROVE ReadOk(q)'
    <3>1. ~moved[q] /\ ReadOk(q)
      BY <1>2, <2>2, OffsetMoves DEF ReadsOk
    <3>2. pc[q] \in {"readClamp", "readCall"} => offsetOf'[marker[q]] = offsetOf[marker[q]]
      BY <1>2, <2>2, OffsetMoves
    <3> QED
      BY <1>2, <3>1, <3>2 DEF ReadOk, Clamped, Shared!Exceeds, Shared!Left
  <2> QED
    BY <2>1, <2>2 DEF ReadsOk
<1> QED
  BY <1>2, <1>3, <1>4, <1>5 DEF TablesInv

\* A panic stops everything as it is.
LEMMA StopKeeps ==
  ASSUME TablesInv, UNCHANGED <<pc, fd, refCount, offsetOf, made, Shared!readVars, moved>>
  PROVE  TablesInv'
<1>1. /\ TablesTypes /\ MarkersOk /\ ReadsOk
      /\ pc' = pc /\ fd' = fd /\ refCount' = refCount /\ made' = made /\ offsetOf' = offsetOf
      /\ marker' = marker /\ nbyte' = nbyte /\ at' = at /\ ret' = ret /\ asked' = asked
      /\ sum' = sum /\ moved' = moved
  BY DEF TablesInv, Shared!readVars
<1>2. UnbornEmpty' /\ DescsCounted'
  BY <1>1, CountsKept
<1>3. TablesTypes' /\ MarkersOk' /\ ReadsOk'
  BY <1>1 DEF TablesTypes, MarkersOk, ReadsOk, ReadOk, Shared!ReadInFile
<1> QED
  BY <1>2, <1>3 DEF TablesInv

\* The clamp is from the offset as it is now; the size is still exceeded unless it was moved.
LEMMA ReadClampKeeps ==
  ASSUME TablesInv, NEW p \in Procs, Shared!ReadClamp(p)
  PROVE  TablesInv'
<1>1. PICK o : o = offsetOf[marker[p]]
  OBVIOUS
<1>2. /\ TablesTypes /\ MarkersOk /\ ReadsOk /\ pc[p] = "readClamp"
      /\ pc' = [pc EXCEPT ![p] = "readCall"] /\ nbyte' = [nbyte EXCEPT ![p] = Shared!Left(o)]
      /\ fd' = fd /\ refCount' = refCount /\ offsetOf' = offsetOf /\ made' = made
      /\ marker' = marker /\ at' = at /\ ret' = ret /\ sum' = sum /\ asked' = asked
      /\ moved' = moved
  BY <1>1 DEF TablesInv, Shared!ReadClamp
<1>3. o \in 0..(Word - 1) /\ Shared!Left(o) \in Nat
  <2>1. o \in 0..(Word - 1) /\ asked[p] \in 0..(Word - 1)
    BY <1>1, <1>2 DEF TablesTypes, MarkersOk, Reads
  <2> QED
    BY <2>1, ClampFits
<1>4. TablesTypes'
  BY <1>2, <1>3 DEF TablesTypes, Reads
<1>5. /\ \A q \in Procs : q # p => pc'[q] = pc[q] /\ nbyte'[q] = nbyte[q]
      /\ pc'[p] = "readCall" /\ nbyte'[p] = Shared!Left(o)
  BY <1>2 DEF TablesTypes
<1>6. UnbornEmpty' /\ DescsCounted' /\ MarkersOk'
  <2>1. \A q \in Procs : pc'[q] = "unborn" <=> pc[q] = "unborn"
    BY <1>2, <1>5
  <2>2. UnbornEmpty' /\ DescsCounted'
    BY <1>2, <2>1, CountsKept
  <2> QED
    BY <1>2, <1>5, <2>2 DEF MarkersOk, Reads
<1>7. ReadsOk'
  <2>1. Shared!ReadInFile'
    BY <1>2, <1>5 DEF ReadsOk, Shared!ReadInFile
  <2>2. ASSUME NEW q \in Procs, ~moved'[q] PROVE ReadOk(q)'
    <3>1. ReadOk(q)
      BY <1>2, <2>2 DEF ReadsOk
    <3>2. CASE q = p
      <4>1. Shared!Exceeds(o, asked[p])
        BY <1>1, <1>2, <3>1, <3>2 DEF ReadOk
      <4> QED
        BY <1>1, <1>2, <1>5, <3>2, <4>1 DEF ReadOk, Clamped, Shared!Exceeds, Shared!Left
    <3>3. CASE q # p
      BY <1>2, <1>5, <3>1, <3>3 DEF ReadOk, Clamped, Shared!Exceeds, Shared!Left
    <3> QED
      BY <3>2, <3>3
  <2> QED
    BY <2>1, <2>2 DEF ReadsOk
<1> QED
  BY <1>4, <1>6, <1>7 DEF TablesInv

\* read_all() is called with the offset as it is now, and with what was clamped before.
LEMMA ReadCallKeeps ==
  ASSUME TablesInv, NEW p \in Procs, Shared!ReadCall(p)
  PROVE  TablesInv'
<1>1. PICK o : o = offsetOf[marker[p]]
  OBVIOUS
<1>2. /\ TablesTypes /\ MarkersOk /\ ReadsOk /\ pc[p] = "readCall"
      /\ pc' = [pc EXCEPT ![p] = "readAdd"] /\ at' = [at EXCEPT ![p] = o]
      /\ ret' = [ret EXCEPT ![p] = Shared!ReadAll(o, nbyte[p])]
      /\ fd' = fd /\ refCount' = refCount /\ offsetOf' = offsetOf /\ made' = made
      /\ nbyte' = [nbyte EXCEPT ![p] = 0]
      /\ marker' = marker /\ asked' = asked /\ sum' = sum /\ moved' = moved
  BY <1>1 DEF TablesInv, Shared!ReadCall
<1>3. /\ marker[p] \in Descs /\ o \in 0..(Word - 1) /\ o \in Nat /\ nbyte[p] \in Nat
      /\ asked[p] \in 0..(Word - 1)
  BY <1>1, <1>2, FilesFacts DEF TablesTypes, MarkersOk, Reads
<1>4. /\ Shared!ReadAll(o, nbyte[p]) \in Int
      /\ Shared!ReadAll(o, nbyte[p]) > 0 => o + Shared!ReadAll(o, nbyte[p]) <= FileSize
  BY <1>3, ReadAllIs
<1>5. TablesTypes'
  BY <1>2, <1>3, <1>4 DEF TablesTypes, Reads
<1>6. UnbornEmpty' /\ DescsCounted' /\ MarkersOk'
  <2>1. \A q \in Procs : pc'[q] = "unborn" <=> pc[q] = "unborn"
    BY <1>2 DEF TablesTypes
  <2>2. UnbornEmpty' /\ DescsCounted'
    BY <1>2, <2>1, CountsKept
  <2> QED
    BY <1>2, <2>2 DEF MarkersOk, TablesTypes, Reads
<1>7. /\ \A q \in Procs : q # p => /\ pc'[q] = pc[q] /\ at'[q] = at[q] /\ ret'[q] = ret[q]
                                   /\ nbyte'[q] = nbyte[q]
      /\ pc'[p] = "readAdd" /\ at'[p] = o /\ ret'[p] = Shared!ReadAll(o, nbyte[p])
  BY <1>2 DEF TablesTypes
<1>8. ReadsOk'
  <2>1. Shared!ReadInFile'
    BY <1>2, <1>4, <1>7 DEF ReadsOk, Shared!ReadInFile
  <2>2. ASSUME NEW q \in Procs, ~moved'[q] PROVE ReadOk(q)'
    <3>1. ReadOk(q)
      BY <1>2, <2>2 DEF ReadsOk
    <3>2. CASE q = p
      <4>1. nbyte[p] = Clamped(o, asked[p])
        BY <1>1, <1>2, <3>1, <3>2 DEF ReadOk
      <4>2. Shared!ReadAll(o, nbyte[p]) <= asked[p]
        BY <1>3, <4>1, ClampFits
      <4> QED
        BY <1>2, <1>7, <3>2, <4>2 DEF ReadOk
    <3>3. CASE q # p
      BY <1>2, <1>7, <3>1, <3>3 DEF ReadOk, Clamped, Shared!Exceeds, Shared!Left
    <3> QED
      BY <3>2, <3>3
  <2> QED
    BY <2>1, <2>2 DEF ReadsOk
<1> QED
  BY <1>5, <1>6, <1>8 DEF TablesInv

\* open puts a descriptor that nobody has in one slot.
LEMMA OpenKeeps ==
  ASSUME TablesInv, NEW p \in Procs, NEW e \in Descs, NEW i \in Shared!Fds, Shared!Open(p, e, i)
  PROVE  TablesInv'
<1>1. /\ TablesTypes /\ MarkersOk /\ UnbornEmpty /\ DescsCounted /\ ReadsOk
      /\ pc[p] = "user" /\ e \notin made /\ fd[p][i] = None
      /\ fd' = [fd EXCEPT ![p][i] = e] /\ made' = made \cup {e}
      /\ refCount' = [refCount EXCEPT ![e] = 1] /\ offsetOf' = [offsetOf EXCEPT ![e] = 0]
      /\ pc' = pc /\ marker' = marker /\ nbyte' = nbyte /\ at' = at /\ ret' = ret /\ asked' = asked
      /\ sum' = sum /\ moved' = moved
  BY DEF TablesInv, Shared!Open, Shared!Call, Shared!readVars
<1>2. TablesTypes'
  BY <1>1, FilesFacts DEF TablesTypes
<1>3. \A q \in Procs, j \in Shared!Fds : fd'[q][j] = IF q = p /\ j = i THEN e ELSE fd[q][j]
  BY <1>1 DEF TablesTypes
<1>4. \A d \in Descs : d # e => refCount'[d] = refCount[d]
  BY <1>1 DEF TablesTypes
<1>5. refCount'[e] = 1 /\ Shared!Slots(e)' = {<<p, i>>} /\ Readers(e)' = {}
  <2>1. Shared!Slots(e) = {} /\ Readers(e) = {}
    BY <1>1 DEF UnbornEmpty
  <2>2. \A q \in Procs, j \in Shared!Fds : fd[q][j] # e
    <3>1. \A q \in Procs, j \in Shared!Fds : <<q, j>> \notin Shared!Slots(e)
      BY <2>1
    <3> QED
      BY <3>1 DEF Shared!Slots
  <2>3. Shared!Slots(e)' = {<<p, i>>}
    BY <1>3, <2>2 DEF Shared!Slots
  <2> QED
    BY <1>1, <2>1, <2>3 DEF TablesTypes, Readers
<1>6. ASSUME NEW d \in Descs, d # e
      PROVE  /\ Shared!Slots(d)' = Shared!Slots(d) /\ Readers(d)' = Readers(d)
             /\ IsFiniteSet(Shared!Slots(d)') /\ IsFiniteSet(Readers(d)')
             /\ refCount'[d] = Cardinality(Shared!Slots(d)') + Cardinality(Readers(d)')
  <2>1. \A q \in Procs, j \in Shared!Fds : (fd'[q][j] = d) <=> (fd[q][j] = d)
    BY <1>1, <1>3, <1>6, FilesFacts
  <2>2. \A q \in Procs : (marker'[q] = d) <=> (marker[q] = d)
    BY <1>1
  <2>3. refCount'[d] = refCount[d]
    BY <1>4, <1>6
  <2> QED
    BY ONLY d \in Descs, <1>1, <2>1, <2>2, <2>3, SameCount
<1>7. DescsCounted'
  <2>1. /\ IsFiniteSet(Shared!Slots(e)') /\ IsFiniteSet(Readers(e)')
        /\ refCount'[e] = Cardinality(Shared!Slots(e)') + Cardinality(Readers(e)')
    <3>1. /\ IsFiniteSet({<<p, i>>}) /\ Cardinality({<<p, i>>}) = 1
          /\ IsFiniteSet({}) /\ Cardinality({}) = 0
      BY FS_Singleton, FS_EmptySet
    <3> QED
      BY <1>5, <3>1
  <2>2. \A d \in Descs :
          /\ IsFiniteSet(Shared!Slots(d)') /\ IsFiniteSet(Readers(d)')
          /\ refCount'[d] = Cardinality(Shared!Slots(d)') + Cardinality(Readers(d)')
    BY <1>6, <2>1
  <2> QED
    BY <2>2 DEF DescsCounted
<1>8. UnbornEmpty'
  <2>1. \A q \in Procs : pc'[q] = "unborn" => \A j \in Shared!Fds : fd'[q][j] \notin Descs
    BY <1>1, <1>3 DEF UnbornEmpty
  <2>2. ASSUME NEW d \in Descs \ made'
        PROVE  refCount'[d] = 0 /\ Shared!Slots(d)' = {} /\ Readers(d)' = {}
    <3>1. d \in Descs /\ d \notin made /\ d # e
      BY <1>1
    <3>2. refCount[d] = 0 /\ Shared!Slots(d) = {} /\ Readers(d) = {}
      BY <1>1, <3>1 DEF UnbornEmpty
    <3> QED
      BY <1>4, <1>6, <3>1, <3>2
  <2> QED
    BY <1>1, <2>1, <2>2 DEF UnbornEmpty
<1>9. MarkersOk'
  BY <1>1 DEF MarkersOk
<1>10. ReadsOk'
  <2>1. Shared!ReadInFile'
    BY <1>1 DEF ReadsOk, Shared!ReadInFile
  <2>2. \A q \in Procs : pc[q] \in Reads => marker[q] # e
    BY <1>1 DEF UnbornEmpty, Readers
  <2>3. \A q \in Procs : pc[q] \in Reads => offsetOf'[marker[q]] = offsetOf[marker[q]]
    BY <1>1, <2>2 DEF TablesTypes, MarkersOk, Reads
  <2> QED
    BY <1>1, <2>1, <2>3 DEF ReadsOk, ReadOk, Reads, Clamped, Shared!Exceeds, Shared!Left
<1> QED
  BY <1>2, <1>7, <1>8, <1>9, <1>10 DEF TablesInv

\* close drops one reference to a file, and none to a console.
LEMMA CloseKeeps ==
  ASSUME TablesInv, NEW p \in Procs, NEW i \in Shared!Fds, Shared!Close(p, i)
  PROVE  TablesInv'
<1>1. PICK e : e = fd[p][i]
  OBVIOUS
<1>2. /\ TablesTypes /\ MarkersOk /\ UnbornEmpty /\ DescsCounted /\ ReadsOk
      /\ pc[p] = "user" /\ e # None /\ fd' = [fd EXCEPT ![p][i] = None]
      /\ refCount' = (IF e \in Descs THEN [refCount EXCEPT ![e] = @ - 1] ELSE refCount)
      /\ pc' = pc /\ offsetOf' = offsetOf /\ made' = made
      /\ marker' = marker /\ nbyte' = nbyte /\ at' = at /\ ret' = ret /\ asked' = asked
      /\ sum' = sum /\ moved' = moved
  BY <1>1 DEF TablesInv, Shared!Close, Shared!Call, Shared!readVars, Shared!IsFile
<1>3. TablesTypes'
  BY <1>2 DEF TablesTypes
<1>4. \A q \in Procs, j \in Shared!Fds : fd'[q][j] = IF q = p /\ j = i THEN None ELSE fd[q][j]
  BY <1>2 DEF TablesTypes
<1>5. ASSUME NEW d \in Descs
      PROVE  /\ IsFiniteSet(Shared!Slots(d)') /\ IsFiniteSet(Readers(d)')
             /\ refCount'[d] = Cardinality(Shared!Slots(d)') + Cardinality(Readers(d)')
             /\ d \notin made => refCount'[d] = 0 /\ Shared!Slots(d)' = {} /\ Readers(d)' = {}
  <2>1. CASE d # e
    <3>1. \A q \in Procs, j \in Shared!Fds : (fd'[q][j] = d) <=> (fd[q][j] = d)
      BY <1>1, <1>4, <2>1, FilesFacts
    <3>2. \A q \in Procs : (marker'[q] = d) <=> (marker[q] = d)
      BY <1>2
    <3>3. refCount'[d] = refCount[d]
      BY <1>2, <2>1 DEF TablesTypes
    <3>4. /\ Shared!Slots(d)' = Shared!Slots(d) /\ Readers(d)' = Readers(d)
          /\ IsFiniteSet(Shared!Slots(d)') /\ IsFiniteSet(Readers(d)')
          /\ refCount'[d] = Cardinality(Shared!Slots(d)') + Cardinality(Readers(d)')
      BY ONLY d \in Descs, <1>2, <3>1, <3>2, <3>3, SameCount
    <3> QED
      BY <1>2, <3>3, <3>4 DEF UnbornEmpty
  <2>2. CASE d = e
    <3>1. <<p, i>> \in Shared!Slots(d)
      BY <1>1, <2>2 DEF Shared!Slots
    <3>2. d \in made
      BY <1>2, <3>1 DEF UnbornEmpty
    <3>3. Shared!Slots(d)' = Shared!Slots(d) \ {<<p, i>>} /\ Readers(d)' = Readers(d)
      <4>1. Shared!Slots(d)' = Shared!Slots(d) \ {<<p, i>>}
        BY <1>4, FilesFacts DEF Shared!Slots
      <4> QED
        BY <1>2, <4>1 DEF Readers
    <3>4. /\ IsFiniteSet(Shared!Slots(d)) /\ IsFiniteSet(Readers(d))
          /\ refCount[d] = Cardinality(Shared!Slots(d)) + Cardinality(Readers(d))
          /\ refCount'[d] = refCount[d] - 1
      BY <1>2, <2>2 DEF DescsCounted, TablesTypes
    <3>5. /\ Cardinality(Shared!Slots(d)) \in Nat /\ IsFiniteSet(Shared!Slots(d) \ {<<p, i>>})
          /\ Cardinality(Shared!Slots(d) \ {<<p, i>>}) = Cardinality(Shared!Slots(d)) - 1
          /\ Cardinality(Readers(d)) \in Nat
      BY <3>1, <3>4, CountOne
    <3> QED
      BY <3>2, <3>3, <3>4, <3>5
  <2> QED
    BY <2>1, <2>2
<1>6. DescsCounted'
  BY <1>5 DEF DescsCounted
<1>7. UnbornEmpty'
  <2>1. \A q \in Procs : pc'[q] = "unborn" => \A j \in Shared!Fds : fd'[q][j] \notin Descs
    BY <1>2, <1>4, FilesFacts DEF UnbornEmpty
  <2> QED
    BY <1>2, <1>5, <2>1 DEF UnbornEmpty
<1>8. MarkersOk' /\ ReadsOk'
  BY <1>2 DEF MarkersOk, ReadsOk, ReadOk, Clamped, Shared!Exceeds, Shared!Left, Shared!ReadInFile
<1> QED
  BY <1>3, <1>6, <1>7, <1>8 DEF TablesInv

\* read adds a reference for as long as it works on the descriptor.
LEMMA ReadKeeps ==
  ASSUME TablesInv, NEW p \in Procs, NEW i \in Shared!Fds, NEW m \in Sizes, Shared!Read(p, i, m)
  PROVE  TablesInv'
<1>1. PICK e \in Descs : e = fd[p][i]
  BY DEF Shared!Read, Shared!IsFile
<1>2. /\ TablesTypes /\ MarkersOk /\ UnbornEmpty /\ DescsCounted /\ ReadsOk /\ pc[p] = "user"
      /\ pc' = [pc EXCEPT ![p] = IF Shared!Exceeds(offsetOf[e], m) THEN "readClamp" ELSE "readCall"]
      /\ marker' = [marker EXCEPT ![p] = e]
      /\ refCount' = [refCount EXCEPT ![e] = @ + 1]
      /\ nbyte' = [nbyte EXCEPT ![p] = m]
      /\ asked' = [asked EXCEPT ![p] = m]
      /\ fd' = fd /\ offsetOf' = offsetOf /\ made' = made /\ at' = at /\ ret' = ret
      /\ sum' = sum /\ moved' = moved
  BY <1>1 DEF TablesInv, Shared!Read, Shared!Call
<1>3. offsetOf[e] \in 0..(Word - 1) /\ m \in 0..(Word - 1) /\ m \in Nat
  BY <1>2, FilesFacts DEF TablesTypes
<1>4. TablesTypes'
  BY <1>2, <1>3 DEF TablesTypes, Reads
<1>5. /\ \A q \in Procs : q # p => /\ pc'[q] = pc[q] /\ marker'[q] = marker[q]
                                   /\ nbyte'[q] = nbyte[q] /\ asked'[q] = asked[q]
      /\ pc'[p] = (IF Shared!Exceeds(offsetOf[e], m) THEN "readClamp" ELSE "readCall")
      /\ marker'[p] = e /\ asked'[p] = m /\ nbyte'[p] = m
  BY <1>2 DEF TablesTypes
<1>6. marker[p] \notin Descs
  BY <1>2 DEF MarkersOk, Reads
<1>7. ASSUME NEW d \in Descs
      PROVE  /\ IsFiniteSet(Shared!Slots(d)') /\ IsFiniteSet(Readers(d)')
             /\ refCount'[d] = Cardinality(Shared!Slots(d)') + Cardinality(Readers(d)')
             /\ d \notin made => refCount'[d] = 0 /\ Shared!Slots(d)' = {} /\ Readers(d)' = {}
  <2>1. CASE d # e
    <3>1. \A q \in Procs, j \in Shared!Fds : (fd'[q][j] = d) <=> (fd[q][j] = d)
      BY <1>2
    <3>2. \A q \in Procs : (marker'[q] = d) <=> (marker[q] = d)
      BY <1>5, <1>6, <2>1
    <3>3. refCount'[d] = refCount[d]
      BY <1>2, <2>1 DEF TablesTypes
    <3>4. /\ Shared!Slots(d)' = Shared!Slots(d) /\ Readers(d)' = Readers(d)
          /\ IsFiniteSet(Shared!Slots(d)') /\ IsFiniteSet(Readers(d)')
          /\ refCount'[d] = Cardinality(Shared!Slots(d)') + Cardinality(Readers(d)')
      BY ONLY d \in Descs, <1>2, <3>1, <3>2, <3>3, SameCount
    <3> QED
      BY <1>2, <3>3, <3>4 DEF UnbornEmpty
  <2>2. CASE d = e
    <3>1. <<p, i>> \in Shared!Slots(d)
      BY <1>1, <2>2 DEF Shared!Slots
    <3>2. d \in made
      BY <1>2, <3>1 DEF UnbornEmpty
    <3>3. Readers(d)' = Readers(d) \cup {p} /\ p \notin Readers(d)
      BY <1>5, <1>6, <2>2 DEF Readers
    <3>4. Shared!Slots(d)' = Shared!Slots(d)
      BY <1>2 DEF Shared!Slots
    <3>5. /\ IsFiniteSet(Shared!Slots(d)) /\ IsFiniteSet(Readers(d))
          /\ refCount[d] = Cardinality(Shared!Slots(d)) + Cardinality(Readers(d))
          /\ refCount'[d] = refCount[d] + 1
      BY <1>2, <2>2 DEF DescsCounted, TablesTypes
    <3>6. /\ Cardinality(Readers(d)) \in Nat /\ IsFiniteSet(Readers(d) \cup {p})
          /\ Cardinality(Readers(d) \cup {p}) = Cardinality(Readers(d)) + 1
          /\ Cardinality(Shared!Slots(d)) \in Nat
      BY <3>3, <3>5, CountOne
    <3> QED
      BY <3>2, <3>3, <3>4, <3>5, <3>6
  <2> QED
    BY <2>1, <2>2
<1>8. DescsCounted'
  BY <1>7 DEF DescsCounted
<1>9. UnbornEmpty'
  <2>1. /\ \A q \in Procs : pc'[q] = "unborn" => \A j \in Shared!Fds : fd'[q][j] \notin Descs
        /\ pc'[Root] # "unborn"
    BY <1>2, <1>5, FilesFacts DEF UnbornEmpty
  <2> QED
    BY <1>2, <1>7, <2>1 DEF UnbornEmpty
<1>10. MarkersOk'
  BY <1>2, <1>5 DEF MarkersOk, Reads
<1>11. ReadsOk'
  <2>1. Shared!ReadInFile'
    BY <1>2, <1>5 DEF ReadsOk, Shared!ReadInFile
  <2>2. ASSUME NEW q \in Procs, ~moved'[q] PROVE ReadOk(q)'
    <3>1. CASE q = p
      BY <1>2, <1>5, <3>1 DEF ReadOk, Clamped, Shared!Exceeds, Shared!Left
    <3>2. CASE q # p
      BY <1>2, <1>5, <2>2, <3>2 DEF ReadsOk, ReadOk, Clamped, Shared!Exceeds, Shared!Left
    <3> QED
      BY <3>1, <3>2
  <2> QED
    BY <2>1, <2>2 DEF ReadsOk
<1> QED
  BY <1>4, <1>8, <1>9, <1>10, <1>11 DEF TablesInv

\* The end of read loads the offset again.
LEMMA ReadAddKeeps ==
  ASSUME TablesInv, NEW p \in Procs, Shared!ReadAdd(p)
  PROVE  TablesInv'
<1>1. PICK s : s = (offsetOf[marker[p]] + ret[p]) % Word
  OBVIOUS
<1>2. /\ TablesTypes /\ MarkersOk /\ ReadsOk /\ pc[p] = "readAdd"
      /\ pc' = [pc EXCEPT ![p] = "readStore"] /\ sum' = [sum EXCEPT ![p] = s]
      /\ at' = [at EXCEPT ![p] = 0] /\ ret' = [ret EXCEPT ![p] = 0]
      /\ asked' = [asked EXCEPT ![p] = 0] /\ moved' = [moved EXCEPT ![p] = FALSE]
      /\ fd' = fd /\ refCount' = refCount /\ offsetOf' = offsetOf /\ made' = made
      /\ marker' = marker /\ nbyte' = nbyte
  BY <1>1 DEF TablesInv, Shared!ReadAdd
<1>3. s \in 0..(Word - 1) /\ 0 \in 0..(Word - 1)
  <2>1. offsetOf[marker[p]] + ret[p] \in Int
    BY <1>2, FilesFacts DEF TablesTypes, MarkersOk, Reads
  <2> QED
    BY <1>1, <2>1, Modulo, FilesFacts
<1>4. TablesTypes'
  BY <1>2, <1>3 DEF TablesTypes, Reads
<1>5. /\ \A q \in Procs : q # p => /\ pc'[q] = pc[q] /\ at'[q] = at[q] /\ ret'[q] = ret[q]
                                   /\ asked'[q] = asked[q] /\ moved'[q] = moved[q]
      /\ pc'[p] = "readStore"
  BY <1>2 DEF TablesTypes
<1>6. UnbornEmpty' /\ DescsCounted' /\ MarkersOk'
  <2>1. \A q \in Procs : pc'[q] = "unborn" <=> pc[q] = "unborn"
    BY <1>2, <1>5
  <2>2. UnbornEmpty' /\ DescsCounted'
    BY <1>2, <2>1, CountsKept
  <2> QED
    BY <1>2, <1>5, <2>2 DEF MarkersOk, Reads
<1>7. ReadsOk'
  <2>1. Shared!ReadInFile'
    BY <1>2, <1>5 DEF ReadsOk, Shared!ReadInFile
  <2>2. ASSUME NEW q \in Procs, ~moved'[q] PROVE ReadOk(q)'
    BY <1>2, <1>5, <2>2 DEF ReadsOk, ReadOk, Clamped, Shared!Exceeds, Shared!Left
  <2> QED
    BY <2>1, <2>2 DEF ReadsOk
<1> QED
  BY <1>4, <1>6, <1>7 DEF TablesInv

\* It then stores the offset, which may be under the reads of other processes, and drops the
\* reference.
LEMMA ReadStoreKeeps ==
  ASSUME TablesInv, NEW p \in Procs, Shared!ReadStore(p)
  PROVE  TablesInv'
<1>1. PICK e : e = marker[p]
  OBVIOUS
<1>2. /\ TablesTypes /\ MarkersOk /\ UnbornEmpty /\ DescsCounted /\ ReadsOk /\ pc[p] = "readStore"
      /\ pc' = [pc EXCEPT ![p] = "user"] /\ marker' = [marker EXCEPT ![p] = None]
      /\ Shared!SetOffset(e, sum[p]) /\ sum' = [sum EXCEPT ![p] = 0]
      /\ refCount' = [refCount EXCEPT ![e] = @ - 1]
      /\ nbyte' = nbyte /\ at' = at /\ ret' = ret /\ asked' = asked /\ fd' = fd /\ made' = made
  BY <1>1 DEF TablesInv, Shared!ReadStore
<1>3. e \in Descs /\ sum[p] \in 0..(Word - 1)
  BY <1>1, <1>2 DEF MarkersOk, Reads, TablesTypes
<1>4. TablesTypes'
  <2>1. offsetOf' \in [Descs -> 0..(Word - 1)] /\ moved' \in [Procs -> BOOLEAN]
    BY <1>2, <1>3 DEF TablesTypes, Shared!SetOffset
  <2>2. sum' \in [Procs -> 0..(Word - 1)] /\ refCount' \in [Descs -> Int]
    <3>1. 0 \in 0..(Word - 1)
      BY FilesFacts
    <3>2. sum' \in [Procs -> 0..(Word - 1)]
      BY <1>2, <3>1 DEF TablesTypes
    <3>3. refCount' \in [Descs -> Int]
      BY <1>2, <1>3 DEF TablesTypes
    <3> QED
      BY <3>2, <3>3
  <2>3. pc' \in [Procs -> {"unborn", "user"} \cup Reads] /\ marker' \in [Procs -> Descs \cup {None}]
    BY <1>2 DEF TablesTypes
  <2> QED
    BY <1>2, <2>1, <2>2, <2>3 DEF TablesTypes
<1>5. /\ \A q \in Procs : q # p => pc'[q] = pc[q] /\ marker'[q] = marker[q]
      /\ pc'[p] = "user" /\ marker'[p] = None
  BY <1>2 DEF TablesTypes
<1>6. ASSUME NEW d \in Descs
      PROVE  /\ IsFiniteSet(Shared!Slots(d)') /\ IsFiniteSet(Readers(d)')
             /\ refCount'[d] = Cardinality(Shared!Slots(d)') + Cardinality(Readers(d)')
             /\ d \notin made => refCount'[d] = 0 /\ Shared!Slots(d)' = {} /\ Readers(d)' = {}
  <2>1. CASE d # e
    <3>1. \A q \in Procs, j \in Shared!Fds : (fd'[q][j] = d) <=> (fd[q][j] = d)
      BY <1>2
    <3>2. \A q \in Procs : (marker'[q] = d) <=> (marker[q] = d)
      BY <1>1, <1>5, <2>1, FilesFacts
    <3>3. refCount'[d] = refCount[d]
      BY <1>2, <2>1 DEF TablesTypes
    <3>4. /\ Shared!Slots(d)' = Shared!Slots(d) /\ Readers(d)' = Readers(d)
          /\ IsFiniteSet(Shared!Slots(d)') /\ IsFiniteSet(Readers(d)')
          /\ refCount'[d] = Cardinality(Shared!Slots(d)') + Cardinality(Readers(d)')
      BY ONLY d \in Descs, <1>2, <3>1, <3>2, <3>3, SameCount
    <3> QED
      BY <1>2, <3>3, <3>4 DEF UnbornEmpty
  <2>2. CASE d = e
    <3>1. p \in Readers(d)
      BY <1>1, <2>2 DEF Readers
    <3>2. d \in made
      BY <1>2, <3>1 DEF UnbornEmpty
    <3>3. Readers(d)' = Readers(d) \ {p}
      BY <1>5, FilesFacts DEF Readers
    <3>4. Shared!Slots(d)' = Shared!Slots(d)
      BY <1>2 DEF Shared!Slots
    <3>5. /\ IsFiniteSet(Shared!Slots(d)) /\ IsFiniteSet(Readers(d))
          /\ refCount[d] = Cardinality(Shared!Slots(d)) + Cardinality(Readers(d))
          /\ refCount'[d] = refCount[d] - 1
      BY <1>2, <2>2 DEF DescsCounted, TablesTypes
    <3>6. /\ Cardinality(Readers(d)) \in Nat /\ IsFiniteSet(Readers(d) \ {p})
          /\ Cardinality(Readers(d) \ {p}) = Cardinality(Readers(d)) - 1
          /\ Cardinality(Shared!Slots(d)) \in Nat
      BY <3>1, <3>5, CountOne
    <3> QED
      BY <3>2, <3>3, <3>4, <3>5, <3>6
  <2> QED
    BY <2>1, <2>2
<1>7. DescsCounted'
  BY <1>6 DEF DescsCounted
<1>8. UnbornEmpty'
  <2>1. /\ \A q \in Procs : pc'[q] = "unborn" => \A j \in Shared!Fds : fd'[q][j] \notin Descs
        /\ pc'[Root] # "unborn"
    BY <1>2, <1>5, FilesFacts DEF UnbornEmpty
  <2> QED
    BY <1>2, <1>6, <2>1 DEF UnbornEmpty
<1>9. MarkersOk'
  BY <1>2, <1>5, FilesFacts DEF MarkersOk, Reads
<1>10. ReadsOk'
  <2>1. Shared!ReadInFile'
    BY <1>2, <1>5 DEF ReadsOk, Shared!ReadInFile
  <2>2. ASSUME NEW q \in Procs, q # p, ~moved'[q] PROVE ReadOk(q)'
    <3>1. ~moved[q] /\ ReadOk(q)
      BY <1>2, <1>3, <2>2, OffsetMoves DEF ReadsOk
    <3>2. pc[q] \in {"readClamp", "readCall"} => offsetOf'[marker[q]] = offsetOf[marker[q]]
      BY <1>2, <1>3, <2>2, OffsetMoves
    <3> QED
      BY <1>2, <1>5, <2>2, <3>1, <3>2 DEF ReadOk, Clamped, Shared!Exceeds, Shared!Left
  <2>3. ReadOk(p)'
    BY <1>5 DEF ReadOk
  <2> QED
    BY <2>1, <2>2, <2>3 DEF ReadsOk
<1> QED
  BY <1>4, <1>7, <1>8, <1>9, <1>10 DEF TablesInv

\* The first process has its consoles and no file.
LEMMA TablesInitially == Init => TablesInv
<1> SUFFICES ASSUME Init PROVE TablesInv
  OBVIOUS
<1>1. Shared!Init
  BY DEF Init
<1>2. TablesTypes
  BY <1>1, FilesFacts DEF Shared!Init, Shared!NewTable, TablesTypes, Reads
<1>3. /\ \A p \in Procs, i \in Shared!Fds : fd[p][i] \notin Descs
      /\ \A p \in Procs : marker[p] \notin Descs /\ pc[p] \in {"user", "unborn"}
      /\ pc[Root] = "user"
  BY <1>1, FilesFacts DEF Shared!Init, Shared!NewTable
<1>4. \A d \in Descs : refCount[d] = 0 /\ Shared!Slots(d) = {} /\ Readers(d) = {}
  <2>1. \A d \in Descs : Shared!Slots(d) = {} /\ Readers(d) = {}
    BY <1>3 DEF Shared!Slots, Readers
  <2>2. \A d \in Descs : refCount[d] = 0
    BY <1>1 DEF Shared!Init
  <2> QED
    BY <2>1, <2>2
<1>5. IsFiniteSet({}) /\ Cardinality({}) = 0
  BY FS_EmptySet
<1>6. DescsCounted /\ UnbornEmpty
  <2>1. ASSUME NEW d \in Descs
        PROVE  /\ IsFiniteSet(Shared!Slots(d)) /\ IsFiniteSet(Readers(d))
               /\ refCount[d] = Cardinality(Shared!Slots(d)) + Cardinality(Readers(d))
    BY <1>4, <1>5
  <2> QED
    BY <1>3, <1>4, <2>1 DEF DescsCounted, UnbornEmpty
<1>7. MarkersOk /\ ReadsOk
  BY <1>3 DEF MarkersOk, ReadsOk, ReadOk, Reads, Shared!ReadInFile
<1> QED
  BY <1>2, <1>6, <1>7 DEF TablesInv

\* Every step keeps the invariant.
LEMMA TablesNext == TablesInv /\ [Next]_vars => TablesInv'
<1> SUFFICES ASSUME TablesInv, [Next]_vars PROVE TablesInv'
  OBVIOUS
<1>1. CASE UNCHANGED tables
  BY <1>1, StopKeeps DEF tables, Shared!readVars
<1>2. CASE Shared!Next
  <2>1. PICK p \in Procs :
          \/ \E q \in Procs : Shared!Fork(p, q)
          \/ Shared!ReadClamp(p)
          \/ Shared!ReadCall(p)
          \/ Shared!ReadAdd(p)
          \/ Shared!ReadStore(p)
          \/ \E i \in Shared!Fds :
               \/ \E d \in Descs : Shared!Open(p, d, i)
               \/ Shared!Close(p, i)
               \/ \E o \in Offsets : Shared!Seek(p, i, o)
               \/ Shared!SeekNothing(p, i)
               \/ \E m \in Sizes : Shared!Read(p, i, m)
               \/ Shared!ReadNothing(p, i)
    BY <1>2 DEF Shared!Next
  <2>2. CASE \E q \in Procs : Shared!Fork(p, q)
    BY <2>2, ForkKeeps
  <2>3. CASE Shared!ReadClamp(p) \/ Shared!ReadCall(p) \/ Shared!ReadAdd(p) \/ Shared!ReadStore(p)
    BY <2>3, ReadClampKeeps, ReadCallKeeps, ReadAddKeeps, ReadStoreKeeps
  <2>4. CASE \E i \in Shared!Fds : \E d \in Descs : Shared!Open(p, d, i)
    BY <2>4, OpenKeeps
  <2>5. CASE \E i \in Shared!Fds : Shared!Close(p, i)
    BY <2>5, CloseKeeps
  <2>6. CASE \E i \in Shared!Fds : \E o \in Offsets : Shared!Seek(p, i, o)
    BY <2>6, SeekKeeps
  <2>7. CASE \E i \in Shared!Fds : Shared!SeekNothing(p, i) \/ Shared!ReadNothing(p, i)
    BY <2>7, StopKeeps DEF Shared!SeekNothing, Shared!ReadNothing
  <2>8. CASE \E i \in Shared!Fds : \E m \in Sizes : Shared!Read(p, i, m)
    BY <2>8, ReadKeeps
  <2> QED
    BY <2>1, <2>2, <2>3, <2>4, <2>5, <2>6, <2>7, <2>8
<1> QED
  BY <1>1, <1>2 DEF Next, vars

\* In every state that fork, open, close, seek and the steps of read reach, the counts of the
\* descriptors, the tables and the reads agree.
THEOREM TablesInvariant == Spec => []TablesInv
<1>1. Init => TablesInv
  BY TablesInitially
<1>2. TablesInv /\ [Next]_vars => TablesInv'
  BY TablesNext
<1> QED
  BY <1>1, <1>2, PTL DEF Spec

\* The count of a FileDescriptor is the number of slots that have it and of reads that work on
\* it, so that close in one process never deletes what another one reads from.
THEOREM DescriptorsAreCounted == Spec => []RefsExact
<1>1. TablesInv => RefsExact
  BY SameCardinality DEF TablesInv, DescsCounted, Readers, RefsExact, Shared!RefsExact
<1> QED
  BY <1>1, TablesInvariant, PTL

\* No read leaves the file, whoever moves the offset between its steps, and a read under which
\* nobody moves it stores no more than asked for, also where the clamp wraps around.
THEOREM ReadsAreBounded == Spec => []ReadBounded
<1>1. TablesInv => ReadBounded
  BY DEF TablesInv, ReadsOk, ReadOk, ReadBounded, Shared!ReadBounded, Shared!ReadFits
<1> QED
  BY <1>1, TablesInvariant, PTL

-----------------------------------------------------------------------------
(* BlockIO *)

\* read_all() has stored the bytes from offset0 up to offset, and none past the end.
ReadingInv ==
  /\ size \in Nat /\ offset0 \in Nat /\ n0 \in Nat /\ n \in Nat /\ offset \in Nat
  /\ offset = offset0 + (n0 - n) /\ n <= n0
  /\ offset # offset0 => offset <= size
  /\ buffer = [k \in 1..(n0 - n) |-> offset0 + k - 1]
  /\ result = Blocks!Running \/ result = Blocks!Panic \/
       /\ n = 0 \/ offset >= size
       /\ result = (IF n > 0 /\ offset > size THEN Blocks!Error ELSE n0 - n)
  /\ Blocks!PanicsOnlyBeyond

\* The constants.
LEMMA BlocksFacts ==
  /\ BlockSize \in Nat \ {0} /\ NumDirect \in Nat \ {0} /\ NumRefs \in Nat \ {0}
  /\ MaxSize \in Nat /\ MaxArg \in Nat
  BY StorageAssumption DEF Blocks!BlockIOAssumption

\* Where a byte is: its block, and its place in the block.
LEMMA Divides ==
  ASSUME NEW x \in Nat
  PROVE  /\ x \div BlockSize \in Nat /\ x % BlockSize \in 0..(BlockSize - 1)
         /\ x = (x \div BlockSize) * BlockSize + (x % BlockSize)
  BY BlocksFacts

\* Node::read_block() finds every block where mkfs put it, direct or indirect.
LEMMA BlockIs ==
  ASSUME NEW b \in Nat, ~Blocks!BeyondIndirect(b)
  PROVE  Blocks!read_block(b) = [k \in 1..BlockSize |-> b * BlockSize + k - 1]
<1>1. BlockSize \in Nat /\ NumDirect \in Nat /\ NumRefs \in Nat /\ b < NumDirect + NumRefs
  BY BlocksFacts DEF Blocks!BeyondIndirect
<1>2. Blocks!read_block(b) = Blocks!Stored(100 + b)
  <2>1. CASE b < NumDirect
    <3>1. b \in 0..(NumDirect - 1)
      BY <1>1, <2>1
    <3> QED
      BY <2>1, <3>1 DEF Blocks!read_block, Blocks!direct, Blocks!Place
  <2>2. CASE ~(b < NumDirect)
    <3>1. b - NumDirect \in 0..(NumRefs - 1) /\ NumDirect + (b - NumDirect) = b
      BY <1>1, <2>2
    <3>2. Blocks!indirect_1[b - NumDirect] = 100 + b
      BY <3>1 DEF Blocks!indirect_1, Blocks!Place
    <3> QED
      BY <2>2, <3>2 DEF Blocks!read_block
  <2> QED
    BY <2>1, <2>2
<1>3. (100 + b) - 100 = b
  OBVIOUS
<1> QED
  BY <1>2, <1>3 DEF Blocks!Stored

\* read() gives the bytes from offset on, at least one and no more than n or than there are.
LEMMA ChunkIs ==
  ASSUME ReadingInv, n > 0, offset < size, ~Blocks!BeyondIndirect(offset \div BlockSize)
  PROVE  /\ Blocks!ActualN \in Nat \ {0} /\ Blocks!ActualN <= n
         /\ Blocks!ActualN <= size - offset
         /\ Blocks!Chunk(offset \div BlockSize) = [k \in 1..Blocks!ActualN |-> offset + k - 1]
<1>1. PICK a : a = Blocks!ActualN
  OBVIOUS
<1>2. PICK b \in Nat, r \in 0..(BlockSize - 1) :
        b = offset \div BlockSize /\ r = offset % BlockSize /\ offset = b * BlockSize + r
  <2>1. offset \in Nat
    BY DEF ReadingInv
  <2> QED
    BY <2>1, Divides
<1>3. /\ BlockSize \in Nat /\ r \in Nat /\ r < BlockSize /\ b * BlockSize \in Nat
      /\ offset \in Nat /\ n \in Nat /\ size \in Nat
  BY <1>2, BlocksFacts DEF ReadingInv
<1>4. /\ a \in Nat \ {0} /\ a <= n /\ a <= size - offset /\ a <= BlockSize - r
  BY <1>1, <1>2, <1>3 DEF Blocks!ActualN, Blocks!OffsetInBlock, Blocks!min
<1>5. PICK w : w = Blocks!read_block(b)
  OBVIOUS
<1>6. w = [k \in 1..BlockSize |-> b * BlockSize + k - 1]
  BY <1>2, <1>5, BlockIs
<1>7. Blocks!Chunk(b) = [k \in 1..a |-> offset + k - 1]
  <2>1. CASE a = BlockSize
    <3>1. r = 0 /\ b * BlockSize = offset
      BY <1>2, <1>3, <1>4, <2>1
    <3>2. w = [k \in 1..a |-> offset + k - 1]
      BY <1>6, <2>1, <3>1
    <3> QED
      BY <1>1, <1>5, <2>1, <3>2 DEF Blocks!Chunk
  <2>2. CASE a # BlockSize
    <3>1. w \in Seq(Int) /\ Len(w) = BlockSize
      <4>1. w \in [1..BlockSize -> Int]
        BY <1>3, <1>6
      <4> QED
        BY ONLY <1>3, <4>1
    <3>2. Blocks!Chunk(b) = SubSeq(w, r + 1, r + a)
      BY <1>1, <1>2, <1>5, <2>2 DEF Blocks!Chunk, Blocks!OffsetInBlock
    <3>3. SubSeq(w, r + 1, r + a) = [k \in 1..((r + a) - (r + 1) + 1) |-> w[(r + 1) + k - 1]]
      <4>1. r + 1 \in Int /\ r + a \in Int
        BY <1>3, <1>4
      <4> QED
        BY ONLY <3>1, <4>1
    <3>4. (r + a) - (r + 1) + 1 = a
      BY <1>3, <1>4
    <3>5. ASSUME NEW k \in 1..a PROVE w[(r + 1) + k - 1] = offset + k - 1
      <4>1. (r + 1) + k - 1 = r + k /\ r + k \in 1..BlockSize
        BY <1>3, <1>4
      <4>2. w[r + k] = b * BlockSize + (r + k) - 1
        BY <1>6, <4>1
      <4> QED
        BY <1>2, <1>3, <4>1, <4>2
    <3> QED
      BY <3>2, <3>3, <3>4, <3>5
  <2> QED
    BY <2>1, <2>2
<1> QED
  BY <1>1, <1>2, <1>4, <1>7

\* Two runs of bytes one after the other are a run of bytes.
LEMMA Runs ==
  ASSUME NEW o \in Nat, NEW j \in Nat, NEW a \in Nat
  PROVE  [k \in 1..j |-> o + k - 1] \o [k \in 1..a |-> (o + j) + k - 1]
           = [k \in 1..(j + a) |-> o + k - 1]
<1>1. PICK u, v, w : /\ u = [k \in 1..j |-> o + k - 1] /\ v = [k \in 1..a |-> (o + j) + k - 1]
                     /\ w = [k \in 1..(j + a) |-> o + k - 1]
  OBVIOUS
<1>2. u \in [1..j -> Int] /\ v \in [1..a -> Int]
  BY <1>1
<1>3. u \in Seq(Int) /\ Len(u) = j /\ v \in Seq(Int) /\ Len(v) = a
  BY ONLY <1>2, j \in Nat, a \in Nat
<1>4. PICK s : s = u \o v
  OBVIOUS
<1>5. /\ s \in Seq(Int) /\ Len(s) = Len(u) + Len(v)
      /\ \A k \in 1..(Len(u) + Len(v)) : s[k] = IF k <= Len(u) THEN u[k] ELSE v[k - Len(u)]
  <2>1. s = u \o v /\ u \in Seq(Int) /\ v \in Seq(Int)
    BY <1>3, <1>4
  <2> QED
    BY ONLY <2>1
<1>6. DOMAIN s = 1..(j + a) /\ DOMAIN w = 1..(j + a)
  BY <1>1, <1>3, <1>5
<1>7. ASSUME NEW k \in 1..(j + a) PROVE s[k] = w[k]
  <2>1. w[k] = o + k - 1
    BY <1>1
  <2>2. s[k] = IF k <= j THEN u[k] ELSE v[k - j]
    BY <1>3, <1>5
  <2>3. CASE k <= j
    BY <1>1, <2>1, <2>2, <2>3
  <2>4. CASE ~(k <= j)
    <3>1. k - j \in 1..a /\ (o + j) + (k - j) - 1 = o + k - 1
      BY <2>4
    <3> QED
      BY <1>1, <2>1, <2>2, <2>4, <3>1
  <2> QED
    BY <2>3, <2>4
<1>8. s = w
  <2>1. s = [k \in DOMAIN s |-> s[k]] /\ w = [k \in DOMAIN w |-> w[k]]
    BY <1>1, <1>5
  <2> QED
    BY <1>6, <1>7, <2>1
<1> QED
  BY <1>1, <1>4, <1>8

\* Init has stored nothing.
LEMMA ReadingInitially == Init => ReadingInv
<1> SUFFICES ASSUME Init PROVE ReadingInv
  OBVIOUS
<1>1. Blocks!Init
  BY DEF Init
<1>2. /\ size \in Nat /\ offset0 \in Nat /\ n0 \in Nat /\ offset = offset0 /\ n = n0
      /\ buffer = <<>> /\ result = Blocks!Running
  BY <1>1, BlocksFacts DEF Blocks!Init
<1>3. n0 - n = 0 /\ buffer = [k \in 1..(n0 - n) |-> offset0 + k - 1]
  BY <1>2
<1>4. Blocks!PanicsOnlyBeyond
  BY <1>2 DEF Blocks!PanicsOnlyBeyond, Blocks!Running, Blocks!Panic
<1> QED
  BY <1>2, <1>3, <1>4 DEF ReadingInv

\* One turn of the loop stores the next bytes of the file behind the others.
LEMMA ReadSomeKeeps == ReadingInv /\ Blocks!ReadSome => ReadingInv'
<1> SUFFICES ASSUME ReadingInv, Blocks!ReadSome PROVE ReadingInv'
  OBVIOUS
<1>1. PICK a : a = Blocks!ActualN
  OBVIOUS
<1>2. /\ result = Blocks!Running /\ n > 0 /\ offset < size
      /\ ~Blocks!BeyondIndirect(offset \div BlockSize)
      /\ buffer' = buffer \o Blocks!Chunk(offset \div BlockSize)
      /\ offset' = offset + a /\ n' = n - a
      /\ size' = size /\ offset0' = offset0 /\ n0' = n0 /\ result' = result
  BY <1>1 DEF Blocks!ReadSome
<1>3. /\ a \in Nat \ {0} /\ a <= n /\ a <= size - offset
      /\ Blocks!Chunk(offset \div BlockSize) = [k \in 1..a |-> offset + k - 1]
  BY <1>1, <1>2, ChunkIs
<1>4. /\ size \in Nat /\ offset0 \in Nat /\ n0 \in Nat /\ n \in Nat /\ offset \in Nat
      /\ offset = offset0 + (n0 - n) /\ n <= n0
      /\ buffer = [k \in 1..(n0 - n) |-> offset0 + k - 1]
  BY DEF ReadingInv
<1>5. PICK j \in Nat : j = n0 - n
  BY <1>4
<1>6. buffer' = [k \in 1..(j + a) |-> offset0 + k - 1]
  <2>1. /\ buffer' = [k \in 1..j |-> offset0 + k - 1] \o [k \in 1..a |-> (offset0 + j) + k - 1]
    BY <1>2, <1>3, <1>4, <1>5
  <2> QED
    BY <1>3, <1>4, <2>1, Runs
<1>7. n0' - n' = j + a /\ n' \in Nat /\ offset' \in Nat /\ n' <= n0 /\ offset' = offset0 + (j + a)
      /\ offset' <= size
  BY <1>2, <1>3, <1>4, <1>5
<1>8. buffer' = [k \in 1..(n0' - n') |-> offset0' + k - 1]
  BY <1>2, <1>6, <1>7
<1>9. Blocks!PanicsOnlyBeyond'
  BY <1>2 DEF Blocks!PanicsOnlyBeyond, Blocks!Running, Blocks!Panic
<1> QED
  BY <1>2, <1>4, <1>7, <1>8, <1>9 DEF ReadingInv, Blocks!Running

\* A block beyond the indirect ones is in a file that has more than those.
LEMMA PanicKeeps == ReadingInv /\ Blocks!ReadPanics => ReadingInv'
<1> SUFFICES ASSUME ReadingInv, Blocks!ReadPanics PROVE ReadingInv'
  OBVIOUS
<1>1. /\ n > 0 /\ offset < size /\ Blocks!BeyondIndirect(offset \div BlockSize)
      /\ result' = Blocks!Panic /\ offset' = offset /\ n' = n /\ buffer' = buffer
      /\ size' = size /\ offset0' = offset0 /\ n0' = n0
  BY DEF Blocks!ReadPanics
<1>2. offset \in Nat /\ size \in Nat
  BY DEF ReadingInv
<1>3. PICK b \in Nat, r \in 0..(BlockSize - 1) :
        b = offset \div BlockSize /\ r = offset % BlockSize /\ offset = b * BlockSize + r
  BY <1>2, Divides
<1>4. PICK c \in Nat : c = NumDirect + NumRefs
  BY BlocksFacts
<1>5. b >= c /\ BlockSize \in Nat
  BY <1>1, <1>3, <1>4, BlocksFacts DEF Blocks!BeyondIndirect
<1>6. b * BlockSize >= c * BlockSize /\ b * BlockSize \in Nat /\ c * BlockSize \in Nat
  <2>1. b = c + (b - c) /\ b - c \in Nat
    BY <1>5
  <2>2. b * BlockSize = c * BlockSize + (b - c) * BlockSize /\ (b - c) * BlockSize \in Nat
    BY <1>5, <2>1
  <2> QED
    BY <1>5, <2>2
<1>7. size > c * BlockSize
  BY <1>1, <1>2, <1>3, <1>5, <1>6
<1>8. Blocks!PanicsOnlyBeyond'
  BY <1>1, <1>4, <1>7 DEF Blocks!PanicsOnlyBeyond
<1> QED
  BY <1>1, <1>8 DEF ReadingInv, Blocks!Panic

\* read_all() returns.
LEMMA ReturnKeeps == ReadingInv /\ Blocks!Return => ReadingInv'
<1> SUFFICES ASSUME ReadingInv, Blocks!Return PROVE ReadingInv'
  OBVIOUS
<1>1. /\ n = 0 \/ offset >= size
      /\ result' = (IF n > 0 /\ offset > size THEN Blocks!Error ELSE n0 - n)
      /\ offset' = offset /\ n' = n /\ buffer' = buffer
      /\ size' = size /\ offset0' = offset0 /\ n0' = n0
  BY DEF Blocks!Return
<1>2. result' # Blocks!Panic
  BY <1>1 DEF ReadingInv, Blocks!Error, Blocks!Panic
<1>3. Blocks!PanicsOnlyBeyond'
  BY <1>2 DEF Blocks!PanicsOnlyBeyond
<1> QED
  BY <1>1, <1>3 DEF ReadingInv, Blocks!Error

\* In every state of read_all(), for every block size, file and arguments, the buffer holds the
\* bytes between the offset asked for and the one reached.
THEOREM ReadingInvariant == Spec => []ReadingInv
<1>1. Init => ReadingInv
  BY ReadingInitially
<1>2. ReadingInv /\ [Next]_vars => ReadingInv'
  <2> SUFFICES ASSUME ReadingInv, [Next]_vars PROVE ReadingInv'
    OBVIOUS
  <2>1. CASE UNCHANGED reading
    BY <2>1 DEF reading, ReadingInv, Blocks!PanicsOnlyBeyond
  <2>2. CASE Blocks!Next
    BY <2>2, ReadSomeKeeps, PanicKeeps, ReturnKeeps DEF Blocks!Next
  <2> QED
    BY <2>1, <2>2 DEF Next, vars
<1> QED
  BY <1>1, <1>2, PTL DEF Spec

\* read_all() returns what its comment promises and has then stored exactly those bytes, across
\* direct and indirect blocks; it never runs over the buffer, and panics only in a file that
\* needs doubly indirect blocks.
THEOREM ReadAllIsExact == Spec => []ReadAllExact
<1>1. ASSUME ReadingInv PROVE ReadAllExact
  <2>1. /\ size \in Nat /\ offset0 \in Nat /\ n0 \in Nat /\ n \in Nat /\ offset \in Nat
        /\ offset = offset0 + (n0 - n) /\ n <= n0 /\ (offset # offset0 => offset <= size)
        /\ buffer = [k \in 1..(n0 - n) |-> offset0 + k - 1]
    BY <1>1 DEF ReadingInv
  <2>2. Blocks!BufferBounded
    <3>1. PICK j \in Nat : j = n0 - n
      BY <2>1
    <3>2. buffer \in [1..j -> Int]
      BY <2>1, <3>1
    <3>3. Len(buffer) = j
      BY ONLY <3>2, j \in Nat
    <3> QED
      BY <2>1, <3>1, <3>3 DEF Blocks!BufferBounded
  <2>3. ASSUME result \notin {Blocks!Running, Blocks!Panic}, n0 > 0
        PROVE  /\ result = Blocks!Expected
               /\ result # Blocks!Error => buffer = [k \in 1..result |-> offset0 + k - 1]
    <3>1. /\ n = 0 \/ offset >= size
          /\ result = (IF n > 0 /\ offset > size THEN Blocks!Error ELSE n0 - n)
      BY <1>1, <2>3 DEF ReadingInv
    <3>2. result = Blocks!Expected
      BY <2>1, <2>3, <3>1 DEF Blocks!Expected, Blocks!min, Blocks!Error
    <3>3. result # Blocks!Error => buffer = [k \in 1..result |-> offset0 + k - 1]
      BY <2>1, <3>1
    <3> QED
      BY <3>2, <3>3
  <2> QED
    BY <1>1, <2>2, <2>3 DEF ReadingInv, ReadAllExact, Blocks!ReadAllExact
<1> QED
  BY <1>1, ReadingInvariant, PTL

-----------------------------------------------------------------------------
(* Numbers and steps *)

\* A set of numbers has a least one.
LEMMA Least ==
  ASSUME NEW T, T \subseteq Nat, T # {}
  PROVE  \E x \in T : \A y \in T : x <= y
<1>1. PICK R : R = OpToRel(<, Nat)
  OBVIOUS
<1>2. IsWellFoundedOn(R, Nat)
  BY <1>1, NatLessThanWellFounded
<1>3. \A x, y \in Nat : <<x, y>> \in R <=> x < y
  BY <1>1 DEF OpToRel
<1>4. PICK x \in T : \A y \in T : ~(<<y, x>> \in R)
  BY <1>2, WFMin
<1>5. \A y \in T : x \in Nat /\ y \in Nat /\ ~(y < x)
  BY <1>3, <1>4
<1>6. \A y \in T : x <= y
  BY <1>5
<1> QED
  BY <1>6

\* A set of numbers up to some z has a greatest one.
LEMMA Greatest ==
  ASSUME NEW z \in Nat, NEW T, T \subseteq 0..z, T # {}
  PROVE  \E x \in T : \A y \in T : y <= x
<1>1. PICK U : U = {m \in 0..z : z - m \in T}
  OBVIOUS
<1>2. \A y \in T : z - y \in U
  <2>1. ASSUME NEW y \in T PROVE z - y \in U
    <3>1. y \in 0..z /\ z - y \in 0..z /\ z - (z - y) = y
      OBVIOUS
    <3> QED
      BY <1>1, <3>1
  <2> QED
    BY <2>1
<1>3. U \subseteq Nat /\ U # {}
  <2>1. PICK y \in T : TRUE
    OBVIOUS
  <2>2. U # {}
    BY <1>2, <2>1
  <2>3. U \subseteq Nat
    BY <1>1
  <2> QED
    BY <2>2, <2>3
<1>4. PICK u \in U : \A v \in U : u <= v
  BY <1>3, Least
<1>5. z - u \in T /\ u \in 0..z
  BY <1>1
<1>6. ASSUME NEW y \in T PROVE y <= z - u
  <2>1. y \in 0..z /\ u <= z - y
    BY <1>2, <1>4
  <2> QED
    BY <1>5, <2>1
<1> QED
  BY <1>5, <1>6

\* What holds for 0 and goes from every number to the next one holds up to z.
LEMMA UpTo ==
  ASSUME NEW z \in Nat, NEW T, 0 \in T, \A k \in 1..z : k - 1 \in T => k \in T
  PROVE  \A k \in 0..z : k \in T
<1> DEFINE U == (0..z) \ T
<1>1. SUFFICES ASSUME U # {} PROVE FALSE
  OBVIOUS
<1>2. PICK k \in U : \A j \in U : k <= j
  <2>1. U \subseteq Nat
    OBVIOUS
  <2> HIDE DEF U
  <2> QED
    BY <1>1, <2>1, Least
<1>3. k \in 1..z /\ k - 1 \in 0..z /\ ~(k <= k - 1)
  OBVIOUS
<1>4. k - 1 \in T
  BY <1>2, <1>3
<1> QED
  BY <1>3, <1>4

\* A takes z steps on S.
Moves(S, z, A) == A \in [1..z -> [S -> S]]

\* g goes from a by the steps of A.
Iterated(a, z, A, g) == g = [k \in 0..z |-> IF k = 0 THEN a ELSE A[k][g[k - 1]]]

\* A function that takes one step per number: there is one, and it stays where the steps do.
LEMMA Iterates ==
  ASSUME NEW S, NEW a \in S, NEW z \in Nat, NEW A, Moves(S, z, A)
  PROVE  /\ \E g : Iterated(a, z, A, g)
         /\ \A g : Iterated(a, z, A, g) => g \in [0..z -> S]
<1> USE DEF Moves
<1> DEFINE T == {m \in 0..z : \E g \in [0..m -> S] :
                   g[0] = a /\ \A k \in 1..m : g[k] = A[k][g[k - 1]]}
<1>1. 0 \in T
  <2>1. PICK g : g = [k \in 0..0 |-> a]
    OBVIOUS
  <2>2. g \in [0..0 -> S] /\ g[0] = a /\ \A k \in 1..0 : g[k] = A[k][g[k - 1]]
    BY <2>1
  <2> QED
    BY <2>2
<1>2. ASSUME NEW m \in 1..z, m - 1 \in T PROVE m \in T
  <2>1. PICK g \in [0..(m - 1) -> S] :
          g[0] = a /\ \A k \in 1..(m - 1) : g[k] = A[k][g[k - 1]]
    BY <1>2
  <2>2. PICK f : f = [k \in 0..m |-> IF k = m THEN A[m][g[m - 1]] ELSE g[k]]
    OBVIOUS
  <2>3. A[m] \in [S -> S] /\ g[m - 1] \in S /\ A[m][g[m - 1]] \in S
    OBVIOUS
  <2>4. f \in [0..m -> S] /\ f[0] = a
    BY <2>1, <2>2, <2>3
  <2>5. \A k \in 1..m : f[k] = A[k][f[k - 1]]
    BY <2>1, <2>2, <2>3
  <2>6. m \in 0..z
    OBVIOUS
  <2> QED
    BY ONLY <2>4, <2>5, <2>6
<1>3. z \in T
  <2>1. z \in 0..z
    OBVIOUS
  <2>2. \A k \in 1..z : k - 1 \in T => k \in T
    BY <1>2
  <2> HIDE DEF T
  <2> QED
    BY <1>1, <2>1, <2>2, UpTo
<1>4. PICK g \in [0..z -> S] : g[0] = a /\ \A k \in 1..z : g[k] = A[k][g[k - 1]]
  BY <1>3
<1>5. g = [k \in 0..z |-> IF k = 0 THEN a ELSE A[k][g[k - 1]]]
  BY <1>4
<1>6. ASSUME NEW f, f = [k \in 0..z |-> IF k = 0 THEN a ELSE A[k][f[k - 1]]]
      PROVE  f \in [0..z -> S]
  <2> DEFINE V == {k \in 0..z : f[k] \in S}
  <2>1. 0 \in V
    BY <1>6
  <2>2. \A k \in 1..z : k - 1 \in V => k \in V
    <3>1. ASSUME NEW k \in 1..z, k - 1 \in V PROVE k \in V
      <4>1. f[k] = A[k][f[k - 1]] /\ A[k] \in [S -> S]
        BY <1>6
      <4> QED
        BY <3>1, <4>1
    <3> QED
      BY <3>1
  <2>3. \A k \in 0..z : k \in V
    <3> HIDE DEF V
    <3> QED
      BY <2>1, <2>2, UpTo
  <2> QED
    BY <1>6, <2>3
<1> QED
  BY <1>5, <1>6 DEF Iterated

-----------------------------------------------------------------------------
(* Filesystem *)

\* The constants, and what is known of a file system.
LEMMA NamesFacts ==
  /\ NumNodes \in Nat /\ PerGroup \in Nat \ {0} /\ MaxCwd \in Nat \ {0}
  /\ Names!RootDir \in Names!Nodes /\ Names!Nodes = 1..NumNodes
  /\ Names!Null = 0 /\ Names!Panic = NumNodes + 1 /\ Names!RootDir = 2
  /\ \A path \in Paths : path \in Seq(Names!Tokens)
  BY StorageAssumption
  DEF Names!FilesystemAssumption, Names!RootDir, Names!Nodes, Names!Null, Names!Panic

\* There is a live entry x in directory d, for node m.
Entry(d, x, m) ==
  Names!IsDir(d) /\ \E e \in DOMAIN tree[d] : tree[d][e] = [inode |-> m, name |-> x]

\* What is known of the file system that is mounted.
LEMMA TreeFacts ==
  ASSUME tree \in Trees
  PROVE  /\ \A d \in Names!Nodes : Names!IsDir(d) =>
              tree[d] \in Seq([inode : 0..NumNodes, name : STRING \ {"/"}])
         /\ \A d \in Names!Nodes : Names!IsDir(d) => \A j, k \in DOMAIN tree[d] :
              tree[d][j].name = tree[d][k].name /\ tree[d][j].inode # 0 /\ tree[d][k].inode # 0
              => j = k
         /\ Names!IsDir(Names!RootDir) /\ Entry(Names!RootDir, "..", Names!RootDir)
         /\ \A m \in Names!Nodes : \A x :
              Names!IsDir(m) /\ x \notin {".", ".."} /\ Entry(Names!RootDir, x, m) =>
                m # Names!RootDir /\ Entry(m, "..", Names!RootDir)
<1>1. Names!WellFormed(tree)
  BY StorageAssumption DEF Names!FilesystemAssumption
<1>2. ASSUME NEW m \in Names!Nodes, NEW x, x \notin {".", ".."},
             Names!IsDir(m), Entry(Names!RootDir, x, m)
      PROVE  m # Names!RootDir /\ Entry(m, "..", Names!RootDir)
  <2>1. PICK e \in DOMAIN tree[Names!RootDir] :
          tree[Names!RootDir][e] = [inode |-> m, name |-> x]
    BY <1>2 DEF Entry
  <2>2. tree[Names!RootDir][e].inode = m /\ tree[Names!RootDir][e].name \notin {".", ".."}
    BY <1>2, <2>1
  <2> QED
    BY <1>1, <1>2, <2>2 DEF Names!WellFormed, Entry, Names!IsDir
<1> QED
  BY <1>1, <1>2 DEF Names!WellFormed, Entry, Names!IsDir

\* The entries of a directory.
LEMMA EntryIs ==
  ASSUME tree \in Trees, NEW d \in Names!Nodes, Names!IsDir(d)
  PROVE  /\ Len(tree[d]) \in Nat /\ DOMAIN tree[d] = 1..Len(tree[d])
         /\ \A k \in DOMAIN tree[d] :
              /\ tree[d][k].inode \in 0..NumNodes /\ tree[d][k].name # "/"
              /\ tree[d][k] = [inode |-> tree[d][k].inode, name |-> tree[d][k].name]
<1>1. ASSUME NEW R, NEW q \in Seq(R)
      PROVE  Len(q) \in Nat /\ DOMAIN q = 1..Len(q) /\ \A k \in DOMAIN q : q[k] \in R
  OBVIOUS
<1>2. tree[d] \in Seq([inode : 0..NumNodes, name : STRING \ {"/"}])
  BY TreeFacts
<1>3. PICK R : R = [inode : 0..NumNodes, name : STRING \ {"/"}]
  OBVIOUS
<1>4. tree[d] \in Seq(R)
  BY ONLY <1>2, <1>3
<1>5. /\ Len(tree[d]) \in Nat /\ DOMAIN tree[d] = 1..Len(tree[d])
      /\ \A k \in DOMAIN tree[d] : tree[d][k] \in R
  BY ONLY <1>1, <1>4
<1>6. \A r \in R : /\ r.inode \in 0..NumNodes /\ r.name # "/"
                   /\ r = [inode |-> r.inode, name |-> r.name]
  BY ONLY <1>3
<1> QED
  BY ONLY <1>5, <1>6

\* Node n is where get_node() looks for it.
LEMMA NodeIs ==
  ASSUME NEW d \in Names!Nodes
  PROVE  Names!get_node(d) = d
<1>1. NumNodes \in Nat /\ PerGroup \in Nat \ {0} /\ Names!Nodes = 1..NumNodes
  BY NamesFacts
<1>2. \A x \in Nat : /\ x \div PerGroup \in Int /\ x % PerGroup \in Int
                     /\ x = (x \div PerGroup) * PerGroup + (x % PerGroup)
  BY <1>1
<1>3. ASSUME NEW m \in Names!Nodes, Names!Layout(m) = Names!Layout(d) PROVE m = d
  <2>1. PICK x \in Nat, y \in Nat : x = m - 1 /\ y = d - 1
    BY <1>1
  <2>2. x \div PerGroup = y \div PerGroup /\ x % PerGroup = y % PerGroup
    BY <1>3, <2>1 DEF Names!Layout
  <2>3. x = y
    BY <1>2, <2>2
  <2> QED
    BY <1>1, <2>1, <2>3
<1>4. Names!get_node(d) = CHOOSE m \in Names!Nodes : Names!Layout(m) = Names!Layout(d)
  BY DEF Names!get_node, Names!Layout
<1> QED
  BY <1>3, <1>4

\* Node::find() finds the last entry of a name, if there is one.
LEMMA FindIs ==
  ASSUME tree \in Trees, NEW d \in Names!Nodes, Names!IsDir(d), NEW part
  PROVE  \/ /\ \A k \in DOMAIN tree[d] : <<tree[d][k].name>> # part
            /\ Names!NodeFind(d, part) = 0
         \/ \E k \in DOMAIN tree[d] :
              /\ <<tree[d][k].name>> = part
              /\ \A j \in DOMAIN tree[d] : <<tree[d][j].name>> = part => j <= k
              /\ Names!NodeFind(d, part) = tree[d][k].inode
<1>1. PICK T : T = {k \in DOMAIN tree[d] : <<tree[d][k].name>> = part}
  OBVIOUS
<1>2. Names!NodeFind(d, part) =
        IF T = {} THEN 0 ELSE tree[d][CHOOSE k \in T : \A j \in T : j <= k].inode
  BY <1>1 DEF Names!NodeFind
<1>3. CASE T = {}
  BY <1>1, <1>2, <1>3
<1>4. CASE T # {}
  <2>1. Len(tree[d]) \in Nat /\ DOMAIN tree[d] = 1..Len(tree[d])
    BY EntryIs
  <2>2. PICK z \in Nat : z = Len(tree[d])
    BY <2>1
  <2>3. T \subseteq 0..z
    BY <1>1, <2>1, <2>2
  <2>4. \E k \in T : \A j \in T : j <= k
    BY <1>4, <2>3, Greatest
  <2>5. PICK k \in T : (\A j \in T : j <= k) /\ k = CHOOSE i \in T : \A j \in T : j <= i
    BY <2>4
  <2>6. Names!NodeFind(d, part) = tree[d][k].inode
    BY <1>2, <1>4, <2>5
  <2>7. k \in DOMAIN tree[d] /\ <<tree[d][k].name>> = part
    BY <1>1
  <2>8. \A j \in DOMAIN tree[d] : <<tree[d][j].name>> = part => j <= k
    BY <1>1, <2>5
  <2> QED
    BY <2>6, <2>7, <2>8
<1> QED
  BY <1>3, <1>4

\* A step down the tree comes to a node, to null or to a panic.
LEMMA DescendType ==
  ASSUME tree \in Trees, NEW w \in 0..(NumNodes + 1), NEW part
  PROVE  Names!Descend(w, part) \in 0..(NumNodes + 1)
<1>1. CASE part = <<>> \/ w \in {Names!Null, Names!Panic}
  BY <1>1 DEF Names!Descend
<1>2. CASE ~(part = <<>> \/ w \in {Names!Null, Names!Panic}) /\ ~Names!IsDir(w)
  BY <1>2, NamesFacts DEF Names!Descend
<1>3. CASE ~(part = <<>> \/ w \in {Names!Null, Names!Panic}) /\ Names!IsDir(w)
  <2>1. w \in Names!Nodes
    BY <1>3, NamesFacts
  <2>2. Names!NodeFind(w, part) \in 0..NumNodes
    <3>1. \A k \in DOMAIN tree[w] : tree[w][k].inode \in 0..NumNodes
      BY <1>3, <2>1, EntryIs
    <3>2. NumNodes \in Nat
      BY NamesFacts
    <3> QED
      BY <1>3, <2>1, <3>1, <3>2, FindIs
  <2>3. CASE Names!NodeFind(w, part) = 0
    BY <1>3, <2>3, NamesFacts DEF Names!Descend
  <2>4. CASE Names!NodeFind(w, part) # 0
    <3>1. Names!NodeFind(w, part) \in Names!Nodes
      BY <2>2, <2>4, NamesFacts
    <3> QED
      BY <1>3, <2>2, <2>4, <3>1, NodeIs, NamesFacts DEF Names!Descend
  <2> QED
    BY <2>3, <2>4
<1> QED
  BY <1>1, <1>2, <1>3

\* The nodes that x leads to from one of s.
Beneath(s, x) == {m \in Names!Nodes : \E d \in s : Entry(d, x, m)}

\* A node, null or a panic is what the entries lead to: that node, or nothing.
Agrees(w, s) ==
  /\ w \in 0..(NumNodes + 1) /\ s \subseteq Names!Nodes
  /\ \A m \in Names!Nodes : w = m <=> m \in s

\* A step down follows the entries.
LEMMA DescendAgrees ==
  ASSUME tree \in Trees, Names!NoGhosts, NEW w, NEW s, NEW x, Agrees(w, s)
  PROVE  Agrees(Names!Descend(w, <<x>>), Beneath(s, x))
<1>1. /\ w \in 0..(NumNodes + 1) /\ s \subseteq Names!Nodes
      /\ \A m \in Names!Nodes : w = m <=> m \in s
  BY DEF Agrees
<1>2. Names!Descend(w, <<x>>) \in 0..(NumNodes + 1)
  BY <1>1, DescendType
<1>3. Beneath(s, x) \subseteq Names!Nodes
  BY DEF Beneath
<1>4. SUFFICES ASSUME NEW m \in Names!Nodes
               PROVE  Names!Descend(w, <<x>>) = m <=> m \in Beneath(s, x)
  BY <1>2, <1>3 DEF Agrees
<1>5. NumNodes \in Nat /\ Names!Nodes = 1..NumNodes /\ Names!Null = 0 /\ Names!Panic = NumNodes + 1
  BY NamesFacts
<1>6. <<x>> # <<>>
  OBVIOUS
<1>7. CASE w \notin Names!Nodes
  <2>1. s = {} /\ w \in {Names!Null, Names!Panic} /\ w # m
    BY <1>1, <1>5, <1>7
  <2>2. Names!Descend(w, <<x>>) = w
    BY <2>1 DEF Names!Descend
  <2> QED
    BY <2>1, <2>2 DEF Beneath
<1>8. CASE w \in Names!Nodes
  <2>1. s = {w} /\ w \notin {Names!Null, Names!Panic}
    <3>1. w \in s /\ \A y \in s : y = w
      BY <1>1, <1>8
    <3>2. w # 0 /\ w # NumNodes + 1
      BY <1>5, <1>8
    <3> QED
      BY <1>5, <3>1, <3>2
  <2>2. m \in Beneath(s, x) <=> Entry(w, x, m)
    BY <2>1 DEF Beneath
  <2>3. CASE ~Names!IsDir(w)
    <3>1. Names!Descend(w, <<x>>) = Names!Panic
      BY <1>6, <2>1, <2>3 DEF Names!Descend
    <3> QED
      BY <1>5, <2>2, <2>3, <3>1 DEF Entry
  <2>4. CASE Names!IsDir(w)
    <3>1. Names!Descend(w, <<x>>) = IF Names!NodeFind(w, <<x>>) = 0 THEN 0
                                    ELSE Names!get_node(Names!NodeFind(w, <<x>>))
      BY <1>5, <1>6, <2>1, <2>4 DEF Names!Descend
    <3>3. DOMAIN tree[w] \subseteq Nat
      BY <1>8, <2>4, EntryIs
    <3>4. \A k \in DOMAIN tree[w] : /\ tree[w][k].inode \in 0..NumNodes
                                    /\ tree[w][k] = [inode |-> tree[w][k].inode,
                                                     name |-> tree[w][k].name]
      BY <1>8, <2>4, EntryIs
    <3>5. CASE (\A k \in DOMAIN tree[w] : <<tree[w][k].name>> # <<x>>)
               /\ Names!NodeFind(w, <<x>>) = 0
      <4>1. ~Entry(w, x, m)
        BY <3>5 DEF Entry
      <4> QED
        BY <1>5, <2>2, <3>1, <3>5, <4>1
    <3>6. CASE \E k \in DOMAIN tree[w] :
                 /\ <<tree[w][k].name>> = <<x>>
                 /\ \A j \in DOMAIN tree[w] : <<tree[w][j].name>> = <<x>> => j <= k
                 /\ Names!NodeFind(w, <<x>>) = tree[w][k].inode
      <4>1. PICK k \in DOMAIN tree[w] :
                 /\ tree[w][k].name = x
                 /\ \A j \in DOMAIN tree[w] : tree[w][j].name = x => j <= k
                 /\ Names!NodeFind(w, <<x>>) = tree[w][k].inode
        BY <3>6
      <4>2. ASSUME Names!Descend(w, <<x>>) = m PROVE Entry(w, x, m)
        <5>1. tree[w][k].inode = m
          <6>0. m # 0
            BY <1>5
          <6>1. tree[w][k].inode \in 0..NumNodes
            BY <3>4
          <6>2. tree[w][k].inode \in Names!Nodes
            BY <1>5, <3>1, <4>1, <4>2, <6>0, <6>1
          <6> QED
            BY <3>1, <4>1, <4>2, <6>0, <6>2, NodeIs
        <5>2. tree[w][k] = [inode |-> m, name |-> x]
          BY <3>4, <4>1, <5>1
        <5> QED
          BY <2>4, <5>2 DEF Entry
      <4>3. ASSUME Entry(w, x, m) PROVE Names!Descend(w, <<x>>) = m
        <5>1. PICK e \in DOMAIN tree[w] : tree[w][e] = [inode |-> m, name |-> x]
          BY <4>3 DEF Entry
        <5>2. tree[w][e].inode = m /\ tree[w][e].name = x /\ m # 0 /\ e <= k
          BY <1>5, <4>1, <5>1
        <5>3. tree[w][k].inode # 0
          <6>1. CASE e = k
            BY <5>2, <6>1
          <6>2. CASE e # k
            <7>1. e < k
              BY <3>3, <5>2, <6>2
            <7> QED
              BY <1>8, <2>4, <4>1, <5>2, <7>1 DEF Names!NoGhosts
          <6> QED
            BY <6>1, <6>2
        <5>4. e = k
          BY <1>8, <2>4, <4>1, <5>2, <5>3, TreeFacts
        <5> QED
          BY <3>1, <4>1, <5>2, <5>4, NodeIs
      <4> QED
        BY <2>2, <4>2, <4>3
    <3> QED
      BY <1>8, <2>4, <3>5, <3>6, FindIs
  <2> QED
    BY <2>3, <2>4
<1> QED
  BY <1>7, <1>8

\* The part of a path before slash i when no two names stand next to each other.
LEMMA PartIs ==
  ASSUME NEW p \in Seq(Names!Tokens), NEW i \in 1..Len(p)
  PROVE  /\ i = 1 \/ p[i - 1] = "/" => Names!Part(p, i) = <<>>
         /\ i > 1 /\ p[i - 1] # "/" /\ (i = 2 \/ p[i - 2] = "/")
            => Names!Part(p, i) = <<p[i - 1]>>
<1>1. PICK T : T = {k \in 1..(i - 1) : p[k] = "/"}
  OBVIOUS
<1>2. Names!Part(p, i) = IF T = {} THEN SubSeq(p, 1, i - 1)
                         ELSE SubSeq(p, 1 + CHOOSE k \in T : \A j \in T : j <= k, i - 1)
  BY <1>1 DEF Names!Part
<1>3. ASSUME i = 1 \/ p[i - 1] = "/" PROVE Names!Part(p, i) = <<>>
  <2>1. CASE i = 1
    <3>1. T = {}
      BY <1>1, <2>1
    <3>2. SubSeq(p, 1, i - 1) = <<>>
      BY <2>1
    <3> QED
      BY <1>2, <3>1, <3>2
  <2>2. CASE i # 1
    <3>1. i - 1 \in T /\ \A j \in T : j \in Int /\ j <= i - 1
      BY <1>1, <1>3, <2>2
    <3>2. (CHOOSE k \in T : \A j \in T : j <= k) = i - 1
      BY <3>1
    <3>3. SubSeq(p, 1 + (i - 1), i - 1) = <<>>
      OBVIOUS
    <3> QED
      BY <1>2, <3>1, <3>2, <3>3
  <2> QED
    BY <2>1, <2>2
<1>4. ASSUME i > 1, p[i - 1] # "/", i = 2 \/ p[i - 2] = "/"
      PROVE  Names!Part(p, i) = <<p[i - 1]>>
  <2>1. SubSeq(p, i - 1, i - 1) = <<p[i - 1]>>
    <3>0. PICK a \in 1..Len(p) : a = i - 1
      BY <1>4
    <3>1. PICK q : q = SubSeq(p, a, a)
      OBVIOUS
    <3>2. q \in Seq(Names!Tokens) /\ Len(q) = 1 /\ q[1] = p[a]
      BY <3>1
    <3>3. q = <<p[a]>>
      BY ONLY <3>2
    <3> QED
      BY <3>0, <3>1, <3>3
  <2>2. CASE i = 2
    <3>1. T = {}
      BY <1>1, <1>4, <2>2
    <3> QED
      BY <1>2, <2>1, <2>2, <3>1
  <2>3. CASE i # 2
    <3>1. i - 2 \in T /\ \A j \in T : j \in Int /\ j <= i - 2
      BY <1>1, <1>4, <2>3
    <3>2. (CHOOSE k \in T : \A j \in T : j <= k) = i - 2
      BY <3>1
    <3>3. 1 + (i - 2) = i - 1
      OBVIOUS
    <3> QED
      BY <1>2, <2>1, <3>1, <3>2, <3>3
  <2> QED
    BY <2>2, <2>3
<1> QED
  BY <1>3, <1>4

\* Token by token: the nodes that a path leads to.
Led(d, p, led) ==
  led = [k \in 0..Len(p) |->
           IF k = 0 THEN {d} ELSE IF p[k] = "/" THEN led[k - 1] ELSE Beneath(led[k - 1], p[k])]

\* The first of them, and each of the others from the one before it.
LEMMA LedStep ==
  ASSUME NEW d, NEW p, Len(p) \in Nat, NEW led, Led(d, p, led)
  PROVE  /\ led[0] = {d}
         /\ \A k \in 1..Len(p) :
              led[k] = IF p[k] = "/" THEN led[k - 1] ELSE Beneath(led[k - 1], p[k])
<1>1. 0 \in 0..Len(p) /\ \A k \in 1..Len(p) : k \in 0..Len(p) /\ k # 0
  OBVIOUS
<1> QED
  BY <1>1 DEF Led

\* LeadsTo() is the last of them.
LEMMA LedIs ==
  ASSUME NEW d \in Names!Nodes, NEW p \in Seq(Names!Tokens)
  PROVE  \E led : Led(d, p, led) /\ Names!LeadsTo(d, p) = led[Len(p)]
<1>1. PICK z \in Nat : z = Len(p)
  OBVIOUS
<1>2. PICK S : S = SUBSET Names!Nodes
  OBVIOUS
<1>3. PICK A : A = [k \in 1..z |-> [s \in S |-> IF p[k] = "/" THEN s ELSE Beneath(s, p[k])]]
  OBVIOUS
<1>4. PICK a \in S : a = {d}
  BY <1>2
<1>5. Moves(S, z, A)
  <2>1. \A s \in S : \A x : Beneath(s, x) \in S
    BY <1>2 DEF Beneath
  <2> QED
    BY <1>3, <2>1 DEF Moves
<1>6. PICK g : Iterated(a, z, A, g) /\ g \in [0..z -> S]
  BY <1>5, Iterates
<1>7. Led(d, p, g)
  <2>1. \A k \in 1..z : g[k - 1] \in S
    BY <1>6
  <2>2. \A k \in 1..z : A[k][g[k - 1]] =
                          IF p[k] = "/" THEN g[k - 1] ELSE Beneath(g[k - 1], p[k])
    BY <1>3, <2>1
  <2>3. \A k \in 0..z : k # 0 => k \in 1..z
    OBVIOUS
  <2> QED
    BY <1>1, <1>4, <1>6, <2>2, <2>3 DEF Led, Iterated
<1>8. PICK led : led = CHOOSE f : Led(d, p, f)
  OBVIOUS
<1>9. Led(d, p, led)
  BY <1>7, <1>8
<1>10. Names!LeadsTo(d, p) = led[Len(p)]
  BY <1>8 DEF Names!LeadsTo, Led, Beneath, Entry
<1> QED
  BY <1>9, <1>10

\* Token by token: where Ext2::find() is.
Walk(d, p, walk) ==
  walk = [i \in 0..Len(p) |->
            IF i = 0 THEN d
            ELSE IF p[i] = "/" THEN Names!Descend(walk[i - 1], Names!Part(p, i)) ELSE walk[i - 1]]

\* find() ends where it is after the last token, with a slash at the end.
LEMMA WalkIs ==
  ASSUME tree \in Trees, NEW d \in 0..(NumNodes + 1), NEW path \in Seq(Names!Tokens)
  PROVE  \E walk : /\ Walk(d, Append(path, "/"), walk)
                   /\ walk \in [0..(Len(path) + 1) -> 0..(NumNodes + 1)]
                   /\ Names!find(d, path) = walk[Len(path) + 1]
<1>1. PICK p : p = Append(path, "/")
  OBVIOUS
<1>2. PICK z \in Nat : p \in Seq(Names!Tokens) /\ z = Len(p) /\ z = Len(path) + 1
  <2>0. "/" \in Names!Tokens
    BY DEF Names!Tokens
  <2>1. path \in Seq(Names!Tokens)
    OBVIOUS
  <2>2. p \in Seq(Names!Tokens) /\ Len(p) = Len(path) + 1 /\ Len(p) \in Nat
    BY ONLY <1>1, <2>0, <2>1
  <2> QED
    BY ONLY <2>2
<1>3. PICK S : S = Names!Nodes \cup {Names!Null, Names!Panic}
  OBVIOUS
<1>4. S = 0..(NumNodes + 1) /\ d \in S
  BY <1>3, NamesFacts
<1>5. PICK A : A = [i \in DOMAIN p |-> [m \in S |->
                      IF p[i] = "/" THEN Names!Descend(m, Names!Part(p, i)) ELSE m]]
  OBVIOUS
<1>6. DOMAIN p = 1..z
  <2>1. p \in Seq(Names!Tokens) /\ Len(p) = z
    BY <1>2
  <2> QED
    BY ONLY <2>1
<1>7. Moves(S, z, A)
  <2>1. \A m \in S : \A x : Names!Descend(m, x) \in S
    BY <1>4, DescendType
  <2> QED
    BY <1>5, <1>6, <2>1 DEF Moves
<1> DEFINE Body(g) == [i \in 0..Len(p) |-> IF i = 0 THEN d ELSE A[i][g[i - 1]]]
<1>8. PICK walk : walk = CHOOSE g : g = Body(g)
  OBVIOUS
<1>9. walk = Body(walk) /\ walk \in [0..z -> S]
  <2>1. \E g : Iterated(d, z, A, g)
    BY <1>4, <1>7, Iterates
  <2>2. \E g : g = Body(g)
    BY <1>2, <2>1 DEF Iterated
  <2>3. walk = Body(walk)
    <3> HIDE DEF Body
    <3> QED
      BY <1>8, <2>2
  <2>4. Iterated(d, z, A, walk)
    BY <1>2, <2>3 DEF Iterated
  <2>5. walk \in [0..z -> S]
    BY <1>4, <1>7, <2>4, Iterates
  <2> QED
    BY <2>3, <2>5
<1>10. Walk(d, p, walk)
  <2>1. \A i \in 1..z : walk[i - 1] \in S
    <3>1. walk \in [0..z -> S] /\ \A i \in 1..z : i - 1 \in 0..z
      BY <1>9
    <3> QED
      BY ONLY <3>1
  <2>2. \A i \in 1..z : A[i][walk[i - 1]] =
          IF p[i] = "/" THEN Names!Descend(walk[i - 1], Names!Part(p, i)) ELSE walk[i - 1]
    BY <1>5, <1>6, <2>1
  <2>3. \A i \in 0..z : i # 0 => i \in 1..z
    OBVIOUS
  <2> QED
    BY <1>2, <1>9, <2>2, <2>3 DEF Walk
<1>11. Names!find(d, path) = walk[Len(p)]
  BY <1>1, <1>3, <1>5, <1>8 DEF Names!find
<1> QED
  BY <1>1, <1>2, <1>4, <1>9, <1>10, <1>11

\* No two names stand next to each other.
Apart(path) == \A k \in 1..(Len(path) - 1) : "/" \in {path[k], path[k + 1]}

\* find() and the entries agree after i tokens; a name at the end is not looked up yet.
InStep(path, walk, led, i) ==
  IF i = 0 \/ path[i] = "/" THEN Agrees(walk[i], led[i]) ELSE Agrees(walk[i], led[i - 1])

\* Where a slash ends a part of the path, find() steps down to where the entries lead.
LEMMA SlashAgrees ==
  ASSUME tree \in Trees, Names!NoGhosts, NEW path \in Seq(Names!Tokens), Apart(path),
         NEW walk, NEW led, NEW d, Led(d, path, led),
         NEW i \in 0..Len(path), InStep(path, walk, led, i)
  PROVE  Agrees(Names!Descend(walk[i], Names!Part(Append(path, "/"), i + 1)), led[i])
<1>1. PICK p : p = Append(path, "/")
  OBVIOUS
<1>2. PICK j : j = i + 1
  OBVIOUS
<1>3. "/" \in Names!Tokens /\ path \in Seq(Names!Tokens) /\ i \in 0..Len(path)
  BY DEF Names!Tokens
<1>4. /\ p \in Seq(Names!Tokens) /\ j \in 1..Len(p)
      /\ \A k \in 1..Len(path) : p[k] = path[k]
  BY ONLY <1>1, <1>2, <1>3
<1>5. CASE i = 0 \/ path[i] = "/"
  <2>1. j = 1 \/ p[j - 1] = "/"
    BY <1>2, <1>3, <1>4, <1>5
  <2>2. Names!Part(p, j) = <<>>
    BY <1>4, <2>1, PartIs
  <2> QED
    BY <1>1, <1>2, <1>5, <2>2 DEF InStep, Names!Descend
<1>6. CASE i # 0 /\ path[i] # "/"
  <2>1. i \in 1..Len(path) /\ j > 1 /\ j - 1 = i /\ j - 2 = i - 1 /\ p[i] = path[i]
    BY <1>2, <1>3, <1>4, <1>6
  <2>2. j = 2 \/ p[j - 2] = "/"
    <3>1. CASE i # 1
      <4>1. i - 1 \in 1..(Len(path) - 1) /\ (i - 1) + 1 = i /\ i - 1 \in 1..Len(path)
        BY <1>3, <2>1, <3>1
      <4>2. path[i - 1] = "/"
        BY <1>6, <4>1 DEF Apart
      <4> QED
        BY <1>4, <2>1, <4>1, <4>2
    <3> QED
      BY <1>2, <3>1
  <2>3. p[j - 1] # "/"
    BY <1>6, <2>1
  <2>4. Names!Part(p, j) = <<p[j - 1]>>
    BY <1>4, <2>1, <2>2, <2>3, PartIs
  <2>5. Names!Part(p, j) = <<path[i]>>
    BY <2>1, <2>4
  <2>6. Agrees(walk[i], led[i - 1])
    BY <1>6 DEF InStep
  <2>7. led[i] = Beneath(led[i - 1], path[i])
    BY <1>3, <1>6 DEF Led
  <2>8. Agrees(Names!Descend(walk[i], <<path[i]>>), led[i])
    BY <2>6, <2>7, DescendAgrees
  <2> QED
    BY <1>1, <1>2, <2>5, <2>8
<1> QED
  BY <1>5, <1>6

\* find() follows the entries.
LEMMA FindAgrees ==
  ASSUME tree \in Trees, Names!NoGhosts, NEW d \in Names!Nodes,
         NEW path \in Seq(Names!Tokens), Apart(path)
  PROVE  \A m \in Names!Nodes : m \in Names!LeadsTo(d, path) <=> Names!find(d, path) = m
<1>1. PICK led : Led(d, path, led) /\ Names!LeadsTo(d, path) = led[Len(path)]
  BY LedIs
<1>2. d \in 0..(NumNodes + 1)
  BY NamesFacts
<1>3. PICK p : p = Append(path, "/")
  OBVIOUS
<1>4. PICK walk : Walk(d, p, walk) /\ Names!find(d, path) = walk[Len(path) + 1]
  BY <1>2, <1>3, WalkIs
<1>5. PICK z \in Nat : z = Len(path)
  OBVIOUS
<1>6. Len(p) = z + 1 /\ p[z + 1] = "/" /\ \A k \in 1..z : p[k] = path[k]
  <2>1. "/" \in Names!Tokens /\ path \in Seq(Names!Tokens)
    BY DEF Names!Tokens
  <2> QED
    BY ONLY <1>3, <1>5, <2>1
<1>7. \A i \in 0..z : InStep(path, walk, led, i)
  <2>1. PICK T : T = {i \in 0..z : InStep(path, walk, led, i)}
    OBVIOUS
  <2>2. 0 \in T
    <3>1. walk[0] = d /\ led[0] = {d}
      BY <1>1, <1>4, <1>5, <1>6 DEF Walk, Led
    <3>2. Agrees(d, {d})
      BY <1>2 DEF Agrees
    <3>3. InStep(path, walk, led, 0)
      BY <3>1, <3>2 DEF InStep
    <3>4. 0 \in 0..z
      OBVIOUS
    <3> QED
      BY <2>1, <3>3, <3>4
  <2>3. ASSUME NEW i \in 1..z, i - 1 \in T PROVE i \in T
    <3>1. i - 1 \in 0..z /\ InStep(path, walk, led, i - 1) /\ (i - 1) + 1 = i /\ i \in 0..z
      BY <2>1, <2>3
    <3>2. /\ walk[i] = IF p[i] = "/" THEN Names!Descend(walk[i - 1], Names!Part(p, i))
                       ELSE walk[i - 1]
          /\ led[i] = IF path[i] = "/" THEN led[i - 1] ELSE Beneath(led[i - 1], path[i])
          /\ p[i] = path[i] /\ i # 0
      <4>1. i \in 0..Len(p) /\ i \in 0..Len(path) /\ i # 0
        BY <1>5, <1>6
      <4>2. p[i] = path[i]
        BY <1>6
      <4>3. led[i] = IF path[i] = "/" THEN led[i - 1] ELSE Beneath(led[i - 1], path[i])
        BY <1>1, <4>1 DEF Led
      <4>4. walk[i] = IF p[i] = "/" THEN Names!Descend(walk[i - 1], Names!Part(p, i))
                      ELSE walk[i - 1]
        BY <1>4, <4>1 DEF Walk
      <4> QED
        BY <4>1, <4>2, <4>3, <4>4
    <3>3. CASE path[i] = "/"
      <4>1. Agrees(Names!Descend(walk[i - 1], Names!Part(p, i)), led[i - 1])
        BY <1>1, <1>3, <1>5, <3>1, SlashAgrees
      <4> QED
        BY <2>1, <3>1, <3>2, <3>3, <4>1 DEF InStep
    <3>4. CASE path[i] # "/"
      <4>1. i - 1 = 0 \/ path[i - 1] = "/"
        <5>1. CASE i # 1
          <6>1. i - 1 \in 1..(Len(path) - 1) /\ (i - 1) + 1 = i
            BY <1>5, <5>1
          <6> QED
            BY <3>4, <6>1 DEF Apart
        <5> QED
          BY <5>1
      <4>2. Agrees(walk[i - 1], led[i - 1])
        BY <3>1, <4>1 DEF InStep
      <4> QED
        BY <2>1, <3>1, <3>2, <3>4, <4>2 DEF InStep
    <3> QED
      BY <3>3, <3>4
  <2>4. \A i \in 0..z : i \in T
    BY <2>2, <2>3, UpTo
  <2> QED
    BY <2>1, <2>4
<1>8. z \in 0..z /\ InStep(path, walk, led, z)
  BY <1>7
<1>9. Agrees(Names!Descend(walk[z], Names!Part(p, z + 1)), led[z])
  BY <1>1, <1>3, <1>5, <1>8, SlashAgrees
<1>10. walk[z + 1] = Names!Descend(walk[z], Names!Part(p, z + 1))
  <2>1. z + 1 \in 0..Len(p) /\ z + 1 # 0 /\ (z + 1) - 1 = z
    BY <1>6
  <2> QED
    BY <1>4, <1>6, <2>1 DEF Walk
<1> QED
  BY <1>1, <1>4, <1>5, <1>9, <1>10 DEF Agrees

\* As long as cd was plain, pwd is the root's or that of one of its directories.
PlainAt ==
  \/ current = Names!RootDir /\ cwd = <<"/">>
  \/ /\ current \in Names!Nodes /\ current # Names!RootDir /\ Names!IsDir(current)
     /\ \E x \in Names!Tokens \ {"/", ".", ".."} :
          cwd = <<"/", x>> /\ Entry(Names!RootDir, x, current)

\* The inductive invariant of Filesystem.
LookupInv == Names!TypeOK /\ (plain /\ Names!NoGhosts => PlainAt)

\* What a path of one name, or of none, leads to, with or without a slash in front.
LEMMA ShortLeads ==
  ASSUME tree \in Trees, NEW d \in Names!Nodes, NEW x \in Names!Tokens \ {"/"},
         NEW m \in Names!Nodes
  PROVE  /\ m \in Names!LeadsTo(d, <<"/">>) <=> m = d
         /\ m \in Names!LeadsTo(d, <<x>>) <=> Entry(d, x, m)
         /\ m \in Names!LeadsTo(d, <<"/", x>>) <=> Entry(d, x, m)
<1>1. "/" \in Names!Tokens /\ x \in Names!Tokens
  BY DEF Names!Tokens
<1>2. <<"/">> \in Seq(Names!Tokens) /\ <<x>> \in Seq(Names!Tokens)
      /\ <<"/", x>> \in Seq(Names!Tokens)
  BY ONLY <1>1
<1>3. m \in Names!LeadsTo(d, <<"/">>) <=> m = d
  <2>1. PICK p : p = <<"/">>
    OBVIOUS
  <2>2. p \in Seq(Names!Tokens) /\ Len(p) = 1 /\ p[1] = "/"
    BY <1>2, <2>1
  <2>3. PICK led : Led(d, p, led) /\ Names!LeadsTo(d, p) = led[Len(p)]
    BY <2>2, LedIs
  <2>4. led[0] = {d} /\ led[1] = led[0]
    BY <2>2, <2>3 DEF Led
  <2> QED
    BY <2>1, <2>2, <2>3, <2>4
<1>4. m \in Names!LeadsTo(d, <<x>>) <=> Entry(d, x, m)
  <2>1. PICK p : p = <<x>>
    OBVIOUS
  <2>2. p \in Seq(Names!Tokens) /\ Len(p) = 1 /\ p[1] = x
    BY <1>2, <2>1
  <2>3. PICK led : Led(d, p, led) /\ Names!LeadsTo(d, p) = led[Len(p)]
    BY <2>2, LedIs
  <2>4. led[0] = {d} /\ led[1] = Beneath(led[0], x)
    <3>1. 1 \in 1..Len(p) /\ p[1] # "/" /\ 1 - 1 = 0 /\ Len(p) \in Nat
      BY <2>2
    <3>2. /\ led[0] = {d}
          /\ led[1] = IF p[1] = "/" THEN led[1 - 1] ELSE Beneath(led[1 - 1], p[1])
      <4>1. /\ led[0] = {d}
            /\ \A k \in 1..Len(p) :
                 led[k] = IF p[k] = "/" THEN led[k - 1] ELSE Beneath(led[k - 1], p[k])
        <5>1. Len(p) \in Nat /\ Led(d, p, led)
          BY <2>3, <3>1
        <5> QED
          BY ONLY <5>1, LedStep
      <4> QED
        BY ONLY <3>1, <4>1
    <3>3. led[1] = Beneath(led[0], p[1])
      BY ONLY <3>1, <3>2
    <3> QED
      BY <2>2, <3>2, <3>3
  <2>5. m \in Beneath({d}, x) <=> Entry(d, x, m)
    BY DEF Beneath
  <2> QED
    BY <2>1, <2>2, <2>3, <2>4, <2>5
<1>5. m \in Names!LeadsTo(d, <<"/", x>>) <=> Entry(d, x, m)
  <2>1. PICK p : p = <<"/", x>>
    OBVIOUS
  <2>2. p \in Seq(Names!Tokens) /\ Len(p) = 2 /\ p[1] = "/" /\ p[2] = x
    BY <1>2, <2>1
  <2>3. PICK led : Led(d, p, led) /\ Names!LeadsTo(d, p) = led[Len(p)]
    BY <2>2, LedIs
  <2>4. led[0] = {d} /\ led[1] = led[0] /\ led[2] = Beneath(led[1], x)
    BY <2>2, <2>3 DEF Led
  <2>5. m \in Beneath({d}, x) <=> Entry(d, x, m)
    BY DEF Beneath
  <2> QED
    BY <2>1, <2>2, <2>3, <2>4, <2>5
<1> QED
  BY <1>3, <1>4, <1>5

\* What find() makes of such a path.
LEMMA ShortFind ==
  ASSUME tree \in Trees, Names!NoGhosts, NEW d \in Names!Nodes, NEW x \in Names!Tokens \ {"/"},
         NEW m \in Names!Nodes
  PROVE  /\ Names!find(d, <<"/">>) = d
         /\ Names!find(d, <<x>>) = m <=> Entry(d, x, m)
         /\ Names!find(d, <<"/", x>>) = m <=> Entry(d, x, m)
<1>1. "/" \in Names!Tokens /\ x \in Names!Tokens
  BY DEF Names!Tokens
<1>2. <<"/">> \in Seq(Names!Tokens) /\ <<x>> \in Seq(Names!Tokens)
      /\ <<"/", x>> \in Seq(Names!Tokens)
  BY ONLY <1>1
<1>3. Apart(<<"/">>) /\ Apart(<<x>>) /\ Apart(<<"/", x>>)
  BY DEF Apart
<1>4. Names!find(d, <<"/">>) = d
  BY <1>2, <1>3, ShortLeads, FindAgrees
<1>5. Names!find(d, <<x>>) = m <=> m \in Names!LeadsTo(d, <<x>>)
  BY <1>2, <1>3, FindAgrees
<1>6. Names!find(d, <<"/", x>>) = m <=> m \in Names!LeadsTo(d, <<"/", x>>)
  BY <1>2, <1>3, FindAgrees
<1> QED
  BY <1>4, <1>5, <1>6, ShortLeads

\* find() comes to a node, to null or to a panic.
LEMMA FindType ==
  ASSUME tree \in Trees, NEW d \in 0..(NumNodes + 1), NEW path \in Seq(Names!Tokens)
  PROVE  Names!find(d, path) \in 0..(NumNodes + 1)
<1>1. PICK walk : /\ walk \in [0..(Len(path) + 1) -> 0..(NumNodes + 1)]
                  /\ Names!find(d, path) = walk[Len(path) + 1]
  BY WalkIs
<1>2. Len(path) + 1 \in 0..(Len(path) + 1)
  OBVIOUS
<1> QED
  BY ONLY <1>1, <1>2

\* One token behind another.
LEMMA TwoTokens ==
  ASSUME NEW S, NEW u \in Seq(S), NEW v \in Seq(S), Len(u) = 1, Len(v) = 1
  PROVE  u \o v = <<u[1], v[1]>>
<1>1. PICK s : s = u \o v
  OBVIOUS
<1>2. /\ s \in Seq(S) /\ Len(s) = Len(u) + Len(v)
      /\ \A i \in 1..Len(s) : s[i] = IF i <= Len(u) THEN u[i] ELSE v[i - Len(u)]
  BY ONLY <1>1, u \in Seq(S), v \in Seq(S)
<1>3. Len(s) = 2
  BY <1>2
<1>4. s[1] = u[1] /\ s[2] = v[1]
  BY <1>2, <1>3
<1>5. s \in Seq(S)
  BY <1>2
<1>6. s = <<s[1], s[2]>>
  BY ONLY <1>3, <1>5
<1> QED
  BY <1>1, <1>4, <1>6

\* Every step of cd keeps the invariant.
LEMMA CdKeeps ==
  ASSUME LookupInv, NEW path \in Paths, Names!changeDir(path)
  PROVE  LookupInv'
<1>1. /\ tree \in Trees /\ current \in 0..(NumNodes + 1)
      /\ cwd \in Seq(Names!Tokens) /\ Len(cwd) \in 1..MaxCwd /\ cwd[1] = "/" /\ plain \in BOOLEAN
      /\ plain /\ Names!NoGhosts => PlainAt
  BY NamesFacts DEF LookupInv, Names!TypeOK
<1>2. /\ path \in Seq(Names!Tokens) /\ MaxCwd \in Nat \ {0} /\ NumNodes \in Nat
      /\ Names!RootDir \in Names!Nodes /\ Names!Nodes = 1..NumNodes
      /\ Names!Nodes \cup {Names!Null, Names!Panic} = 0..(NumNodes + 1)
  BY NamesFacts
<1>3. tree' = tree
  BY DEF Names!changeDir, Names!ToRoot, Names!ToParent, Names!Stay, Names!Relative, Names!vars
<1>4. /\ Names!NoGhosts' <=> Names!NoGhosts
      /\ \A d : Names!IsDir(d)' <=> Names!IsDir(d)
      /\ \A d, x, m : Entry(d, x, m)' <=> Entry(d, x, m)
  BY <1>3 DEF Names!NoGhosts, Names!IsDir, Entry
<1>5. "/" \in Names!Tokens /\ <<"/">> \in Seq(Names!Tokens)
  BY DEF Names!Tokens
<1>6. CASE Names!ToRoot(path)
  <2>1. current' = Names!RootDir /\ cwd' = <<"/">> /\ plain' = TRUE
    BY <1>2, <1>6, NodeIs DEF Names!ToRoot
  <2>2. Names!TypeOK'
    BY <1>1, <1>2, <1>3, <1>5, <2>1 DEF Names!TypeOK
  <2>3. PlainAt'
    BY <2>1 DEF PlainAt
  <2> QED
    BY <2>2, <2>3 DEF LookupInv
<1>7. CASE Names!Stay(path)
  <2>1. UNCHANGED <<tree, current, cwd, plain>>
    BY <1>7 DEF Names!Stay, Names!vars
  <2>2. Names!TypeOK'
    BY <1>1, <1>2, <2>1 DEF Names!TypeOK
  <2>3. PlainAt' <=> PlainAt
    BY <1>4, <2>1 DEF PlainAt
  <2> QED
    BY <1>1, <1>4, <2>1, <2>2, <2>3 DEF LookupInv
<1>8. CASE Names!ToParent(path)
  <2>1. PICK s \in DOMAIN cwd : /\ s = Names!LastSlash
                                /\ cwd[s] = "/" /\ \A j \in DOMAIN cwd : cwd[j] = "/" => j <= s
    <3>1. PICK T : T = {k \in DOMAIN cwd : cwd[k] = "/"}
      OBVIOUS
    <3>2. PICK z \in Nat : z = Len(cwd)
      BY <1>1
    <3>3. T \subseteq 0..z /\ 1 \in T
      BY <1>1, <3>1, <3>2
    <3>4. PICK s \in T : \A j \in T : j <= s
      BY <3>3, Greatest
    <3>5. s \in DOMAIN cwd /\ cwd[s] = "/" /\ \A j \in DOMAIN cwd : cwd[j] = "/" => j <= s
      BY <3>1, <3>4
    <3> QED
      BY <3>5 DEF Names!LastSlash
  <2>2. /\ current' = Names!find(current, <<"..">>) /\ cwd' = SubSeq(cwd, 1, s) /\ plain' = plain
    BY <1>8, <2>1 DEF Names!ToParent
  <2>3. ".." \in Names!Tokens /\ <<"..">> \in Seq(Names!Tokens)
    BY DEF Names!Tokens
  <2>4. current' \in 0..(NumNodes + 1)
    BY <1>1, <2>2, <2>3, FindType
  <2>5. cwd' \in Seq(Names!Tokens) /\ Len(cwd') = s /\ cwd'[1] = "/" /\ s \in 1..Len(cwd)
    BY ONLY <1>1, <2>1, <2>2
  <2>6. Names!TypeOK'
    <3>1. Len(cwd') \in 1..MaxCwd
      BY ONLY <1>1, <1>2, <2>5
    <3>2. current' \in Names!Nodes \cup {Names!Null, Names!Panic}
      BY <1>2, <2>4
    <3> QED
      BY <1>1, <1>3, <2>2, <2>5, <3>1, <3>2 DEF Names!TypeOK
  <2>7. ASSUME plain, Names!NoGhosts PROVE PlainAt'
    <3>1. ASSUME current \in Names!Nodes, Entry(current, "..", Names!RootDir)
          PROVE  current' = Names!RootDir
      BY <1>1, <1>2, <2>2, <2>3, <2>7, <3>1, ShortFind
    <3>2. CASE current = Names!RootDir /\ cwd = <<"/">>
      <4>1. s = 1
        BY <2>1, <3>2
      <4>2. cwd' = <<"/">>
        BY ONLY <2>5, <4>1
      <4>3. current' = Names!RootDir
        BY <1>1, <1>2, <3>1, <3>2, TreeFacts
      <4> QED
        BY <4>2, <4>3 DEF PlainAt
    <3>3. CASE ~(current = Names!RootDir /\ cwd = <<"/">>)
      <4>1. current \in Names!Nodes /\ Names!IsDir(current)
        BY <1>1, <2>7, <3>3 DEF PlainAt
      <4>2. PICK x \in Names!Tokens \ {"/", ".", ".."} :
              cwd = <<"/", x>> /\ Entry(Names!RootDir, x, current)
        BY <1>1, <2>7, <3>3 DEF PlainAt
      <4>3. x # "/" /\ x \notin {".", ".."}
        BY <4>2
      <4>4. s = 1
        BY ONLY <2>1, <4>2, <4>3
      <4>5. cwd' = <<"/">>
        BY ONLY <2>5, <4>4
      <4>6. Entry(current, "..", Names!RootDir)
        BY <1>1, <4>1, <4>2, <4>3, TreeFacts
      <4> QED
        BY <3>1, <4>1, <4>5, <4>6 DEF PlainAt
    <3> QED
      BY <3>2, <3>3
  <2> QED
    BY <1>4, <2>2, <2>6, <2>7 DEF LookupInv
<1>9. CASE Names!Relative(path)
  <2>1. /\ Names!First(path) \notin {"/", "..", "."} /\ Len(cwd) + Len(path) <= MaxCwd
        /\ cwd' = cwd \o path /\ current' = Names!find(current, cwd')
        /\ plain' = (/\ plain /\ current = Names!RootDir /\ Len(path) <= 1
                     /\ Names!find(Names!RootDir, path) \in Names!Nodes
                     /\ Names!IsDir(Names!find(Names!RootDir, path)))
    BY <1>9 DEF Names!Relative
  <2>2. PICK q : q = cwd \o path
    OBVIOUS
  <2>3. /\ q \in Seq(Names!Tokens) /\ Len(q) = Len(cwd) + Len(path) /\ q[1] = cwd[1]
        /\ Len(path) \in Nat
    BY ONLY <1>1, <1>2, <2>2
  <2>4. Names!find(current, q) \in 0..(NumNodes + 1)
    BY <1>1, <2>3, FindType
  <2>5. Names!TypeOK'
    <3>1. Len(q) \in 1..MaxCwd
      BY ONLY <1>1, <1>2, <2>1, <2>3
    <3>2. cwd' \in Seq(Names!Tokens) /\ Len(cwd') \in 1..MaxCwd /\ cwd'[1] = "/"
      BY <1>1, <2>1, <2>2, <2>3, <3>1
    <3>3. current' \in Names!Nodes \cup {Names!Null, Names!Panic}
      BY <1>2, <2>1, <2>2, <2>4
    <3>4. plain' \in BOOLEAN
      BY ONLY <2>1
    <3> QED
      BY <1>1, <1>3, <3>2, <3>3, <3>4 DEF Names!TypeOK
  <2>6. ASSUME plain', Names!NoGhosts PROVE PlainAt'
    <3>1. /\ plain /\ current = Names!RootDir /\ Len(path) <= 1
          /\ Names!find(Names!RootDir, path) \in Names!Nodes
          /\ Names!IsDir(Names!find(Names!RootDir, path))
      BY <2>1, <2>6
    <3>2. cwd = <<"/">>
      BY <1>1, <2>6, <3>1 DEF PlainAt
    <3>3. CASE path = <<>>
      <4>1. q = <<"/">>
        BY ONLY <1>5, <2>2, <3>2, <3>3
      <4>2. Names!find(Names!RootDir, <<"/">>) = Names!RootDir
        <5>1. ".." \in Names!Tokens \ {"/"}
          BY DEF Names!Tokens
        <5> QED
          BY <1>1, <1>2, <2>6, <5>1, ShortFind
      <4> QED
        BY <2>1, <2>2, <3>1, <4>1, <4>2 DEF PlainAt
    <3>4. CASE path # <<>>
      <4>1. PICK x : x = path[1]
        OBVIOUS
      <4>2. Len(path) = 1 /\ path = <<x>> /\ x \in Names!Tokens
        <5>1. path \in Seq(Names!Tokens) /\ Len(path) \in Nat /\ Len(path) <= 1
          BY <1>2, <2>3, <3>1
        <5>2. Len(path) = 1
          <6>1. ASSUME Len(path) = 0 PROVE path = <<>>
            BY ONLY <5>1, <6>1
          <6>2. PICK z \in Nat : z = Len(path)
            BY <5>1
          <6>3. z <= 1 /\ z # 0
            BY <3>4, <5>1, <6>1, <6>2
          <6>4. z = 1
            BY ONLY z \in Nat, <6>3
          <6> QED
            BY <6>2, <6>4
        <5>3. path = <<path[1]>> /\ path[1] \in Names!Tokens
          BY ONLY <5>1, <5>2
        <5> QED
          BY <4>1, <5>2, <5>3
      <4>3. x \notin {"/", "..", "."}
        BY <2>1, <3>4, <4>1 DEF Names!First
      <4>4. q = <<"/", x>>
        <5>1. cwd \in Seq(Names!Tokens) /\ Len(cwd) = 1 /\ cwd[1] = "/"
          BY <1>1, <3>2
        <5>2. path \in Seq(Names!Tokens) /\ Len(path) = 1 /\ path[1] = x
          BY <1>2, <4>1, <4>2
        <5> QED
          BY <2>2, <5>1, <5>2, TwoTokens
      <4>5. PICK m \in Names!Nodes : m = Names!find(Names!RootDir, path)
        BY <3>1
      <4>6. Names!IsDir(m) /\ Entry(Names!RootDir, x, m)
        BY <1>1, <1>2, <2>6, <3>1, <4>2, <4>3, <4>5, ShortFind
      <4>7. current' = m
        <5>1. Names!find(Names!RootDir, <<"/", x>>) = m
          BY <1>1, <1>2, <2>6, <4>2, <4>3, <4>6, ShortFind
        <5> QED
          BY <2>1, <2>2, <3>1, <4>4, <5>1
      <4>8. m # Names!RootDir
        BY <1>1, <4>3, <4>6, TreeFacts
      <4>9. cwd' = <<"/", x>> /\ x \in Names!Tokens \ {"/", ".", ".."}
        BY <2>1, <2>2, <4>2, <4>3, <4>4
      <4>10. Names!IsDir(current)' /\ Entry(Names!RootDir, x, current)'
        BY <1>3, <4>6, <4>7 DEF Names!IsDir, Entry
      <4> QED
        BY <4>7, <4>8, <4>9, <4>10 DEF PlainAt
    <3> QED
      BY <3>3, <3>4
  <2> QED
    BY <1>4, <2>5, <2>6 DEF LookupInv
<1> QED
  BY <1>6, <1>7, <1>8, <1>9 DEF Names!changeDir

\* In every state that calls of cd reach, on any well-formed disk, cwd is a path from the root, and
\* after plain uses that of the current directory.
THEOREM LookupInvariant == Spec => []LookupInv
<1>1. Init => LookupInv
  <2> SUFFICES ASSUME Names!Init PROVE LookupInv
    BY DEF Init
  <2>1. tree \in Trees /\ current = Names!RootDir /\ cwd = <<"/">> /\ plain = TRUE
    BY NodeIs, NamesFacts DEF Names!Init
  <2>2. "/" \in Names!Tokens /\ <<"/">> \in Seq(Names!Tokens)
    BY DEF Names!Tokens
  <2>3. MaxCwd \in Nat \ {0} /\ Names!RootDir \in Names!Nodes
    BY NamesFacts
  <2>4. Names!TypeOK
    BY <2>1, <2>2, <2>3 DEF Names!TypeOK
  <2> QED
    BY <2>1, <2>4 DEF LookupInv, PlainAt
<1>2. LookupInv /\ [Next]_vars => LookupInv'
  <2> SUFFICES ASSUME LookupInv, [Next]_vars PROVE LookupInv'
    OBVIOUS
  <2>1. CASE UNCHANGED lookup
    BY <2>1 DEF lookup, LookupInv, PlainAt, Entry, Names!TypeOK, Names!NoGhosts, Names!IsDir
  <2>2. CASE Names!Next
    BY <2>2, CdKeeps DEF Names!Next
  <2> QED
    BY <2>1, <2>2 DEF Next, vars
<1> QED
  BY <1>1, <1>2, PTL DEF Spec

\* On every well-formed disk without ghosts, of any number of nodes and groups, and for every path
\* that cd gets, find() gives the node that the entries lead to, and null or a panic exactly when
\* they lead nowhere.
THEOREM FindIsLookup == Spec => []FindFollowsEntries
<1>1. LookupInv => FindFollowsEntries
  <2> SUFFICES ASSUME LookupInv, Names!NoGhosts,
                      NEW d \in {Names!RootDir, current} \cap Names!Nodes, NEW path \in Paths,
                      \A k \in 1..(Len(path) - 1) : "/" \in {path[k], path[k + 1]},
                      NEW m \in Names!Nodes
               PROVE  m \in Names!LeadsTo(d, path) <=> Names!find(d, path) = m
    BY DEF FindFollowsEntries, Names!FindFollowsEntries
  <2>1. tree \in Trees /\ path \in Seq(Names!Tokens)
    BY NamesFacts DEF LookupInv, Names!TypeOK
  <2>2. Apart(path)
    BY DEF Apart
  <2> QED
    BY <2>1, <2>2, FindAgrees
<1> QED
  BY <1>1, LookupInvariant, PTL

\* After plain uses of cd, in any order and number, pwd prints the way to the directory that ls
\* lists.
THEOREM PwdIsCurrent == Spec => []PwdNamesCurrent
<1>1. LookupInv => PwdNamesCurrent
  <2> SUFFICES ASSUME LookupInv, plain, Names!NoGhosts
               PROVE  /\ current \in Names!Nodes /\ Names!IsDir(current)
                      /\ current \in Names!LeadsTo(Names!RootDir, cwd)
    BY DEF LookupInv, PwdNamesCurrent, Names!PwdNamesCurrent
  <2>1. tree \in Trees /\ Names!RootDir \in Names!Nodes /\ PlainAt
    BY NamesFacts DEF LookupInv, Names!TypeOK
  <2>2. CASE current = Names!RootDir /\ cwd = <<"/">>
    <3>1. ".." \in Names!Tokens \ {"/"}
      BY DEF Names!Tokens
    <3> QED
      BY <2>1, <2>2, <3>1, TreeFacts, ShortLeads
  <2>3. CASE ~(current = Names!RootDir /\ cwd = <<"/">>)
    BY <2>1, <2>3, ShortLeads DEF PlainAt
  <2> QED
    BY <2>2, <2>3
<1> QED
  BY <1>1, LookupInvariant, PTL

-----------------------------------------------------------------------------
(* Heap *)

\* The constants.
LEMMA MemoryFacts ==
  /\ Ints \in Nat /\ Ints >= 8 /\ CountDown \in Nat \ {0} /\ SizeMod \in Nat \ {0}
  /\ Requests \subseteq 1..(SizeMod - 4) /\ Words \subseteq Int
  /\ Memory!Index = 0..(Ints - 1)
  BY StorageAssumption DEF Memory!HeapAssumption, Memory!Index

\* B cuts the array into blocks, block i reaching to R[i]; the sentinels have 2 ints, the
\* others at least 4.
Cut(B, R) ==
  /\ B \subseteq Memory!Index /\ 0 \in B /\ Ints - 2 \in B /\ R[0] = 2 /\ R[Ints - 2] = Ints
  /\ \A i \in B : /\ R[i] \in Int /\ R[i] \in B \cup {Ints}
                  /\ i # 0 /\ i # Ints - 2 => R[i] >= i + 4
  /\ \A i, j \in B : i < j => R[i] <= j

\* The tags say so, those of the blocks in F with a plus, those of the others with a minus.
Tagged(a, B, R, F) ==
  \A i \in B : a[i] = (IF i \in F THEN R[i] - i ELSE i - R[i]) /\ a[R[i] - 1] = a[i]

\* a goes from i to the next lower rank in F, or to 0.
Down(v, i, F, r) ==
  \/ v = 0 /\ \A k \in F : r[k] >= r[i]
  \/ v \in F /\ r[v] < r[i] /\ \A k \in F : r[k] >= r[i] \/ r[k] <= r[v]

\* And to the next higher.
Up(v, i, F, r) ==
  \/ v = 0 /\ \A k \in F : r[k] <= r[i]
  \/ v \in F /\ r[v] > r[i] /\ \A k \in F : r[k] <= r[i] \/ r[k] >= r[v]

\* The highest of F, or 0.
Top(v, F, r) == \/ v = 0 /\ F = {}
                \/ v \in F /\ \A k \in F : r[k] <= r[v]

\* The list of available blocks holds F in the order of falling ranks r.
Linked(a, av, B, F, r) ==
  /\ F \subseteq B /\ 0 \notin F /\ Ints - 2 \notin F
  /\ \A i \in F : r[i] \in Int
  /\ \A i, j \in F : r[i] = r[j] => i = j
  /\ Top(av, F, r)
  /\ \A i \in F : Down(a[i + 1], i, F, r) /\ Up(a[i + 2], i, F, r)

\* The ints that the links of F are in.
Links(F) == {m + 1 : m \in F} \cup {m + 2 : m \in F}

\* Two arrays agree but for the links of F and the ints from s to e.
SameBut(a, b, F, s, e) ==
  \A j \in Memory!Index : j \notin Links(F) /\ ~(s <= j /\ j < e) => b[j] = a[j]

\* A heap.
Array(a) == a \in [Memory!Index -> Int]

\* Where blocks are.
LEMMA CutFacts ==
  ASSUME NEW B, NEW R, Cut(B, R), NEW i \in B
  PROVE  /\ i \in Int /\ 0 <= i /\ i <= Ints - 2 /\ R[i] \in Int /\ R[i] >= i + 2 /\ R[i] <= Ints
         /\ i \in Memory!Index /\ R[i] - 1 \in Memory!Index
         /\ i # 0 => i >= 2
         /\ i # Ints - 2 => R[i] \in B /\ R[i] <= Ints - 2
         /\ i # 0 /\ i # Ints - 2 => R[i] >= i + 4 /\ i + 4 <= Ints - 2
<1>1. Ints \in Nat /\ Ints >= 8 /\ Memory!Index = 0..(Ints - 1)
  BY MemoryFacts
<1>2. /\ B \subseteq 0..(Ints - 1) /\ 0 \in B /\ Ints - 2 \in B /\ R[0] = 2 /\ R[Ints - 2] = Ints
      /\ \A k \in B : /\ R[k] \in Int /\ R[k] \in B \cup {Ints}
                      /\ k # 0 /\ k # Ints - 2 => R[k] >= k + 4
      /\ \A k, j \in B : k < j => R[k] <= j
  BY <1>1 DEF Cut
<1>3. i \in Int /\ 0 <= i /\ i <= Ints - 1 /\ R[i] \in Int
  BY <1>1, <1>2
<1>4. i # 0 => i >= 2
  <2>1. 0 < i => R[0] <= i
    BY <1>2
  <2> QED
    BY <1>2, <1>3, <2>1
<1>5. i <= Ints - 2
  <2>1. i > Ints - 2 => R[Ints - 2] <= i
    BY <1>1, <1>2, <1>3
  <2> QED
    BY <1>1, <1>2, <1>3, <2>1
<1>6. i # Ints - 2 => R[i] <= Ints - 2
  BY <1>1, <1>2, <1>3, <1>5
<1>7. i # Ints - 2 => R[i] \in B
  BY <1>1, <1>2, <1>3, <1>6
<1>8. i # 0 /\ i # Ints - 2 => R[i] >= i + 4
  BY <1>2
<1>9. R[i] >= i + 2 /\ R[i] <= Ints
  BY <1>1, <1>2, <1>3, <1>5, <1>6, <1>8
<1>10. i \in 0..(Ints - 1) /\ R[i] - 1 \in 0..(Ints - 1)
  BY <1>1, <1>3, <1>9
<1> QED
  BY <1>1, <1>3, <1>4, <1>5, <1>6, <1>7, <1>8, <1>9, <1>10

\* Two blocks have no int in common.
LEMMA Disjoint ==
  ASSUME NEW B, NEW R, Cut(B, R), NEW i \in B, NEW m \in B, NEW j \in Int,
         i <= j, j < R[i], m <= j, j < R[m]
  PROVE  i = m
<1>1. i \in Int /\ m \in Int /\ R[i] \in Int /\ R[m] \in Int
  BY CutFacts
<1>2. (i < m => R[i] <= m) /\ (m < i => R[m] <= i)
  BY DEF Cut
<1> QED
  BY <1>1, <1>2

\* The links of F are inside the blocks of F.
LEMMA LinksInside ==
  ASSUME NEW B, NEW R, Cut(B, R), NEW F, F \subseteq B, 0 \notin F, Ints - 2 \notin F
  PROVE  /\ \A m \in F : m + 2 < R[m] - 1
         /\ \A i \in B : i \notin Links(F) /\ R[i] - 1 \notin Links(F)
         /\ \A i \in B : i \notin F => \A j \in Int : i <= j /\ j < R[i] => j \notin Links(F)
<1>1. \A m \in F : m \in B /\ m \in Int /\ R[m] \in Int /\ m + 4 <= R[m]
  BY CutFacts
<1>2. ASSUME NEW i \in B, NEW j \in Int, i <= j, j < R[i], j \in Links(F)
      PROVE  i \in F /\ (j = i + 1 \/ j = i + 2)
  <2>1. PICK m \in F : j = m + 1 \/ j = m + 2
    BY <1>2 DEF Links
  <2>2. i = m
    BY <1>1, <1>2, <2>1, Disjoint
  <2> QED
    BY <2>1, <2>2
<1>3. ASSUME NEW i \in B PROVE i \notin Links(F) /\ R[i] - 1 \notin Links(F)
  <2>1. i \in Int /\ R[i] \in Int /\ R[i] >= i + 2
    BY CutFacts
  <2>2. i \notin Links(F)
    BY <1>2, <2>1
  <2>3. ASSUME R[i] - 1 \in Links(F) PROVE FALSE
    <3>1. R[i] - 1 \in Int /\ i <= R[i] - 1 /\ R[i] - 1 < R[i]
      BY <2>1
    <3>2. i \in F /\ (R[i] - 1 = i + 1 \/ R[i] - 1 = i + 2)
      BY <1>2, <2>3, <3>1
    <3> QED
      BY <1>1, <2>1, <3>2
  <2> QED
    BY <2>2, <2>3
<1> QED
  BY <1>1, <1>2, <1>3

\* A list without one of its members: its neighbours are now each other's.
LEMMA Unlinks ==
  ASSUME NEW F, NEW r, \A k \in F : r[k] \in Int, \A j, k \in F : r[j] = r[k] => j = k,
         0 \notin F, NEW i \in F, NEW p, NEW q, Down(q, i, F, r), Up(p, i, F, r)
  PROVE  /\ p # 0 => p \in F /\ p # i /\ Down(q, p, F \ {i}, r)
         /\ q # 0 => q \in F /\ q # i /\ Up(p, q, F \ {i}, r)
         /\ p = 0 => Top(q, F \ {i}, r)
         /\ \A k \in F \ {i} : \A v : k # p /\ Down(v, k, F, r) => Down(v, k, F \ {i}, r)
         /\ \A k \in F \ {i} : \A v : k # q /\ Up(v, k, F, r) => Up(v, k, F \ {i}, r)
         /\ \A v : p # 0 /\ Top(v, F, r) => Top(v, F \ {i}, r)
<1>1. p # 0 => p \in F /\ r[p] > r[i] /\ p # i
  BY DEF Up
<1>2. q # 0 => q \in F /\ r[q] < r[i] /\ q # i
  BY DEF Down
<1>3. \A k \in F \ {i} : \/ r[k] > r[i] /\ p # 0 /\ r[k] >= r[p]
                         \/ r[k] < r[i] /\ q # 0 /\ r[k] <= r[q]
  <2>1. ASSUME NEW k \in F \ {i}, r[k] > r[i] PROVE p # 0 /\ r[k] >= r[p]
    BY <2>1 DEF Up
  <2>2. ASSUME NEW k \in F \ {i}, r[k] < r[i] PROVE q # 0 /\ r[k] <= r[q]
    BY <2>2 DEF Down
  <2>3. ASSUME NEW k \in F \ {i} PROVE r[k] > r[i] \/ r[k] < r[i]
    <3>1. r[k] \in Int /\ r[i] \in Int /\ r[k] # r[i]
      OBVIOUS
    <3> QED
      BY ONLY <3>1
  <2> QED
    BY ONLY <2>1, <2>2, <2>3
<1>4. p # 0 => Down(q, p, F \ {i}, r)
  BY <1>1, <1>2, <1>3 DEF Down
<1>5. q # 0 => Up(p, q, F \ {i}, r)
  BY <1>1, <1>2, <1>3 DEF Up
<1>6. p = 0 => Top(q, F \ {i}, r)
  <2>1. ASSUME p = 0, q = 0 PROVE F \ {i} = {}
    BY <1>3, <2>1
  <2> QED
    BY <1>2, <1>3, <2>1 DEF Top
<1>7. ASSUME NEW k \in F \ {i}, NEW v, k # p, Down(v, k, F, r) PROVE Down(v, k, F \ {i}, r)
  <2>1. v # i
    <3>1. SUFFICES ASSUME v = i PROVE FALSE
      OBVIOUS
    <3>2. r[i] < r[k] /\ \A j \in F : r[j] >= r[k] \/ r[j] <= r[i]
      BY <1>7, <3>1 DEF Down
    <3>3. p \in F /\ r[p] > r[i] /\ r[k] >= r[p]
      BY <1>1, <1>3, <3>2
    <3>4. r[p] = r[k]
      BY <3>2, <3>3
    <3> QED
      BY <1>7, <3>3, <3>4
  <2> QED
    BY <1>7, <2>1 DEF Down
<1>8. ASSUME NEW k \in F \ {i}, NEW v, k # q, Up(v, k, F, r) PROVE Up(v, k, F \ {i}, r)
  <2>1. v # i
    <3>1. SUFFICES ASSUME v = i PROVE FALSE
      OBVIOUS
    <3>2. r[i] > r[k] /\ \A j \in F : r[j] <= r[k] \/ r[j] >= r[i]
      BY <1>8, <3>1 DEF Up
    <3>3. q \in F /\ r[q] < r[i] /\ r[k] <= r[q]
      BY <1>2, <1>3, <3>2
    <3>4. r[q] = r[k]
      BY <3>2, <3>3
    <3> QED
      BY <1>8, <3>3, <3>4
  <2> QED
    BY <1>8, <2>1 DEF Up
<1>9. ASSUME NEW v, p # 0, Top(v, F, r) PROVE Top(v, F \ {i}, r)
  <2>1. v \in F /\ \A k \in F : r[k] <= r[v]
    BY <1>9 DEF Top
  <2>2. v # i
    BY <1>1, <1>9, <2>1
  <2> QED
    BY <2>1, <2>2 DEF Top
<1> QED
  BY <1>1, <1>2, <1>4, <1>5, <1>6, <1>7, <1>8, <1>9

\* A list with a new first member.
LEMMA Pushes ==
  ASSUME NEW F, NEW r, \A k \in F : r[k] \in Int, \A j, k \in F : r[j] = r[k] => j = k,
         0 \notin F, NEW s, s \notin F, s # 0, NEW av, Top(av, F, r)
  PROVE  \E t : /\ \A k \in F \cup {s} : t[k] \in Int
                /\ \A j, k \in F \cup {s} : t[j] = t[k] => j = k
                /\ Top(s, F \cup {s}, t) /\ Down(av, s, F \cup {s}, t) /\ Up(0, s, F \cup {s}, t)
                /\ av # 0 => Up(s, av, F \cup {s}, t)
                /\ \A k \in F : \A v : Down(v, k, F, r) => Down(v, k, F \cup {s}, t)
                /\ \A k \in F : \A v : k # av /\ Up(v, k, F, r) => Up(v, k, F \cup {s}, t)
<1>1. PICK x \in Int : \A k \in F : r[k] < x /\ (k # av => r[k] < r[av])
  <2>1. CASE F = {}
    BY <2>1
  <2>2. CASE F # {}
    <3>1. av \in F /\ \A k \in F : r[k] <= r[av]
      BY <2>2 DEF Top
    <3>2. r[av] + 1 \in Int /\ \A k \in F : r[k] < r[av] + 1 /\ (k # av => r[k] < r[av])
      BY <3>1
    <3> QED
      BY <3>2
  <2> QED
    BY <2>1, <2>2
<1>2. PICK t : t = [k \in F \cup {s} |-> IF k = s THEN x ELSE r[k]]
  OBVIOUS
<1>3. t[s] = x /\ \A k \in F : t[k] = r[k] /\ k # s
  BY <1>2
<1>4. \A k \in F \cup {s} : t[k] \in Int
  BY <1>3
<1>5. \A j, k \in F \cup {s} : t[j] = t[k] => j = k
  BY <1>1, <1>3
<1>6. Top(s, F \cup {s}, t) /\ Up(0, s, F \cup {s}, t)
  BY <1>1, <1>3 DEF Top, Up
<1>7. Down(av, s, F \cup {s}, t)
  BY <1>1, <1>3 DEF Top, Down
<1>8. av # 0 => Up(s, av, F \cup {s}, t)
  BY <1>1, <1>3 DEF Top, Up
<1>9. \A k \in F : \A v : Down(v, k, F, r) => Down(v, k, F \cup {s}, t)
  BY <1>1, <1>3 DEF Down
<1>10. ASSUME NEW k \in F, NEW v, k # av, Up(v, k, F, r) PROVE Up(v, k, F \cup {s}, t)
  <2>1. r[k] < r[av] /\ av \in F
    BY <1>1, <1>10 DEF Top
  <2>2. v # 0 /\ v \in F /\ r[v] > r[k] /\ \A j \in F : r[j] <= r[k] \/ r[j] >= r[v]
    BY <1>10, <2>1 DEF Up
  <2> QED
    BY <1>1, <1>3, <2>2 DEF Up
<1> QED
  BY <1>4, <1>5, <1>6, <1>7, <1>8, <1>9, <1>10

\* The two statics.
IsHeap(h) == h = [array |-> h.array, avail |-> h.avail] /\ Array(h.array)

\* Where the links of a list are, and where they lead.
LEMMA LinkFacts ==
  ASSUME NEW a, NEW av, NEW B, NEW R, NEW F, NEW r, Cut(B, R), Linked(a, av, B, F, r)
  PROVE  /\ F \subseteq B /\ 0 \notin F /\ Ints - 2 \notin F
         /\ \A i \in F : /\ i \in Int /\ i \in Memory!Index /\ i + 1 \in Memory!Index
                         /\ i + 2 \in Memory!Index /\ i >= 2 /\ i + 4 <= R[i]
                         /\ R[i] \in B /\ R[i] <= Ints - 2 /\ R[i] \in Int
         /\ \A i, j \in F : i + 1 # j + 2
         /\ av = 0 \/ av \in F
         /\ \A i \in F : (a[i + 1] = 0 \/ a[i + 1] \in F) /\ (a[i + 2] = 0 \/ a[i + 2] \in F)
<1>1. F \subseteq B /\ 0 \notin F /\ Ints - 2 \notin F
  BY DEF Linked
<1>2. ASSUME NEW i \in F
      PROVE  /\ i \in Int /\ i \in Memory!Index /\ i + 1 \in Memory!Index
             /\ i + 2 \in Memory!Index /\ i >= 2 /\ i + 4 <= R[i]
             /\ R[i] \in B /\ R[i] <= Ints - 2 /\ R[i] \in Int
  <2>1. /\ i \in Int /\ i >= 2 /\ i + 4 <= R[i] /\ R[i] <= Ints - 2 /\ i \in Memory!Index
        /\ R[i] \in B /\ R[i] \in Int
    BY <1>1, CutFacts
  <2>2. i + 1 \in Memory!Index /\ i + 2 \in Memory!Index
    BY <2>1, MemoryFacts
  <2> QED
    BY <2>1, <2>2
<1>3. ASSUME NEW i \in F, NEW j \in F, i + 1 = j + 2 PROVE FALSE
  <2>1. i \in Int /\ j \in Int /\ i + 4 <= R[i] /\ j + 4 <= R[j] /\ R[i] \in Int /\ R[j] \in Int
    BY <1>2
  <2>2. i = j
    BY <1>1, <1>3, <2>1, Disjoint
  <2> QED
    BY <1>3, <2>1, <2>2
<1>4. av = 0 \/ av \in F
  BY DEF Linked, Top
<1>5. \A i \in F : (a[i + 1] = 0 \/ a[i + 1] \in F) /\ (a[i + 2] = 0 \/ a[i + 2] \in F)
  BY DEF Linked, Down, Up
<1> QED
  BY <1>1, <1>2, <1>3, <1>4, <1>5

\* Tags do not change where only links do.
LEMMA TagsStay ==
  ASSUME NEW a, NEW b, NEW B, NEW R, NEW F, NEW G, Cut(B, R),
         F \subseteq B, 0 \notin F, Ints - 2 \notin F,
         Tagged(a, B, R, G), SameBut(a, b, F, 0, 0)
  PROVE  Tagged(b, B, R, G)
<1>1. ASSUME NEW i \in B PROVE b[i] = a[i] /\ b[R[i] - 1] = a[R[i] - 1]
  <2>1. i \in Memory!Index /\ R[i] - 1 \in Memory!Index
    BY CutFacts
  <2>2. i \notin Links(F) /\ R[i] - 1 \notin Links(F)
    BY LinksInside
  <2>3. \A j \in Memory!Index : ~(0 <= j /\ j < 0)
    BY MemoryFacts
  <2> QED
    BY <2>1, <2>2, <2>3 DEF SameBut
<1> QED
  BY <1>1 DEF Tagged

\* remove() takes a block off the list and touches nothing but links of other blocks.
LEMMA RemoveSound ==
  ASSUME NEW h, NEW B, NEW R, NEW F, NEW r, NEW i \in F, IsHeap(h), Cut(B, R),
         Linked(h.array, h.avail, B, F, r)
  PROVE  /\ IsHeap(Memory!Remove(h, i))
         /\ Linked(Memory!Remove(h, i).array, Memory!Remove(h, i).avail, B, F \ {i}, r)
         /\ SameBut(h.array, Memory!Remove(h, i).array, F \ {i}, 0, 0)
<1>1. PICK a, av, p, q : a = h.array /\ av = h.avail /\ p = a[i + 2] /\ q = a[i + 1]
  OBVIOUS
<1>2. PICK b, bv : /\ b = [a EXCEPT ![p + 1] = IF p = 0 THEN @ ELSE q,
                                    ![q + 2] = IF q = 0 THEN @ ELSE p]
                   /\ bv = IF p = 0 THEN q ELSE av
  OBVIOUS
<1>3. Memory!Remove(h, i) = [array |-> b, avail |-> bv]
  BY <1>1, <1>2 DEF Memory!Remove, Memory!PrevFree, Memory!NextFree
<1>4. /\ F \subseteq B /\ 0 \notin F /\ Ints - 2 \notin F
      /\ \A k \in F : /\ k \in Int /\ k \in Memory!Index /\ k + 1 \in Memory!Index
                      /\ k + 2 \in Memory!Index /\ k >= 2 /\ k + 4 <= R[k]
      /\ \A k, j \in F : k + 1 # j + 2
      /\ av = 0 \/ av \in F
      /\ p = 0 \/ p \in F
      /\ q = 0 \/ q \in F
  BY <1>1, LinkFacts
<1>5. /\ \A k \in F : r[k] \in Int
      /\ \A j, k \in F : r[j] = r[k] => j = k
      /\ Top(av, F, r)
      /\ \A k \in F : Down(a[k + 1], k, F, r) /\ Up(a[k + 2], k, F, r)
  BY <1>1 DEF Linked
<1>6. /\ p # 0 => p \in F /\ p # i /\ Down(q, p, F \ {i}, r)
      /\ q # 0 => q \in F /\ q # i /\ Up(p, q, F \ {i}, r)
      /\ p = 0 => Top(q, F \ {i}, r)
      /\ \A k \in F \ {i} : \A v : k # p /\ Down(v, k, F, r) => Down(v, k, F \ {i}, r)
      /\ \A k \in F \ {i} : \A v : k # q /\ Up(v, k, F, r) => Up(v, k, F \ {i}, r)
      /\ \A v : p # 0 /\ Top(v, F, r) => Top(v, F \ {i}, r)
  <2>1. Down(q, i, F, r) /\ Up(p, i, F, r)
    BY <1>1, <1>5
  <2> QED
    BY <1>4, <1>5, <2>1, Unlinks
<1>7. a \in [Memory!Index -> Int] /\ Memory!Index = 0..(Ints - 1) /\ Ints \in Nat /\ Ints >= 8
  BY <1>1, MemoryFacts DEF IsHeap, Array
<1>8. /\ p + 1 \in Memory!Index /\ q + 2 \in Memory!Index /\ p \in Int /\ q \in Int
  <2>1. 1 \in Memory!Index /\ 2 \in Memory!Index
    BY <1>7
  <2>2. p \in Int /\ p + 1 \in Memory!Index
    <3>1. CASE p = 0
      BY <2>1, <3>1
    <3>2. CASE p # 0
      BY <1>4, <3>2
    <3> QED
      BY <3>1, <3>2
  <2>3. q \in Int /\ q + 2 \in Memory!Index
    <3>1. CASE q = 0
      BY <2>1, <3>1
    <3>2. CASE q # 0
      BY <1>4, <3>2
    <3> QED
      BY <3>1, <3>2
  <2> QED
    BY <2>2, <2>3
<1>9. /\ b \in [Memory!Index -> Int]
      /\ \A j \in Memory!Index : b[j] = IF q # 0 /\ j = q + 2 THEN p
                                        ELSE IF p # 0 /\ j = p + 1 THEN q ELSE a[j]
  <2>1. p # 0 /\ q # 0 => p + 1 # q + 2
    BY <1>4
  <2>2. b \in [Memory!Index -> Int]
    BY <1>2, <1>7, <1>8
  <2>3. CASE p = 0 /\ q = 0
    BY <1>2, <1>7, <1>8, <2>3
  <2>4. CASE p = 0 /\ q # 0
    BY <1>2, <1>7, <1>8, <2>4
  <2>5. CASE p # 0 /\ q = 0
    BY <1>2, <1>7, <1>8, <2>5
  <2>6. CASE p # 0 /\ q # 0
    BY <1>2, <1>7, <1>8, <2>1, <2>6
  <2> QED
    BY <2>2, <2>3, <2>4, <2>5, <2>6
<1>10. IsHeap(Memory!Remove(h, i))
  BY <1>3, <1>9 DEF IsHeap, Array
<1>11. SameBut(a, b, F \ {i}, 0, 0)
  <2>1. (p # 0 => p + 1 \in Links(F \ {i})) /\ (q # 0 => q + 2 \in Links(F \ {i}))
    BY <1>6 DEF Links
  <2> QED
    BY <1>9, <2>1 DEF SameBut
<1>12. ASSUME NEW k \in F \ {i}
       PROVE  /\ Down(b[k + 1], k, F \ {i}, r)
              /\ Up(b[k + 2], k, F \ {i}, r)
  <2>1. /\ k \in F /\ k + 1 \in Memory!Index /\ k + 2 \in Memory!Index /\ k \in Int /\ p \in Int
        /\ q \in Int
    BY <1>4, <1>8
  <2>2. (q # 0 => k + 1 # q + 2) /\ (p # 0 => p + 1 # k + 2)
    BY <1>4, <2>1
  <2>3. k # 0
    BY <1>4, <2>1
  <2>4. b[k + 1] = IF k = p THEN q ELSE a[k + 1]
    BY <1>9, <2>1, <2>2, <2>3
  <2>5. b[k + 2] = IF k = q THEN p ELSE a[k + 2]
    BY <1>9, <2>1, <2>2, <2>3
  <2>6. Down(b[k + 1], k, F \ {i}, r)
    BY <1>5, <1>6, <2>1, <2>3, <2>4
  <2>7. Up(b[k + 2], k, F \ {i}, r)
    BY <1>5, <1>6, <2>1, <2>3, <2>5
  <2> QED
    BY <2>6, <2>7
<1>13. Top(bv, F \ {i}, r)
  BY <1>2, <1>5, <1>6
<1>14. Linked(b, bv, B, F \ {i}, r)
  BY <1>4, <1>5, <1>12, <1>13 DEF Linked
<1> QED
  BY <1>1, <1>3, <1>10, <1>11, <1>14

\* makeAvail() writes the tags of a block and pushes it on the list; it touches nothing but that
\* block and links of other available ones.
LEMMA PushSound ==
  ASSUME NEW h, NEW B, NEW R, NEW F, NEW r, IsHeap(h), Cut(B, R),
         Linked(h.array, h.avail, B, F, r), NEW s \in B, s # 0, s # Ints - 2, s \notin F,
         Tagged(h.array, B \ {s}, R, F)
  PROVE  \E t, g : /\ g = Memory!MakeAvail(h, s, R[s] - s) /\ IsHeap(g)
                   /\ Linked(g.array, g.avail, B, F \cup {s}, t)
                   /\ Tagged(g.array, B, R, F \cup {s})
                   /\ SameBut(h.array, g.array, F, s, R[s])
<1>1. PICK a, av, e : a = h.array /\ av = h.avail /\ e = R[s]
  OBVIOUS
<1>2. PICK d, b : /\ d = Memory!Dead(a, s, e - s)
                  /\ b = [d EXCEPT ![s] = e - s, ![s + (e - s) - 1] = e - s,
                                   ![s + 1] = av, ![s + 2] = 0,
                                   ![av + 2] = IF av = 0 THEN @ ELSE s]
  OBVIOUS
<1>3. Memory!MakeAvail(h, s, R[s] - s) = [array |-> b, avail |-> s]
  BY <1>1, <1>2 DEF Memory!MakeAvail
<1>4. /\ F \subseteq B /\ 0 \notin F /\ Ints - 2 \notin F
      /\ \A k \in F : /\ k \in Int /\ k \in Memory!Index /\ k + 1 \in Memory!Index
                      /\ k + 2 \in Memory!Index /\ k >= 2 /\ k + 4 <= R[k] /\ R[k] \in Int
      /\ \A k, j \in F : k + 1 # j + 2
      /\ av = 0 \/ av \in F
  BY <1>1, LinkFacts
<1>5. /\ s \in Int /\ s >= 2 /\ e \in Int /\ e >= s + 4 /\ e <= Ints - 2
  BY <1>1, CutFacts
<1>6. a \in [Memory!Index -> Int] /\ Memory!Index = 0..(Ints - 1) /\ Ints \in Nat /\ Ints >= 8
  BY <1>1, MemoryFacts DEF IsHeap, Array
<1>7. \A k \in F, j \in Int : k <= j /\ j < R[k] => ~(s <= j /\ j < e)
  BY <1>1, <1>4, Disjoint
<1>8. \A k \in F : ~(s <= k + 1 /\ k + 1 < e) /\ ~(s <= k + 2 /\ k + 2 < e)
  <2>1. ASSUME NEW k \in F PROVE ~(s <= k + 1 /\ k + 1 < e) /\ ~(s <= k + 2 /\ k + 2 < e)
    <3>1. k + 1 \in Int /\ k + 2 \in Int /\ k <= k + 1 /\ k + 1 < R[k] /\ k <= k + 2 /\ k + 2 < R[k]
      BY <1>4
    <3> QED
      BY <1>7, <3>1
  <2> QED
    BY <2>1
<1>9. /\ b \in [Memory!Index -> Int]
      /\ \A j \in Memory!Index :
           b[j] = IF av # 0 /\ j = av + 2 THEN s
                  ELSE IF j = s + 1 THEN av
                  ELSE IF j = s \/ j = e - 1 THEN e - s
                  ELSE IF s <= j /\ j < e THEN 0 ELSE a[j]
  <2>1. /\ d \in [Memory!Index -> Int]
        /\ \A j \in Memory!Index : d[j] = IF s <= j /\ j < e THEN 0 ELSE a[j]
    <3>1. s + (e - s) - 1 = e - 1 /\ \A j \in Memory!Index : j \in s..(e - 1) <=> s <= j /\ j < e
      BY <1>5, <1>6
    <3> QED
      BY <1>2, <1>6, <3>1 DEF Memory!Dead
  <2>2. /\ s \in Memory!Index /\ s + 1 \in Memory!Index /\ s + 2 \in Memory!Index
        /\ e - 1 \in Memory!Index /\ s + (e - s) - 1 = e - 1 /\ e - s \in Int
    BY <1>5, <1>6
  <2>3. av \in Int
    BY <1>4
  <2>4. PICK c : c = [d EXCEPT ![s] = e - s, ![e - 1] = e - s, ![s + 1] = av, ![s + 2] = 0]
    OBVIOUS
  <2>5. /\ c \in [Memory!Index -> Int]
        /\ \A j \in Memory!Index : c[j] = IF j = s + 1 THEN av
                                          ELSE IF j = s \/ j = e - 1 THEN e - s
                                          ELSE IF s <= j /\ j < e THEN 0 ELSE a[j]
    BY <1>5, <2>1, <2>2, <2>3, <2>4
  <2>6. b = [c EXCEPT ![av + 2] = IF av = 0 THEN @ ELSE s]
    BY <1>2, <2>2, <2>4
  <2>7. CASE av = 0
    BY <1>6, <2>3, <2>5, <2>6, <2>7
  <2>8. CASE av # 0
    <3>1. av + 2 \in Memory!Index /\ s \in Int
      BY <1>4, <1>5, <2>8
    <3>2. b = [c EXCEPT ![av + 2] = s]
      BY <2>6, <2>8
    <3> QED
      BY <2>5, <2>8, <3>1, <3>2
  <2> QED
    BY <2>7, <2>8
<1>10. SameBut(a, b, F, s, e)
  <2>1. av # 0 => av + 2 \in Links(F)
    BY <1>4 DEF Links
  <2>2. \A j \in Memory!Index : ~(s <= j /\ j < e) => j # s /\ j # s + 1 /\ j # e - 1
    BY <1>5, <1>6
  <2> QED
    BY <1>9, <2>1, <2>2 DEF SameBut
<1>11. Tagged(b, B, R, F \cup {s})
  <2>1. ASSUME NEW i \in B, i # s
        PROVE  b[i] = (IF i \in F \cup {s} THEN R[i] - i ELSE i - R[i]) /\ b[R[i] - 1] = b[i]
    <3>1. /\ i \in Int /\ R[i] \in Int /\ R[i] >= i + 2
          /\ i \in Memory!Index /\ R[i] - 1 \in Memory!Index
      BY CutFacts
    <3>2. i \notin Links(F) /\ R[i] - 1 \notin Links(F)
      BY <1>4, LinksInside
    <3>3. ~(s <= i /\ i < e)
      BY <1>1, <2>1, <3>1, Disjoint
    <3>4. ~(s <= R[i] - 1 /\ R[i] - 1 < e)
      <4>1. R[i] - 1 \in Int /\ i <= R[i] - 1 /\ R[i] - 1 < R[i]
        BY <3>1
      <4> QED
        BY <1>1, <2>1, <4>1, Disjoint
    <3>5. b[i] = a[i] /\ b[R[i] - 1] = a[R[i] - 1]
      BY <1>10, <3>1, <3>2, <3>3, <3>4 DEF SameBut
    <3>6. a[i] = (IF i \in F THEN R[i] - i ELSE i - R[i]) /\ a[R[i] - 1] = a[i]
      BY <1>1, <2>1 DEF Tagged
    <3> QED
      BY <2>1, <3>5, <3>6
  <2>2. b[s] = e - s /\ b[e - 1] = e - s
    <3>1. s \in Memory!Index /\ e - 1 \in Memory!Index /\ s # s + 1 /\ e - 1 # s + 1
      BY <1>5, <1>6
    <3>2. av # 0 => s # av + 2 /\ e - 1 # av + 2
      <4>1. s <= s /\ s < e /\ s <= e - 1 /\ e - 1 < e
        BY <1>5
      <4> QED
        BY <1>4, <1>8, <4>1
    <3> QED
      BY <1>9, <3>1, <3>2
  <2> QED
    BY <1>1, <2>1, <2>2 DEF Tagged
<1>12. /\ \A k \in F : r[k] \in Int
       /\ \A j, k \in F : r[j] = r[k] => j = k
       /\ Top(av, F, r)
       /\ \A k \in F : Down(a[k + 1], k, F, r) /\ Up(a[k + 2], k, F, r)
  BY <1>1 DEF Linked
<1>13. PICK t : /\ \A k \in F \cup {s} : t[k] \in Int
                /\ \A j, k \in F \cup {s} : t[j] = t[k] => j = k
                /\ Top(s, F \cup {s}, t) /\ Down(av, s, F \cup {s}, t) /\ Up(0, s, F \cup {s}, t)
                /\ av # 0 => Up(s, av, F \cup {s}, t)
                /\ \A k \in F : \A v : Down(v, k, F, r) => Down(v, k, F \cup {s}, t)
                /\ \A k \in F : \A v : k # av /\ Up(v, k, F, r) => Up(v, k, F \cup {s}, t)
  BY <1>4, <1>12, Pushes
<1>14. ASSUME NEW k \in F
       PROVE  Down(b[k + 1], k, F \cup {s}, t) /\ Up(b[k + 2], k, F \cup {s}, t)
  <2>1. /\ k + 1 \in Memory!Index /\ k + 2 \in Memory!Index /\ k \in Int
        /\ ~(s <= k + 1 /\ k + 1 < e) /\ ~(s <= k + 2 /\ k + 2 < e)
        /\ av # 0 => k + 1 # av + 2
    BY <1>4, <1>8
  <2>2. /\ k + 1 # s + 1 /\ k + 1 # s /\ k + 1 # e - 1
        /\ k + 2 # s + 1 /\ k + 2 # s /\ k + 2 # e - 1
    BY <1>5, <2>1
  <2>3. b[k + 1] = a[k + 1]
    BY <1>9, <2>1, <2>2
  <2>4. b[k + 2] = IF k = av THEN s ELSE a[k + 2]
    <3>1. k # 0
      BY <1>4
    <3>2. av \in Int
      BY <1>4
    <3>3. (k + 2 = av + 2 /\ av # 0) <=> k = av
      BY <2>1, <3>1, <3>2
    <3> QED
      BY <1>9, <2>1, <2>2, <3>3
  <2>5. Down(b[k + 1], k, F \cup {s}, t)
    BY <1>12, <1>13, <2>3
  <2>6. Up(b[k + 2], k, F \cup {s}, t)
    BY <1>4, <1>12, <1>13, <2>4
  <2> QED
    BY <2>5, <2>6
<1>15. Down(b[s + 1], s, F \cup {s}, t) /\ Up(b[s + 2], s, F \cup {s}, t)
  <2>1. /\ s + 1 \in Memory!Index /\ s + 2 \in Memory!Index
        /\ s + 2 # e - 1 /\ s + 2 # s /\ s + 2 # s + 1
    BY <1>5, <1>6
  <2>2. av # 0 => s + 1 # av + 2 /\ s + 2 # av + 2
    <3>1. s <= s + 1 /\ s + 1 < e /\ s <= s + 2 /\ s + 2 < e
      BY <1>5
    <3> QED
      BY <1>4, <1>8, <3>1
  <2>3. b[s + 1] = av
    BY <1>9, <2>1, <2>2
  <2>4. b[s + 2] = 0
    <3>1. s <= s + 2 /\ s + 2 < e
      BY <1>5
    <3> QED
      BY <1>9, <2>1, <2>2, <3>1
  <2> QED
    BY <1>13, <2>3, <2>4
<1>16. Linked(b, s, B, F \cup {s}, t)
  BY <1>4, <1>13, <1>14, <1>15 DEF Linked
<1>17. PICK g : g = [array |-> b, avail |-> s]
  OBVIOUS
<1>18. IsHeap(g) /\ g.array = b /\ g.avail = s
  BY <1>9, <1>17 DEF IsHeap, Array
<1> QED
  BY <1>1, <1>3, <1>10, <1>11, <1>16, <1>17, <1>18

\* No two available blocks are neighbours.
Spaced(R, F) == \A i \in F : R[i] \notin F

\* The heap h consists of the blocks B, of which those in F are available.
Good(h, B, R, F, r) ==
  /\ IsHeap(h) /\ Cut(B, R) /\ Tagged(h.array, B, R, F)
  /\ Linked(h.array, h.avail, B, F, r) /\ Spaced(R, F)

\* The clients have the blocks of T, and block i of them reaches to T[i].
Owns(B, R, F, T) ==
  /\ \A i : i \in DOMAIN T <=> i \in B /\ i \notin F /\ i # 0 /\ i # Ints - 2
  /\ \A i \in DOMAIN T : T[i] = R[i]

\* The heap is consistent, and the clients have the blocks of T.
State(h, T) == \E B, R, F, r : Good(h, B, R, F, r) /\ Owns(B, R, F, T)

\* The blocks of T are the same in two arrays.
Spared(a, b, T) == \A i \in DOMAIN T, j \in Memory!Index : i <= j /\ j < T[i] => b[j] = a[j]

\* What the code reads off the tags of a block.
LEMMA TagFacts ==
  ASSUME NEW h, NEW B, NEW R, NEW F, Cut(B, R), Tagged(h.array, B, R, F), NEW i \in B
  PROVE  /\ Memory!Size(h, i) = R[i] - i /\ Memory!Right(h, i) = R[i]
         /\ Memory!IsAvail(h, i) <=> i \in F
         /\ Memory!IsTaken(h, i) <=> i \notin F
<1>1. i \in Int /\ R[i] \in Int /\ R[i] >= i + 2
  BY CutFacts
<1>2. h.array[i] = IF i \in F THEN R[i] - i ELSE i - R[i]
  BY DEF Tagged
<1> QED
  BY <1>1, <1>2 DEF Memory!Size, Memory!Right, Memory!IsAvail, Memory!IsTaken

\* left() finds the block before a block.
LEMMA LeftIs ==
  ASSUME NEW h, NEW B, NEW R, NEW F, Cut(B, R), Tagged(h.array, B, R, F), NEW i \in B, i # 0
  PROVE  Memory!Left(h, i) \in B /\ R[Memory!Left(h, i)] = i /\ Memory!Left(h, i) < i
<1>1. PICK S : S = {m \in B : m < i}
  OBVIOUS
<1>2. i \in Nat /\ 0 \in B /\ i <= Ints - 2 /\ Ints \in Nat
  BY CutFacts, MemoryFacts DEF Cut
<1>3. S \subseteq 0..i /\ 0 \in S
  <2>1. \A m \in S : m \in B /\ m \in Int /\ 0 <= m /\ m <= i
    BY <1>1, <1>2, CutFacts
  <2>2. S \subseteq 0..i
    BY <1>2, <2>1
  <2>3. 0 < i
    BY <1>2
  <2> QED
    BY <1>1, <1>2, <2>2, <2>3
<1>4. PICK m \in S : \A k \in S : k <= m
  BY <1>2, <1>3, Greatest
<1>5. m \in B /\ m < i /\ m \in Int /\ R[m] \in Int /\ R[m] >= m + 2
  BY <1>1, CutFacts
<1>6. m # Ints - 2
  BY <1>2, <1>5
<1>7. R[m] \in B
  BY <1>5, <1>6, CutFacts
<1>8. R[m] <= i
  BY <1>5 DEF Cut
<1>9. R[m] = i
  <2>1. R[m] < i => R[m] \in S
    BY <1>1, <1>7
  <2> QED
    BY <1>2, <1>4, <1>5, <1>8, <2>1
<1>10. h.array[i - 1] = h.array[m] /\ h.array[m] = IF m \in F THEN R[m] - m ELSE m - R[m]
  BY <1>5, <1>9 DEF Tagged
<1>11. Memory!Left(h, i) = m
  BY <1>2, <1>5, <1>9, <1>10 DEF Memory!Left, Memory!Size
<1> QED
  BY <1>5, <1>9, <1>11

\* The same but for something, twice.
LEMMA SameTwice ==
  ASSUME NEW a, NEW b, NEW c, NEW F, NEW G, NEW s, NEW e,
         SameBut(a, b, F, 0, 0), SameBut(b, c, G, s, e), G \subseteq F
  PROVE  SameBut(a, c, F, s, e)
<1>1. \A j \in Memory!Index : ~(0 <= j /\ j < 0)
  BY MemoryFacts
<1>2. Links(G) \subseteq Links(F)
  BY DEF Links
<1> QED
  BY <1>1, <1>2 DEF SameBut

\* The blocks of the clients are spared by what happens in other blocks.
LEMMA SparedBut ==
  ASSUME NEW a, NEW b, NEW B, NEW R, NEW F, NEW T, NEW U, NEW s, NEW e, Cut(B, R), F \subseteq B,
         0 \notin F, Ints - 2 \notin F, Owns(B, R, F, T), SameBut(a, b, F, s, e),
         \A k \in DOMAIN U : k \in DOMAIN T /\ U[k] = T[k] /\ (R[k] <= s \/ k >= e),
         s \in Int, e \in Int
  PROVE  Spared(a, b, U)
<1>1. ASSUME NEW i \in DOMAIN U, NEW j \in Memory!Index, i <= j, j < U[i]
      PROVE  b[j] = a[j]
  <2>1. i \in B /\ i \notin F /\ U[i] = R[i]
    BY <1>1 DEF Owns
  <2>2. j \in Int /\ i \in Int /\ R[i] \in Int
    BY <2>1, MemoryFacts, CutFacts
  <2>3. j \notin Links(F)
    BY <1>1, <2>1, <2>2, LinksInside
  <2>4. ~(s <= j /\ j < e)
    BY <1>1, <2>1, <2>2
  <2> QED
    BY <2>3, <2>4 DEF SameBut
<1> QED
  BY <1>1 DEF Spared

\* The blocks from s up to e become one.
LEMMA Merges ==
  ASSUME NEW B, NEW R, Cut(B, R), NEW s \in B, NEW e \in B, s # 0, s < e
  PROVE  \E C, P : /\ C = {b \in B : b <= s \/ b >= e}
                   /\ P = [b \in C |-> IF b = s THEN e ELSE R[b]]
                   /\ Cut(C, P) /\ s \in C /\ e \in C /\ P[s] = e /\ s # Ints - 2
<1>1. PICK C, P : /\ C = {b \in B : b <= s \/ b >= e}
                  /\ P = [b \in C |-> IF b = s THEN e ELSE R[b]]
  OBVIOUS
<1>2. /\ Ints \in Nat /\ Ints >= 8 /\ 0 \in B /\ Ints - 2 \in B /\ R[0] = 2 /\ R[Ints - 2] = Ints
      /\ B \subseteq Memory!Index
  BY MemoryFacts DEF Cut
<1>3. s \in Int /\ s >= 2 /\ e \in Int /\ e <= Ints - 2
  BY CutFacts
<1>4. s # Ints - 2 /\ R[s] >= s + 4 /\ R[s] \in Int
  BY <1>3, CutFacts
<1>5. R[s] <= e
  BY DEF Cut
<1>6. s \in C /\ e \in C /\ P[s] = e /\ \A b \in C : b # s => P[b] = R[b]
  BY <1>1, <1>3
<1>7. 0 \in C /\ Ints - 2 \in C /\ P[0] = 2 /\ P[Ints - 2] = Ints
  <2>1. 0 <= s /\ Ints - 2 >= e
    BY <1>2, <1>3
  <2> QED
    BY <1>1, <1>2, <1>4, <1>6, <2>1
<1>8. ASSUME NEW b \in C
      PROVE  /\ P[b] \in Int /\ P[b] \in C \cup {Ints}
             /\ b # 0 /\ b # Ints - 2 => P[b] >= b + 4
  <2>1. CASE b = s
    BY <1>3, <1>4, <1>5, <1>6, <2>1
  <2>2. CASE b # s
    <3>1. b \in B /\ b \in Int /\ P[b] = R[b] /\ R[b] \in Int /\ R[b] \in B \cup {Ints}
      BY <1>1, <1>6, <2>2, CutFacts DEF Cut
    <3>2. b # 0 /\ b # Ints - 2 => R[b] >= b + 4
      BY <3>1, CutFacts
    <3>3. b < s => R[b] <= s
      BY <3>1 DEF Cut
    <3>4. b >= e => R[b] >= e
      BY <1>3, <3>1, CutFacts
    <3>5. b < s \/ b >= e
      BY <1>1, <1>3, <2>2, <3>1
    <3> QED
      BY <1>1, <3>1, <3>2, <3>3, <3>4, <3>5
  <2> QED
    BY <2>1, <2>2
<1>9. ASSUME NEW b \in C, NEW c \in C, b < c PROVE P[b] <= c
  <2>1. b \in B /\ c \in B /\ b \in Int /\ c \in Int
    BY <1>1, CutFacts
  <2>2. CASE b = s
    BY <1>1, <1>3, <1>6, <1>9, <2>1, <2>2
  <2>3. CASE b # s
    BY <1>6, <1>9, <2>1, <2>3 DEF Cut
  <2> QED
    BY <2>2, <2>3
<1>10. C \subseteq Memory!Index
  BY <1>1, <1>2
<1>11. Cut(C, P)
  BY <1>7, <1>8, <1>9, <1>10 DEF Cut
<1> QED
  BY <1>1, <1>4, <1>6, <1>11

\* A block is cut in two.
LEMMA Splits ==
  ASSUME NEW B, NEW R, Cut(B, R), NEW i \in B, i # 0, i # Ints - 2, NEW c \in Int,
         i + 4 <= c, c + 4 <= R[i]
  PROVE  \E C, P : /\ C = B \cup {c} /\ c \notin B
                   /\ P = [b \in C |-> IF b = i THEN c ELSE IF b = c THEN R[i] ELSE R[b]]
                   /\ Cut(C, P) /\ P[i] = c /\ P[c] = R[i] /\ c # 0 /\ c # Ints - 2
                   /\ \A b \in B : b # i => P[b] = R[b] /\ P[b] # c
<1>1. PICK C, P : /\ C = B \cup {c}
                  /\ P = [b \in C |-> IF b = i THEN c ELSE IF b = c THEN R[i] ELSE R[b]]
  OBVIOUS
<1>2. /\ Ints \in Nat /\ Ints >= 8 /\ 0 \in B /\ Ints - 2 \in B /\ R[0] = 2 /\ R[Ints - 2] = Ints
      /\ B \subseteq Memory!Index /\ Memory!Index = 0..(Ints - 1)
  BY MemoryFacts DEF Cut
<1>3. i \in Int /\ i >= 2 /\ R[i] \in Int /\ R[i] <= Ints - 2 /\ R[i] \in B
  BY CutFacts
<1>4. c \notin B
  <2>1. c \in B => (i < c => R[i] <= c)
    BY DEF Cut
  <2> QED
    BY <1>3, <2>1
<1>5. c # 0 /\ c # Ints - 2 /\ c # i /\ c \in Memory!Index
  BY <1>2, <1>3
<1>6. P[i] = c /\ P[c] = R[i] /\ \A b \in B : b # i => P[b] = R[b]
  BY <1>1, <1>4, <1>5
<1>7. \A b \in B : b # i => P[b] # c
  <2>1. ASSUME NEW b \in B, b # i PROVE P[b] # c
    <3>1. R[b] \in B \cup {Ints}
      BY DEF Cut
    <3>2. c # Ints
      BY <1>2, <1>3
    <3> QED
      BY <1>4, <1>6, <2>1, <3>1, <3>2
  <2> QED
    BY <2>1
<1>8. ASSUME NEW b \in C
      PROVE  /\ P[b] \in Int /\ P[b] \in C \cup {Ints}
             /\ b # 0 /\ b # Ints - 2 => P[b] >= b + 4
  <2>1. CASE b = i
    BY <1>1, <1>3, <1>6, <2>1
  <2>2. CASE b = c
    BY <1>1, <1>3, <1>6, <2>2
  <2>3. CASE b # i /\ b # c
    <3>1. b \in B /\ P[b] = R[b]
      BY <1>1, <1>6, <2>3
    <3> QED
      BY <1>1, <3>1 DEF Cut
  <2> QED
    BY <2>1, <2>2, <2>3
<1>9. ASSUME NEW b \in C, NEW d \in C, b < d PROVE P[b] <= d
  <2>1. \A k \in B : k \in Int /\ R[k] \in Int /\ R[k] >= k + 2
    BY CutFacts
  <2>2. \A k, m \in B : k < m => R[k] <= m
    BY DEF Cut
  <2>3. CASE b = i
    <3>1. CASE d = c
      BY <1>6, <2>3, <3>1
    <3>2. CASE d # c
      BY <1>1, <1>3, <1>6, <1>9, <2>1, <2>2, <2>3, <3>2
    <3> QED
      BY <3>1, <3>2
  <2>4. CASE b = c
    <3>1. d \in B /\ d \in Int /\ i < d
      BY <1>1, <1>3, <1>9, <2>1, <2>4
    <3> QED
      BY <1>6, <2>2, <2>4, <3>1
  <2>5. CASE b # i /\ b # c
    <3>1. b \in B /\ P[b] = R[b] /\ b \in Int /\ R[b] \in Int
      BY <1>1, <1>6, <2>1, <2>5
    <3>2. CASE d = c
      <4>1. b < i => R[b] <= i
        BY <2>2, <3>1
      <4>2. i < b => R[i] <= b
        BY <2>2, <3>1
      <4> QED
        BY <1>3, <1>9, <2>5, <3>1, <3>2, <4>1, <4>2
    <3>3. CASE d # c
      BY <1>1, <1>9, <2>2, <3>1, <3>3
    <3> QED
      BY <3>2, <3>3
  <2> QED
    BY <2>3, <2>4, <2>5
<1>10. C \subseteq Memory!Index /\ 0 \in C /\ Ints - 2 \in C /\ P[0] = 2 /\ P[Ints - 2] = Ints
  BY <1>1, <1>2, <1>5, <1>6
<1>11. Cut(C, P)
  BY <1>8, <1>9, <1>10 DEF Cut
<1> QED
  BY <1>1, <1>4, <1>5, <1>6, <1>7, <1>11

\* free() takes a neighbour off the list if it is available.
LEMMA RemoveIfAvail ==
  ASSUME NEW h, NEW B, NEW R, NEW G, NEW F, NEW r, NEW i \in B, IsHeap(h), Cut(B, R),
         Tagged(h.array, B, R, G), Linked(h.array, h.avail, B, F, r), i \in G <=> i \in F
  PROVE  \E g : /\ g = IF Memory!IsAvail(h, i) THEN Memory!Remove(h, i) ELSE h
                /\ IsHeap(g) /\ Linked(g.array, g.avail, B, F \ {i}, r)
                /\ Tagged(g.array, B, R, G) /\ SameBut(h.array, g.array, F \ {i}, 0, 0)
<1>1. Memory!IsAvail(h, i) <=> i \in F
  BY TagFacts
<1>2. F \subseteq B /\ 0 \notin F /\ Ints - 2 \notin F
  BY DEF Linked
<1>3. CASE i \in F
  <2>1. PICK g : g = Memory!Remove(h, i)
    OBVIOUS
  <2>2. /\ IsHeap(g) /\ Linked(g.array, g.avail, B, F \ {i}, r)
        /\ SameBut(h.array, g.array, F \ {i}, 0, 0)
    BY <1>3, <2>1, RemoveSound
  <2>3. F \ {i} \subseteq B /\ 0 \notin F \ {i} /\ Ints - 2 \notin F \ {i}
    BY <1>2
  <2>4. Tagged(g.array, B, R, G)
    BY <2>2, <2>3, TagsStay
  <2> QED
    BY <1>1, <1>3, <2>1, <2>2, <2>4
<1>4. CASE i \notin F
  <2>1. F \ {i} = F
    BY <1>4
  <2>2. SameBut(h.array, h.array, F, 0, 0)
    BY DEF SameBut
  <2> QED
    BY <1>1, <1>4, <2>1, <2>2
<1> QED
  BY <1>3, <1>4

\* What there is before the blocks from s up to e become one: F is left in the list, G are
\* the blocks whose tags say available.
Mergeable(h, B, R, G, F, r, s, e) ==
  /\ IsHeap(h) /\ Cut(B, R) /\ Tagged(h.array, B, R, G) /\ Linked(h.array, h.avail, B, F, r)
  /\ \A i \in B : i \in F <=> i \in G /\ (i < s \/ i >= e)
  /\ e \notin F /\ \A i \in F : R[i] \notin F /\ R[i] # s

\* And after that.
Merged(h, g, B, R, F, s, e) ==
  \E C, P, t :
    /\ Good(g, C, P, F \cup {s}, t)
    /\ C = {b \in B : b <= s \/ b >= e} /\ \A b \in C : b # s => P[b] = R[b]
    /\ SameBut(h.array, g.array, F, s, e)

\* The blocks from s up to e become one available block.
LEMMA MergePush ==
  ASSUME NEW h, NEW B, NEW R, NEW G, NEW F, NEW r, NEW s \in B, NEW e \in B, s # 0, s < e,
         Mergeable(h, B, R, G, F, r, s, e)
  PROVE  Merged(h, Memory!MakeAvail(h, s, e - s), B, R, F, s, e)
<1>0. /\ IsHeap(h) /\ Cut(B, R) /\ Tagged(h.array, B, R, G)
      /\ Linked(h.array, h.avail, B, F, r)
      /\ \A i \in B : i \in F <=> i \in G /\ (i < s \/ i >= e)
      /\ e \notin F /\ \A i \in F : R[i] \notin F /\ R[i] # s
  BY DEF Mergeable
<1>1. PICK C, P : /\ C = {b \in B : b <= s \/ b >= e}
                  /\ P = [b \in C |-> IF b = s THEN e ELSE R[b]]
                  /\ Cut(C, P) /\ s \in C /\ e \in C /\ P[s] = e /\ s # Ints - 2
  BY <1>0, Merges
<1>2. s \in Int /\ e \in Int /\ \A b \in B : b \in Int
  BY <1>0, CutFacts
<1>3. \A b \in C : b # s => P[b] = R[b]
  BY <1>1
<1>4. F \subseteq C /\ s \notin F
  <2>1. F \subseteq B
    BY <1>0 DEF Linked
  <2> QED
    BY <1>0, <1>1, <1>2, <2>1
<1>5. Linked(h.array, h.avail, C, F, r)
  BY <1>0, <1>4 DEF Linked
<1>6. Tagged(h.array, C \ {s}, P, F)
  <2>1. ASSUME NEW b \in C \ {s} PROVE b \in B /\ (b \in F <=> b \in G) /\ P[b] = R[b]
    <3>1. b \in B /\ b \in Int /\ (b <= s \/ b >= e) /\ b # s
      BY <1>1, <1>2
    <3>2. b < s \/ b >= e
      BY <1>2, <3>1
    <3> QED
      BY <1>0, <1>3, <3>1, <3>2
  <2> QED
    BY <1>0, <2>1 DEF Tagged
<1>7. PICK t, g : /\ g = Memory!MakeAvail(h, s, P[s] - s) /\ IsHeap(g)
                  /\ Linked(g.array, g.avail, C, F \cup {s}, t)
                  /\ Tagged(g.array, C, P, F \cup {s})
                  /\ SameBut(h.array, g.array, F, s, P[s])
  BY <1>0, <1>1, <1>4, <1>5, <1>6, PushSound
<1>8. Spaced(P, F \cup {s})
  BY <1>0, <1>1, <1>2, <1>3, <1>4 DEF Spaced
<1>9. Good(g, C, P, F \cup {s}, t)
  BY <1>1, <1>7, <1>8 DEF Good
<1>10. g = Memory!MakeAvail(h, s, e - s) /\ SameBut(h.array, g.array, F, s, e)
  BY <1>1, <1>7
<1> QED
  BY <1>1, <1>3, <1>9, <1>10 DEF Merged

\* free() gives one block back and spares the others.
LEMMA ReleaseSound ==
  ASSUME NEW h, NEW T, State(h, T), NEW x \in DOMAIN T, NEW U,
         U = [k \in DOMAIN T \ {x} |-> T[k]]
  PROVE  /\ State(Memory!Release(h, x), U)
         /\ Spared(h.array, Memory!Release(h, x).array, U)
<1>1. PICK B, R, F, r : Good(h, B, R, F, r) /\ Owns(B, R, F, T)
  BY DEF State
<1>2. /\ IsHeap(h) /\ Cut(B, R) /\ Tagged(h.array, B, R, F)
      /\ Linked(h.array, h.avail, B, F, r) /\ Spaced(R, F)
  BY <1>1 DEF Good
<1>3. x \in B /\ x \notin F /\ x # 0 /\ x # Ints - 2
  BY <1>1 DEF Owns
<1>4. F \subseteq B /\ 0 \notin F /\ Ints - 2 \notin F
  BY <1>2 DEF Linked
<1>5. PICK l, y : l = Memory!Left(h, x) /\ y = Memory!Right(h, x)
  OBVIOUS
<1>6. l \in B /\ R[l] = x /\ l < x
  <2>1. Cut(B, R) /\ Tagged(h.array, B, R, F) /\ x \in B /\ x # 0
    BY <1>2, <1>3
  <2>2. Memory!Left(h, x) \in B /\ R[Memory!Left(h, x)] = x /\ Memory!Left(h, x) < x
    BY ONLY <2>1, LeftIs
  <2> QED
    BY <1>5, <2>2
<1>7. y = R[x] /\ y \in B
  <2>1. Cut(B, R) /\ Tagged(h.array, B, R, F) /\ x \in B /\ x # Ints - 2
    BY <1>2, <1>3
  <2>2. Memory!Size(h, x) = R[x] - x
    BY <1>2, <1>3, TagFacts
  <2>3. Memory!Right(h, x) = x + Memory!Size(h, x)
    BY DEF Memory!Right
  <2>4. R[x] \in B /\ x \in Int /\ R[x] \in Int
    BY ONLY <2>1, CutFacts
  <2>5. x + (R[x] - x) = R[x]
    BY ONLY <2>4
  <2> QED
    BY <1>5, <2>2, <2>3, <2>4, <2>5
<1>8. PICK s, e : s = (IF l \in F THEN l ELSE x) /\ e = (IF y \in F THEN R[y] ELSE y)
  OBVIOUS
<1>9. \A b \in B : b \in Int /\ R[b] \in Int /\ R[b] >= b + 2
  BY <1>2, CutFacts
<1>10. \A b, c \in B : b < c => R[b] <= c
  BY <1>2 DEF Cut
<1>11. s \in B /\ e \in B /\ s # 0 /\ s < e /\ s <= x /\ x < e
  <2>1. y \in F => R[y] \in B
    BY <1>2, <1>4, CutFacts
  <2> QED
    BY <1>3, <1>4, <1>6, <1>7, <1>8, <1>9, <2>1
<1>12. ASSUME NEW i \in B, s <= i, i < e PROVE i = x \/ (i = l /\ l \in F) \/ (i = y /\ y \in F)
  <2>1. i \in Int /\ x \in Int /\ y \in Int /\ l \in Int /\ R[y] \in Int
    BY <1>3, <1>6, <1>7, <1>9
  <2>2. CASE i < x
    <3>1. l \in F /\ s = l
      BY <1>8, <1>12, <2>1, <2>2
    <3>2. l < i => R[l] <= i
      BY <1>6, <1>10
    <3> QED
      BY <1>6, <1>12, <2>1, <2>2, <3>1, <3>2
  <2>3. CASE x < i
    <3>1. y <= i
      BY <1>3, <1>7, <1>10, <2>3
    <3>2. y \in F /\ e = R[y]
      BY <1>8, <1>12, <2>1, <3>1
    <3>3. y < i => R[y] <= i
      BY <1>7, <1>10
    <3> QED
      BY <1>12, <2>1, <3>1, <3>2, <3>3
  <2> QED
    BY <2>1, <2>2, <2>3
<1>13. PICK H : H = (F \ {l}) \ {y}
  OBVIOUS
<1>14. \A i \in B : i \in H <=> i \in F /\ (i < s \/ i >= e)
  <2>1. ASSUME NEW i \in B, i \in H PROVE i \in F /\ (i < s \/ i >= e)
    BY <1>3, <1>9, <1>11, <1>12, <1>13, <2>1
  <2>2. ASSUME NEW i \in B, i \in F, i < s \/ i >= e PROVE i \in H
    <3>1. i # l
      BY <1>6, <1>8, <1>9, <1>11, <2>2
    <3>2. i # y
      BY <1>3, <1>7, <1>8, <1>9, <1>11, <2>2
    <3> QED
      BY <1>13, <2>2, <3>1, <3>2
  <2> QED
    BY <2>1, <2>2
<1>15. PICK h1 : /\ h1 = IF Memory!IsAvail(h, l) THEN Memory!Remove(h, l) ELSE h
                 /\ IsHeap(h1) /\ Linked(h1.array, h1.avail, B, F \ {l}, r)
                 /\ Tagged(h1.array, B, R, F) /\ SameBut(h.array, h1.array, F \ {l}, 0, 0)
  BY <1>2, <1>6, RemoveIfAvail
<1>16. PICK h2 : /\ h2 = IF Memory!IsAvail(h1, y) THEN Memory!Remove(h1, y) ELSE h1
                 /\ IsHeap(h2) /\ Linked(h2.array, h2.avail, B, H, r)
                 /\ Tagged(h2.array, B, R, F) /\ SameBut(h1.array, h2.array, H, 0, 0)
  <2>1. y # l
    BY <1>3, <1>6, <1>7, <1>9
  <2>2. y \in F <=> y \in F \ {l}
    BY <2>1
  <2> QED
    BY <1>2, <1>7, <1>13, <1>15, <2>2, RemoveIfAvail
<1>17. e \notin H /\ \A i \in H : R[i] \notin H /\ R[i] # s
  <2>1. e \notin F
    BY <1>2, <1>8 DEF Spaced
  <2>2. ASSUME NEW i \in H PROVE R[i] \notin H /\ R[i] # s
    <3>1. i \in F /\ i # l /\ i \in B /\ R[i] \notin F
      BY <1>2, <1>4, <1>13 DEF Spaced
    <3>2. R[i] # x
      <4>1. (i < l => R[i] <= l) /\ (l < i => R[l] <= i)
        BY <1>6, <1>10, <3>1
      <4> QED
        BY <1>6, <1>9, <3>1, <4>1
    <3> QED
      BY <1>8, <1>13, <3>1, <3>2
  <2> QED
    BY <1>13, <2>1, <2>2
<1>18. PICK g : g = Memory!MakeAvail(h2, s, e - s)
  OBVIOUS
<1>19. PICK C, P, t :
           /\ Good(g, C, P, H \cup {s}, t)
           /\ C = {b \in B : b <= s \/ b >= e} /\ \A b \in C : b # s => P[b] = R[b]
           /\ SameBut(h2.array, g.array, H, s, e)
  <2>1. Mergeable(h2, B, R, F, H, r, s, e)
    BY <1>2, <1>14, <1>16, <1>17 DEF Mergeable
  <2>2. s \in B /\ e \in B /\ s # 0 /\ s < e
    BY <1>11
  <2>3. Merged(h2, Memory!MakeAvail(h2, s, e - s), B, R, H, s, e)
    BY ONLY <2>1, <2>2, MergePush
  <2> QED
    BY <1>18, <2>3 DEF Merged
<1>20. Memory!Release(h, x) = g
  <2>1. (Memory!IsAvail(h, l) <=> l \in F) /\ Memory!Size(h, l) = x - l
    BY <1>2, <1>6, TagFacts
  <2>2. (Memory!IsAvail(h, y) <=> y \in F) /\ Memory!Size(h, y) = R[y] - y
    BY <1>2, <1>7, TagFacts
  <2>3. Memory!Size(h, x) = y - x
    BY <1>2, <1>3, <1>7, TagFacts
  <2>4. s = IF Memory!IsAvail(h, l) THEN l ELSE x
    BY <1>8, <2>1
  <2>5. e - s = Memory!Size(h, x) + (IF Memory!IsAvail(h, l) THEN Memory!Size(h, l) ELSE 0)
                                  + (IF Memory!IsAvail(h, y) THEN Memory!Size(h, y) ELSE 0)
    <3>1. x \in Int /\ y \in Int /\ l \in Int /\ R[y] \in Int
      BY <1>3, <1>6, <1>7, <1>9
    <3> QED
      BY <1>8, <2>1, <2>2, <2>3, <3>1
  <2> QED
    BY <1>18, <1>5, <1>15, <1>16, <2>4, <2>5 DEF Memory!Release
<1>21. SameBut(h.array, g.array, F, s, e)
  <2>1. H \subseteq F \ {l} /\ F \ {l} \subseteq F
    BY <1>13
  <2>2. SameBut(h.array, h2.array, F \ {l}, 0, 0)
    BY <1>15, <1>16, <2>1, SameTwice
  <2>3. SameBut(h.array, g.array, F \ {l}, s, e)
    BY <1>19, <2>1, <2>2, SameTwice
  <2>4. Links(F \ {l}) \subseteq Links(F)
    BY DEF Links
  <2> QED
    BY <2>3, <2>4 DEF SameBut
<1>22. Owns(C, P, H \cup {s}, U)
  <2>1. ASSUME NEW i, i \in DOMAIN U
        PROVE  /\ i \in C /\ i \notin H \cup {s} /\ i # 0 /\ i # Ints - 2 /\ U[i] = P[i]
               /\ i \in B /\ (i < s \/ i >= e)
    <3>1. i \in DOMAIN T /\ i # x /\ U[i] = T[i]
      BY <2>1
    <3>2. i \in B /\ i \notin F /\ i # 0 /\ i # Ints - 2 /\ T[i] = R[i]
      BY <1>1, <3>1 DEF Owns
    <3>3. i < s \/ i >= e
      BY <1>9, <1>11, <1>12, <3>1, <3>2
    <3>4. i # s /\ i \in C
      BY <1>9, <1>11, <1>19, <3>2, <3>3
    <3> QED
      BY <1>13, <1>19, <3>1, <3>2, <3>3, <3>4
  <2>2. ASSUME NEW i, i \in C, i \notin H \cup {s}, i # 0, i # Ints - 2 PROVE i \in DOMAIN U
    <3>1. i \in B /\ (i <= s \/ i >= e) /\ i # s
      BY <1>19, <2>2
    <3>2. i < s \/ i >= e
      BY <1>9, <1>11, <3>1
    <3>3. i \notin F /\ i # x
      BY <1>3, <1>9, <1>11, <1>14, <2>2, <3>1, <3>2
    <3>4. i \in DOMAIN T
      BY <1>1, <2>2, <3>1, <3>3 DEF Owns
    <3> QED
      BY <3>3, <3>4
  <2> QED
    BY <2>1, <2>2 DEF Owns
<1>23. Spared(h.array, g.array, U)
  <2>1. ASSUME NEW k \in DOMAIN U PROVE k \in DOMAIN T /\ U[k] = T[k] /\ (R[k] <= s \/ k >= e)
    <3>1. k \in DOMAIN T /\ k # x /\ U[k] = T[k]
      OBVIOUS
    <3>2. k \in B /\ k \notin F
      BY <1>1, <3>1 DEF Owns
    <3>3. k < s \/ k >= e
      BY <1>9, <1>11, <1>12, <3>1, <3>2
    <3> QED
      BY <1>10, <1>11, <3>1, <3>2, <3>3
  <2>2. s \in Int /\ e \in Int
    BY <1>9, <1>11
  <2> QED
    BY <1>1, <1>2, <1>4, <1>21, <2>1, <2>2, SparedBut
<1> QED
  BY <1>19, <1>20, <1>22, <1>23 DEF State

\* MakeTaken() writes the two tags.
LEMMA TakenIs ==
  ASSUME NEW h, IsHeap(h), NEW i \in Memory!Index, NEW c \in Int, c - 1 \in Memory!Index
  PROVE  \E g : /\ g = Memory!MakeTaken(h, i, c - i) /\ IsHeap(g) /\ g.avail = h.avail
                /\ \A j \in Memory!Index :
                     g.array[j] = IF j = i \/ j = c - 1 THEN i - c ELSE h.array[j]
<1>1. PICK a, av : a = h.array /\ av = h.avail
  OBVIOUS
<1>2. h = [array |-> a, avail |-> av] /\ a \in [Memory!Index -> Int]
  BY <1>1 DEF IsHeap, Array
<1>3. i \in Int /\ i + (c - i) - 1 = c - 1 /\ -(c - i) = i - c
  BY MemoryFacts
<1>4. PICK b : b = [a EXCEPT ![i] = i - c, ![c - 1] = i - c]
  OBVIOUS
<1>5. PICK g : g = [h EXCEPT !.array = b]
  OBVIOUS
<1>6. g = Memory!MakeTaken(h, i, c - i)
  BY <1>1, <1>3, <1>4, <1>5 DEF Memory!MakeTaken
<1>7. /\ b \in [Memory!Index -> Int]
      /\ \A j \in Memory!Index : b[j] = IF j = i \/ j = c - 1 THEN i - c ELSE a[j]
  BY <1>2, <1>3, <1>4
<1>8. g = [array |-> b, avail |-> av]
  BY <1>2, <1>5
<1>9. g.array = b /\ g.avail = av /\ IsHeap(g)
  BY <1>7, <1>8 DEF IsHeap, Array
<1> QED
  BY <1>1, <1>6, <1>7, <1>9

\* A list stays when other ints change.
LEMMA ListStays ==
  ASSUME NEW a, NEW b, NEW av, NEW B, NEW C, NEW R, NEW F, NEW r, Cut(B, R), B \subseteq C,
         Linked(a, av, B, F, r),
         \A k \in F : b[k + 1] = a[k + 1] /\ b[k + 2] = a[k + 2]
  PROVE  Linked(b, av, C, F, r)
  BY DEF Linked

\* malloc() takes block i in g: so many ints, apart from the blocks of T, which are spared.
Grants(h, T, g, i, ints) ==
  \E e, U :
    /\ e \in Int /\ i \in Int /\ i \notin DOMAIN T /\ e - i >= ints
    /\ U = [k \in DOMAIN T \cup {i} |-> IF k = i THEN e ELSE T[k]]
    /\ State(g, U) /\ Spared(h.array, g.array, T)

\* malloc() takes a block, or the first ints of it, and spares the blocks of the others.
LEMMA TakeSound ==
  ASSUME NEW h, NEW B, NEW R, NEW F, NEW r, NEW T, Good(h, B, R, F, r), Owns(B, R, F, T),
         NEW i \in F, NEW ints \in Int, ints >= 4, R[i] - i >= ints
  PROVE  Grants(h, T, Memory!Take(h, i, ints), i, ints)
<1>1. /\ IsHeap(h) /\ Cut(B, R) /\ Tagged(h.array, B, R, F)
      /\ Linked(h.array, h.avail, B, F, r) /\ Spaced(R, F)
  BY DEF Good
<1>2. F \subseteq B /\ 0 \notin F /\ Ints - 2 \notin F /\ i \in B
  BY <1>1 DEF Linked
<1>3. /\ i \in Int /\ R[i] \in Int /\ i >= 2 /\ i + 4 <= R[i] /\ R[i] <= Ints - 2
      /\ i \in Memory!Index /\ R[i] - 1 \in Memory!Index /\ i # 0 /\ i # Ints - 2
  BY <1>1, <1>2, CutFacts
<1>4. PICK h1, G : h1 = Memory!Remove(h, i) /\ G = F \ {i}
  OBVIOUS
<1>5. /\ IsHeap(h1) /\ Linked(h1.array, h1.avail, B, G, r)
      /\ SameBut(h.array, h1.array, G, 0, 0)
  BY <1>1, <1>4, RemoveSound
<1>6. G \subseteq B /\ 0 \notin G /\ Ints - 2 \notin G /\ G \subseteq F /\ i \notin G
  BY <1>2, <1>4
<1>7. Tagged(h1.array, B, R, F)
  BY <1>1, <1>5, <1>6, TagsStay
<1>8. i \notin DOMAIN T
  BY DEF Owns
<1>9. Memory!Size(h, i) = R[i] - i
  BY <1>1, <1>2, TagFacts
<1>10. \A k \in G : /\ k \in B /\ k \in Int /\ k + 1 \in Memory!Index /\ k + 2 \in Memory!Index
                    /\ ~(i <= k + 1 /\ k + 1 < R[i]) /\ ~(i <= k + 2 /\ k + 2 < R[i])
  <2>1. ASSUME NEW k \in G
        PROVE  /\ k \in B /\ k \in Int /\ k + 1 \in Memory!Index /\ k + 2 \in Memory!Index
               /\ ~(i <= k + 1 /\ k + 1 < R[i]) /\ ~(i <= k + 2 /\ k + 2 < R[i])
    <3>1. /\ k \in B /\ k \in Int /\ k + 1 \in Memory!Index /\ k + 2 \in Memory!Index /\ k # i
          /\ k + 4 <= R[k] /\ R[k] \in Int
      BY <1>1, <1>5, <1>6, LinkFacts
    <3>2. /\ k + 1 \in Int /\ k <= k + 1 /\ k + 1 < R[k]
          /\ k + 2 \in Int /\ k <= k + 2 /\ k + 2 < R[k]
      BY <3>1
    <3> QED
      BY <1>1, <1>2, <3>1, <3>2, Disjoint
  <2> QED
    BY <2>1
<1>11. \A k \in DOMAIN T : R[k] <= i \/ k >= R[i]
  <2>1. ASSUME NEW k \in DOMAIN T PROVE R[k] <= i \/ k >= R[i]
    <3>1. k \in B /\ k # i /\ k \in Int /\ R[k] \in Int
      BY <1>1, <1>8, CutFacts DEF Owns
    <3>2. (k < i => R[k] <= i) /\ (i < k => R[i] <= k)
      BY <1>1, <1>2, <3>1 DEF Cut
    <3> QED
      BY <1>3, <3>1, <3>2
  <2> QED
    BY <2>1
<1>12. CASE R[i] - i - ints < 4
  <2>1. PICK g : /\ g = Memory!MakeTaken(h1, i, R[i] - i) /\ IsHeap(g) /\ g.avail = h1.avail
                 /\ \A j \in Memory!Index :
                      g.array[j] = IF j = i \/ j = R[i] - 1 THEN i - R[i] ELSE h1.array[j]
    BY <1>3, <1>5, TakenIs
  <2>2. Memory!Take(h, i, ints) = g
    <3>1. ~((R[i] - i) - ints >= 4)
      BY <1>3, <1>12
    <3> QED
      BY <1>4, <1>9, <2>1, <3>1 DEF Memory!Take
  <2>3. Linked(g.array, g.avail, B, G, r)
    <3>1. \A k \in G : g.array[k + 1] = h1.array[k + 1] /\ g.array[k + 2] = h1.array[k + 2]
      <4>1. \A j \in Int : ~(i <= j /\ j < R[i]) => j # i /\ j # R[i] - 1
        BY <1>3
      <4>2. \A k \in G : k + 1 \in Int /\ k + 2 \in Int
        BY <1>10
      <4> QED
        BY <1>10, <2>1, <4>1, <4>2
    <3> QED
      BY <1>1, <1>5, <2>1, <3>1, ListStays
  <2>4. Tagged(g.array, B, R, G)
    <3>1. ASSUME NEW k \in B
          PROVE  g.array[k] = (IF k \in G THEN R[k] - k ELSE k - R[k])
                 /\ g.array[R[k] - 1] = g.array[k]
      <4>1. /\ k \in Int /\ R[k] \in Int /\ R[k] >= k + 2
            /\ k \in Memory!Index /\ R[k] - 1 \in Memory!Index
        BY <1>1, CutFacts
      <4>2. CASE k = i
        BY <1>3, <1>6, <2>1, <4>2
      <4>3. CASE k # i
        <5>1. (k < i => R[k] <= i) /\ (i < k => R[i] <= k)
          BY <1>1, <1>2 DEF Cut
        <5>2. k # i /\ k # R[i] - 1 /\ R[k] - 1 # i /\ R[k] - 1 # R[i] - 1
          BY <1>3, <4>1, <4>3, <5>1
        <5>3. h1.array[k] = (IF k \in F THEN R[k] - k ELSE k - R[k])
              /\ h1.array[R[k] - 1] = h1.array[k]
          BY <1>7 DEF Tagged
        <5> QED
          BY <1>4, <2>1, <4>1, <4>3, <5>2, <5>3
      <4> QED
        BY <4>2, <4>3
    <3> QED
      BY <3>1 DEF Tagged
  <2>5. Good(g, B, R, G, r)
    BY <1>1, <1>6, <2>1, <2>3, <2>4 DEF Good, Spaced
  <2>6. SameBut(h.array, g.array, F, i, R[i])
    <3>1. SameBut(h1.array, g.array, G, i, R[i])
      <4>1. \A j \in Memory!Index : ~(i <= j /\ j < R[i]) => j # i /\ j # R[i] - 1
        BY <1>3, MemoryFacts
      <4> QED
        BY <2>1, <4>1 DEF SameBut
    <3>2. SameBut(h.array, g.array, G, i, R[i])
      BY <1>5, <3>1, SameTwice
    <3>3. Links(G) \subseteq Links(F)
      BY <1>6 DEF Links
    <3> QED
      BY <3>2, <3>3 DEF SameBut
  <2>7. Spared(h.array, g.array, T)
    BY <1>1, <1>2, <1>3, <1>11, <2>6, SparedBut
  <2>8. PICK U : U = [k \in DOMAIN T \cup {i} |-> IF k = i THEN R[i] ELSE T[k]]
    OBVIOUS
  <2>9. Owns(B, R, G, U)
    <3>1. \A k : k \in DOMAIN U <=> k \in B /\ k \notin G /\ k # 0 /\ k # Ints - 2
      BY <1>2, <1>3, <1>4, <2>8 DEF Owns
    <3>2. \A k \in DOMAIN U : U[k] = R[k]
      BY <2>8 DEF Owns
    <3> QED
      BY <3>1, <3>2 DEF Owns
  <2>10. State(g, U)
    BY <2>5, <2>9 DEF State
  <2> QED
    BY <1>3, <1>8, <2>2, <2>7, <2>8, <2>10 DEF Grants
<1>13. CASE ~(R[i] - i - ints < 4)
  <2>1. PICK c \in Int : c = i + ints
    BY <1>3
  <2>2. i + 4 <= c /\ c + 4 <= R[i] /\ c - i = ints /\ R[i] - c = R[i] - i - ints
    BY <1>3, <1>13, <2>1
  <2>3. PICK C, P : /\ C = B \cup {c} /\ c \notin B
                    /\ P = [b \in C |-> IF b = i THEN c ELSE IF b = c THEN R[i] ELSE R[b]]
                    /\ Cut(C, P) /\ P[i] = c /\ P[c] = R[i] /\ c # 0 /\ c # Ints - 2
                    /\ \A b \in B : b # i => P[b] = R[b] /\ P[b] # c
    BY <1>1, <1>2, <1>3, <2>2, Splits
  <2>4. c - 1 \in Memory!Index
    BY <1>3, <2>2, MemoryFacts
  <2>5. PICK h2 : /\ h2 = Memory!MakeTaken(h1, i, c - i) /\ IsHeap(h2) /\ h2.avail = h1.avail
                  /\ \A j \in Memory!Index :
                       h2.array[j] = IF j = i \/ j = c - 1 THEN i - c ELSE h1.array[j]
    <3>1. IsHeap(h1) /\ i \in Memory!Index /\ c \in Int /\ c - 1 \in Memory!Index
      BY <1>3, <1>5, <2>4
    <3> QED
      BY ONLY <3>1, TakenIs
  <2>6. Linked(h2.array, h2.avail, C, G, r)
    <3>1. \A k \in G : h2.array[k + 1] = h1.array[k + 1] /\ h2.array[k + 2] = h1.array[k + 2]
      <4>1. \A j \in Int : ~(i <= j /\ j < R[i]) => j # i /\ j # c - 1
        BY <1>3, <2>2
      <4>2. \A k \in G : k + 1 \in Int /\ k + 2 \in Int
        BY <1>10
      <4> QED
        BY <1>10, <2>5, <4>1, <4>2
    <3>2. B \subseteq C
      BY <2>3
    <3> QED
      BY <1>1, <1>5, <2>5, <3>1, <3>2, ListStays
  <2>7. Tagged(h2.array, C \ {c}, P, G)
    <3>1. ASSUME NEW k \in C \ {c}
          PROVE  h2.array[k] = (IF k \in G THEN P[k] - k ELSE k - P[k])
                 /\ h2.array[P[k] - 1] = h2.array[k]
      <4>0. k \in B
        BY <2>3
      <4>1. /\ k \in Int /\ R[k] \in Int /\ R[k] >= k + 2
            /\ k \in Memory!Index /\ R[k] - 1 \in Memory!Index
        BY <1>1, <4>0, CutFacts
      <4>2. CASE k = i
        BY <1>3, <1>6, <2>3, <2>4, <2>5, <4>2
      <4>3. CASE k # i
        <5>1. (k < i => R[k] <= i) /\ (i < k => R[i] <= k)
          BY <1>1, <1>2, <4>0 DEF Cut
        <5>2. k # i /\ k # c - 1 /\ R[k] - 1 # i /\ R[k] - 1 # c - 1
          BY <1>3, <2>2, <4>1, <4>3, <5>1
        <5>3. h1.array[k] = (IF k \in F THEN R[k] - k ELSE k - R[k])
              /\ h1.array[R[k] - 1] = h1.array[k]
          BY <1>7, <4>0 DEF Tagged
        <5>4. P[k] = R[k] /\ (k \in G <=> k \in F)
          BY <1>4, <2>3, <4>0, <4>3
        <5> QED
          BY <2>5, <4>1, <5>2, <5>3, <5>4
      <4> QED
        BY <4>2, <4>3
    <3> QED
      BY <3>1 DEF Tagged
  <2>8. c \in C /\ c \notin G
    BY <1>6, <2>3
  <2>9. PICK t, g : /\ g = Memory!MakeAvail(h2, c, P[c] - c) /\ IsHeap(g)
                    /\ Linked(g.array, g.avail, C, G \cup {c}, t)
                    /\ Tagged(g.array, C, P, G \cup {c})
                    /\ SameBut(h2.array, g.array, G, c, P[c])
    <3>1. /\ IsHeap(h2) /\ Cut(C, P) /\ Linked(h2.array, h2.avail, C, G, r)
          /\ c \in C /\ c # 0 /\ c # Ints - 2 /\ c \notin G
          /\ Tagged(h2.array, C \ {c}, P, G)
      BY <2>3, <2>5, <2>6, <2>7, <2>8
    <3> QED
      BY ONLY <3>1, PushSound
  <2>10. Memory!Take(h, i, ints) = g
    <3>1. (R[i] - i) - ints >= 4 /\ P[c] - c = (R[i] - i) - ints
      BY <1>3, <1>13, <2>2, <2>3
    <3> QED
      BY <1>4, <1>9, <2>1, <2>2, <2>5, <2>9, <3>1 DEF Memory!Take
  <2>11. Spaced(P, G \cup {c})
    <3>1. \A k \in G : k \in B /\ k # i /\ k \in F
      BY <1>2, <1>4
    <3>2. \A k \in G : P[k] = R[k] /\ R[k] # c /\ R[k] \notin F
      BY <1>1, <2>3, <3>1 DEF Spaced
    <3>3. P[c] \notin F /\ P[c] # c
      BY <1>1, <1>3, <2>2, <2>3 DEF Spaced
    <3> QED
      BY <1>6, <3>2, <3>3 DEF Spaced
  <2>12. Good(g, C, P, G \cup {c}, t)
    BY <2>3, <2>9, <2>11 DEF Good
  <2>13. SameBut(h.array, g.array, F, i, R[i])
    <3>1. SameBut(h1.array, g.array, G, i, R[i])
      <4>1. \A j \in Memory!Index : ~(i <= j /\ j < R[i]) =>
                                      j # i /\ j # c - 1 /\ ~(c <= j /\ j < P[c])
        BY <1>3, <2>2, <2>3, MemoryFacts
      <4> QED
        BY <2>5, <2>9, <4>1 DEF SameBut
    <3>2. SameBut(h.array, g.array, G, i, R[i])
      BY <1>5, <3>1, SameTwice
    <3>3. Links(G) \subseteq Links(F)
      BY <1>6 DEF Links
    <3> QED
      BY <3>2, <3>3 DEF SameBut
  <2>14. Spared(h.array, g.array, T)
    BY <1>1, <1>2, <1>3, <1>11, <2>13, SparedBut
  <2>15. PICK U : U = [k \in DOMAIN T \cup {i} |-> IF k = i THEN c ELSE T[k]]
    OBVIOUS
  <2>16. Owns(C, P, G \cup {c}, U)
    <3>1. \A k : k \in DOMAIN U <=> k \in C /\ k \notin G \cup {c} /\ k # 0 /\ k # Ints - 2
      <4>1. \A k : k \in C /\ k \notin G \cup {c} <=> k \in B /\ (k \notin F \/ k = i)
        BY <1>2, <1>4, <2>3
      <4> QED
        BY <1>2, <1>3, <2>15, <4>1 DEF Owns
    <3>2. \A k \in DOMAIN U : U[k] = P[k]
      BY <1>8, <2>3, <2>15 DEF Owns
    <3> QED
      BY <3>1, <3>2 DEF Owns
  <2>17. State(g, U)
    BY <2>12, <2>16 DEF State
  <2>18. c - i >= ints
    BY <1>3, <2>2
  <2> QED
    BY <1>3, <1>8, <2>10, <2>14, <2>15, <2>17, <2>18 DEF Grants
<1> QED
  BY <1>12, <1>13

\* A client may write between the tags of its block.
LEMMA WriteSound ==
  ASSUME NEW h, NEW T, State(h, T), NEW i \in DOMAIN T, NEW b, Array(b),
         \A j \in Memory!Index : ~(i < j /\ j < T[i] - 1) => b[j] = h.array[j]
  PROVE  /\ State([h EXCEPT !.array = b], T)
         /\ [h EXCEPT !.array = b].array = b
         /\ \A k \in DOMAIN T : k # i =>
              \A j \in Memory!Index : k <= j /\ j < T[k] => b[j] = h.array[j]
<1>1. PICK B, R, F, r : Good(h, B, R, F, r) /\ Owns(B, R, F, T)
  BY DEF State
<1>2. /\ IsHeap(h) /\ Cut(B, R) /\ Tagged(h.array, B, R, F)
      /\ Linked(h.array, h.avail, B, F, r) /\ Spaced(R, F)
  BY <1>1 DEF Good
<1>3. i \in B /\ i \notin F /\ T[i] = R[i] /\ i \in Int /\ R[i] \in Int
  BY <1>1, <1>2, CutFacts DEF Owns
<1>4. PICK g : g = [h EXCEPT !.array = b]
  OBVIOUS
<1>5. g = [array |-> b, avail |-> h.avail] /\ g.array = b /\ g.avail = h.avail /\ IsHeap(g)
  BY <1>2, <1>4 DEF IsHeap
<1>6. ASSUME NEW k \in B, k # i, NEW j \in Memory!Index, k <= j, j < R[k]
      PROVE  b[j] = h.array[j]
  <2>1. j \in Int
    BY MemoryFacts
  <2>2. ~(i <= j /\ j < R[i])
    BY <1>2, <1>3, <1>6, <2>1, Disjoint
  <2> QED
    BY <1>3, <2>1, <2>2
<1>7. Tagged(b, B, R, F)
  <2>1. ASSUME NEW k \in B PROVE b[k] = h.array[k] /\ b[R[k] - 1] = h.array[R[k] - 1]
    <3>1. /\ k \in Int /\ R[k] \in Int /\ R[k] >= k + 2 /\ k \in Memory!Index
          /\ R[k] - 1 \in Memory!Index
      BY <1>2, CutFacts
    <3>2. CASE k = i
      BY <1>3, <3>1, <3>2
    <3>3. CASE k # i
      <4>1. k <= k /\ k < R[k] /\ k <= R[k] - 1 /\ R[k] - 1 < R[k]
        BY <3>1
      <4> QED
        BY <1>6, <3>1, <3>3, <4>1
    <3> QED
      BY <3>2, <3>3
  <2> QED
    BY <1>2, <2>1 DEF Tagged
<1>8. Linked(b, h.avail, B, F, r)
  <2>1. ASSUME NEW k \in F PROVE b[k + 1] = h.array[k + 1] /\ b[k + 2] = h.array[k + 2]
    <3>1. /\ k \in B /\ k \in Int /\ k + 1 \in Memory!Index /\ k + 2 \in Memory!Index /\ k # i
          /\ k + 4 <= R[k] /\ R[k] \in Int
      BY <1>2, <1>3, LinkFacts
    <3>2. k <= k + 1 /\ k + 1 < R[k] /\ k <= k + 2 /\ k + 2 < R[k]
      BY <3>1
    <3> QED
      BY <1>6, <3>1, <3>2
  <2> QED
    BY <1>2, <2>1, ListStays
<1>9. State(g, T)
  BY <1>1, <1>2, <1>5, <1>7, <1>8 DEF Good, State
<1>10. ASSUME NEW k \in DOMAIN T, k # i, NEW j \in Memory!Index, k <= j, j < T[k]
       PROVE  b[j] = h.array[j]
  BY <1>1, <1>6, <1>10 DEF Owns
<1> QED
  BY <1>4, <1>5, <1>9, <1>10

\* The number of blocks of 4 ints that the array has room for.
LEMMA Quarters ==
  /\ Ints \div 4 \in Nat /\ 4 * (Ints \div 4) <= Ints /\ Ints < 4 * (Ints \div 4) + 4
  /\ \A x \in Nat : x \div 4 \in Nat /\ 4 * (x \div 4) <= x /\ x < 4 * (x \div 4) + 4
  BY MemoryFacts

\* Block after block along next(), 0 at the end.
Chain(h, F, link) ==
  /\ link \in [0..(Ints \div 4) -> F \cup {0}] /\ link[0] = h.avail
  /\ \A k \in 1..(Ints \div 4) :
       link[k] = IF link[k - 1] = 0 THEN 0 ELSE h.array[link[k - 1] + 1]

\* The list of the blocks on the chain.
Along(list, link) ==
  list = [k \in {k \in 1..(Ints \div 4) : link[k - 1] # 0} |-> link[k - 1]]

\* The list is what next() goes through.
LEMMA ChainIs ==
  ASSUME NEW h, NEW B, NEW R, NEW F, NEW r, Cut(B, R), Linked(h.array, h.avail, B, F, r)
  PROVE  \E link : Chain(h, F, link) /\ Along(Memory!FreeList(h), link)
<1>1. PICK z \in Nat : z = Ints \div 4
  BY Quarters
<1>2. PICK after : after = [i \in Memory!Index |->
          IF i \in 1..(Ints - 2) /\ Memory!NextFree(h, i) \in Memory!Index
          THEN Memory!NextFree(h, i) ELSE 0]
  OBVIOUS
<1>3. PICK S : S = F \cup {0}
  OBVIOUS
<1>4. /\ \A i \in F : i \in Int /\ i \in Memory!Index /\ i >= 2 /\ i + 4 <= R[i] /\ R[i] <= Ints - 2
      /\ \A i \in F : h.array[i + 1] = 0 \/ h.array[i + 1] \in F
      /\ h.avail \in S /\ 0 \in Memory!Index /\ S \subseteq Memory!Index /\ 0 \notin F
      /\ \A i \in F : R[i] \in Int
  BY <1>3, LinkFacts, MemoryFacts
<1>5. \A i \in F : after[i] = h.array[i + 1]
  <2>1. ASSUME NEW i \in F PROVE after[i] = h.array[i + 1]
    <3>1. h.array[i + 1] \in Memory!Index /\ i \in Memory!Index
      BY <1>3, <1>4
    <3>2. /\ i \in Int /\ i >= 2 /\ i + 4 <= R[i] /\ R[i] <= Ints - 2 /\ R[i] \in Int
          /\ Ints \in Int
      BY <1>4, MemoryFacts
    <3>3. i \in 1..(Ints - 2)
      BY ONLY <3>2
    <3> QED
      BY <1>2, <3>1, <3>3 DEF Memory!NextFree
  <2> QED
    BY <2>1
<1>6. after[0] = 0
  BY <1>2, <1>4
<1>7. \A s \in S : after[s] \in S
  BY <1>3, <1>4, <1>5, <1>6
<1>8. PICK A : A = [k \in 1..z |-> [s \in S |-> after[s]]]
  OBVIOUS
<1>9. Moves(S, z, A)
  BY <1>7, <1>8 DEF Moves
<1>10. PICK g : Iterated(h.avail, z, A, g) /\ g \in [0..z -> S]
  BY <1>4, <1>9, Iterates
<1>11. g = [k \in 0..z |-> IF k = 0 THEN h.avail ELSE after[g[k - 1]]]
  <2>1. \A k \in 0..z : k # 0 => k \in 1..z /\ g[k - 1] \in S
    BY <1>10
  <2>2. \A k \in 0..z : k # 0 => A[k][g[k - 1]] = after[g[k - 1]]
    BY <1>8, <2>1
  <2> QED
    BY <1>10, <2>2 DEF Iterated
<1>12. PICK link : link = CHOOSE f : f = [k \in 0..z |-> IF k = 0 THEN h.avail ELSE after[f[k - 1]]]
  OBVIOUS
<1>13. link = [k \in 0..z |-> IF k = 0 THEN h.avail ELSE after[link[k - 1]]]
  BY <1>11, <1>12
<1>14. Memory!FreeList(h) = [k \in {k \in 1..z : link[k - 1] # 0} |-> link[k - 1]]
  BY <1>1, <1>2, <1>12 DEF Memory!FreeList
<1>15. link \in [0..z -> S]
  <2> DEFINE V == {k \in 0..z : link[k] \in S}
  <2>1. 0 \in V
    BY <1>4, <1>13
  <2>2. \A k \in 1..z : k - 1 \in V => k \in V
    <3>1. ASSUME NEW k \in 1..z, k - 1 \in V PROVE k \in V
      <4>1. link[k] = after[link[k - 1]] /\ k \in 0..z
        BY <1>13
      <4> QED
        BY <1>7, <3>1, <4>1
    <3> QED
      BY <3>1
  <2>3. \A k \in 0..z : k \in V
    <3> HIDE DEF V
    <3> QED
      BY <2>1, <2>2, UpTo
  <2> QED
    BY <1>13, <2>3
<1>16. ASSUME NEW k \in 1..z
       PROVE  link[k] = IF link[k - 1] = 0 THEN 0 ELSE h.array[link[k - 1] + 1]
  <2>1. link[k] = after[link[k - 1]] /\ link[k - 1] \in S
    BY <1>13, <1>15
  <2> QED
    BY <1>3, <1>5, <1>6, <2>1
<1>17. Chain(h, F, link)
  <2>1. link[0] = h.avail
    BY <1>13
  <2> QED
    BY <1>1, <1>3, <1>15, <1>16, <2>1 DEF Chain
<1> QED
  BY <1>1, <1>14, <1>17 DEF Along

\* The list holds the blocks of F, each once, and prev() goes back along it.
Listed(h, F, list) ==
  /\ DOMAIN list \subseteq 1..(Ints \div 4) /\ {list[k] : k \in DOMAIN list} = F
  /\ \A j, k \in DOMAIN list : list[j] = list[k] => j = k
  /\ \A k \in DOMAIN list :
       Memory!PrevFree(h, list[k]) = (IF k = 1 THEN 0 ELSE list[k - 1])

\* Ranks fall along the chain.
LEMMA ChainFalls ==
  ASSUME NEW h, NEW B, NEW F, NEW r, NEW link,
         Linked(h.array, h.avail, B, F, r), Chain(h, F, link),
         NEW k \in 0..(Ints \div 4), NEW j \in 0..(Ints \div 4), j < k, link[k] # 0
  PROVE  link[j] # 0 /\ r[link[k]] < r[link[j]]
<1>1. PICK z \in Nat : z = Ints \div 4
  BY Quarters
<1>2. /\ link \in [0..z -> F \cup {0}]
      /\ \A m \in 1..z : link[m] = IF link[m - 1] = 0 THEN 0 ELSE h.array[link[m - 1] + 1]
      /\ 0 \notin F /\ \A i \in F : r[i] \in Int
  BY <1>1 DEF Chain, Linked
<1> DEFINE V == {m \in 0..z : \A c \in 0..z : c < m /\ link[m] # 0 =>
                                link[c] # 0 /\ r[link[m]] < r[link[c]]}
<1>3. 0 \in V
  OBVIOUS
<1>4. ASSUME NEW m \in 1..z, m - 1 \in V PROVE m \in V
  <2>1. SUFFICES ASSUME NEW c \in 0..z, c < m, link[m] # 0
                 PROVE  link[c] # 0 /\ r[link[m]] < r[link[c]]
    OBVIOUS
  <2>2. PICK x, y : x = link[m - 1] /\ y = link[m]
    OBVIOUS
  <2>3. m - 1 \in 0..z /\ m \in 0..z
    OBVIOUS
  <2>4. x \in F /\ y = h.array[x + 1] /\ y \in F
    BY <1>2, <2>1, <2>2, <2>3
  <2>5. r[y] < r[x] /\ r[x] \in Int /\ r[y] \in Int
    BY <1>2, <2>4 DEF Linked, Down
  <2>6. CASE c = m - 1
    BY <1>2, <2>2, <2>4, <2>5, <2>6
  <2>7. CASE c # m - 1
    <3>1. c < m - 1
      BY <2>1, <2>7
    <3>2. link[c] # 0 /\ r[x] < r[link[c]]
      BY <1>2, <1>4, <2>2, <2>4, <3>1
    <3>3. link[c] \in F
      BY <1>2, <3>2
    <3>4. r[link[c]] \in Int
      BY <1>2, <3>3
    <3> QED
      BY <2>2, <2>5, <3>2, <3>4
  <2> QED
    BY <2>6, <2>7
<1>5. \A m \in 0..z : m \in V
  <2>1. \A m \in 1..z : m - 1 \in V => m \in V
    BY <1>4
  <2> HIDE DEF V
  <2> QED
    BY <1>3, <2>1, UpTo
<1> QED
  BY <1>1, <1>5

\* There are no more available blocks than fit into the array: the chain ends.
LEMMA ChainEnds ==
  ASSUME NEW h, NEW B, NEW R, NEW F, NEW r, NEW link, Cut(B, R),
         Linked(h.array, h.avail, B, F, r), Chain(h, F, link)
  PROVE  link[Ints \div 4] = 0
<1>1. PICK z \in Nat : z = Ints \div 4
  BY Quarters
<1>2. link \in [0..z -> F \cup {0}]
  BY <1>1 DEF Chain
<1>3. SUFFICES ASSUME link[z] # 0 PROVE FALSE
  BY <1>1
<1>4. \A j \in 0..z : link[j] \in F
  <2>1. z \in 0..z /\ \A j \in 0..z : j = z \/ j < z
    OBVIOUS
  <2>2. \A j \in 0..z : link[j] # 0
    BY <1>1, <1>3, <2>1, ChainFalls
  <2> QED
    BY <1>2, <2>2
<1>5. \A i \in F : r[i] \in Int
  BY DEF Linked
<1>6. ASSUME NEW j \in 0..z, NEW k \in 0..z, j < k PROVE link[j] # link[k]
  <2>1. link[k] # 0 /\ r[link[j]] \in Int
    BY <1>4, <1>5 DEF Linked
  <2>2. r[link[k]] < r[link[j]]
    BY <1>1, <1>6, <2>1, ChainFalls
  <2> QED
    BY <2>1, <2>2
<1>7. \A i \in F : i \in Nat /\ i + 4 <= R[i] /\ R[i] <= Ints - 2 /\ R[i] \in Int /\ i \in B
  <2>1. \A i \in F : i \in Int /\ i >= 2 /\ i + 4 <= R[i] /\ R[i] <= Ints - 2 /\ R[i] \in Int
    BY LinkFacts
  <2>2. \A i \in F : i \in B
    BY DEF Linked
  <2> QED
    BY <2>1, <2>2
<1>8. \A i \in F : i \div 4 \in 0..(z - 1)
  <2>1. ASSUME NEW i \in F PROVE i \div 4 \in 0..(z - 1)
    <3>1. PICK q \in Nat : q = i \div 4 /\ 4 * q <= i
      BY <1>7, Quarters
    <3>2. i + 6 <= Ints /\ Ints < 4 * z + 4 /\ Ints \in Nat /\ i \in Nat
      BY <1>1, <1>7, Quarters, MemoryFacts
    <3> QED
      BY <3>1, <3>2
  <2> QED
    BY <2>1
<1>9. ASSUME NEW i \in F, NEW k \in F, i < k PROVE i \div 4 # k \div 4
  <2>1. R[i] <= k
    BY <1>7, <1>9 DEF Cut
  <2>2. i \in Nat /\ k \in Nat /\ i + 4 <= k
    BY <1>7, <2>1
  <2>3. /\ i \div 4 \in Nat /\ i < 4 * (i \div 4) + 4 /\ 4 * (i \div 4) <= i
        /\ k \div 4 \in Nat /\ k < 4 * (k \div 4) + 4 /\ 4 * (k \div 4) <= k
    BY <2>2, Quarters
  <2> QED
    BY <2>2, <2>3
<1>10. PICK f : f = [j \in 0..z |-> link[j] \div 4]
  OBVIOUS
<1>11. f \in [0..z -> 0..(z - 1)]
  BY <1>4, <1>8, <1>10
<1>12. PICK j, k \in 0..z : j # k /\ f[j] = f[k]
  <2>1. IsFiniteSet(0..z) /\ Cardinality(0..z) = z + 1
    BY FS_Interval
  <2>2. IsFiniteSet(0..(z - 1)) /\ Cardinality(0..(z - 1)) = z
    BY FS_Interval
  <2>3. Cardinality(0..(z - 1)) < Cardinality(0..z)
    BY <2>1, <2>2
  <2> QED
    BY <1>11, <2>1, <2>2, <2>3, FS_PigeonHole
<1>13. link[j] # link[k]
  <2>1. j < k \/ k < j
    BY <1>12
  <2> QED
    BY <1>6, <2>1
<1>14. link[j] \div 4 = link[k] \div 4 /\ link[j] \in F /\ link[k] \in F
  BY <1>4, <1>10, <1>12
<1>15. link[j] < link[k] \/ link[k] < link[j]
  BY <1>7, <1>13, <1>14
<1> QED
  BY <1>9, <1>14, <1>15

\* The chain goes through i before it ends.
OnChain(link, i) == \E k \in 1..(Ints \div 4) : link[k - 1] = i

\* The chain goes through every block of F.
LEMMA ChainReaches ==
  ASSUME NEW h, NEW B, NEW R, NEW F, NEW r, NEW link, Cut(B, R),
         Linked(h.array, h.avail, B, F, r), Chain(h, F, link), NEW i \in F
  PROVE  OnChain(link, i)
<1>1. PICK z \in Nat : z = Ints \div 4
  BY Quarters
<1>2. /\ link \in [0..z -> F \cup {0}] /\ link[0] = h.avail
      /\ \A m \in 1..z : link[m] = IF link[m - 1] = 0 THEN 0 ELSE h.array[link[m - 1] + 1]
      /\ 0 \notin F /\ \A m \in F : r[m] \in Int
      /\ \A m, k \in F : r[m] = r[k] => m = k
  BY <1>1 DEF Chain, Linked
<1> DEFINE V == {m \in 0..z : \/ \E c \in 0..m : link[c] = i
                              \/ link[m] \in F /\ r[link[m]] > r[i]}
<1>3. 0 \in V
  <2>1. link[0] \in F /\ r[i] <= r[link[0]]
    BY <1>2 DEF Linked, Top
  <2>2. r[link[0]] \in Int /\ r[i] \in Int
    BY <1>2, <2>1
  <2>3. link[0] = i \/ r[link[0]] > r[i]
    BY <1>2, <2>1, <2>2
  <2>4. 0 \in 0..0 /\ 0 \in 0..z
    OBVIOUS
  <2> QED
    BY <2>1, <2>3, <2>4
<1>4. ASSUME NEW m \in 1..z, m - 1 \in V PROVE m \in V
  <2>1. m \in 0..z /\ m - 1 \in 0..z /\ m \in 0..m
    OBVIOUS
  <2>2. CASE \E c \in 0..(m - 1) : link[c] = i
    <3>1. PICK c \in 0..(m - 1) : link[c] = i
      BY <2>2
    <3>2. c \in 0..m
      OBVIOUS
    <3> QED
      BY <2>1, <3>1, <3>2
  <2>3. CASE link[m - 1] \in F /\ r[link[m - 1]] > r[i]
    <3>1. PICK x, y : x = link[m - 1] /\ y = link[m]
      OBVIOUS
    <3>2. x \in F /\ y = h.array[x + 1] /\ r[x] > r[i] /\ r[x] \in Int /\ r[i] \in Int
      BY <1>2, <2>3, <3>1
    <3>3. Down(y, x, F, r)
      BY <3>2 DEF Linked
    <3>4. y \in F /\ (r[i] >= r[x] \/ r[i] <= r[y])
      BY <3>2, <3>3 DEF Down
    <3>5. r[y] \in Int
      BY <1>2, <3>4
    <3>6. y = i \/ r[y] > r[i]
      BY <1>2, <3>2, <3>4, <3>5
    <3> QED
      BY <2>1, <3>1, <3>4, <3>6
  <2> QED
    BY <1>4, <2>2, <2>3
<1>5. \A m \in 0..z : m \in V
  <2>1. \A m \in 1..z : m - 1 \in V => m \in V
    BY <1>4
  <2> HIDE DEF V
  <2> QED
    BY <1>3, <2>1, UpTo
<1>6. z \in V /\ link[z] = 0
  BY <1>1, <1>5, ChainEnds
<1>7. PICK c \in 0..z : link[c] = i
  BY <1>2, <1>6
<1>8. c # z
  BY <1>2, <1>6, <1>7
<1>9. c + 1 \in 1..z /\ (c + 1) - 1 = c
  BY <1>8
<1> QED
  BY <1>1, <1>7, <1>9 DEF OnChain

\* The list that the searches go through is exact.
LEMMA ListIs ==
  ASSUME NEW h, NEW B, NEW R, NEW F, NEW r, Cut(B, R), Linked(h.array, h.avail, B, F, r)
  PROVE  Listed(h, F, Memory!FreeList(h))
<1>1. PICK link : Chain(h, F, link) /\ Along(Memory!FreeList(h), link)
  BY ChainIs
<1>2. PICK z \in Nat : z = Ints \div 4
  BY Quarters
<1>3. PICK list : list = Memory!FreeList(h)
  OBVIOUS
<1>4. PICK D : D = {k \in 1..z : link[k - 1] # 0}
  OBVIOUS
<1>5. DOMAIN list = D /\ D \subseteq 1..z /\ \A k \in D : list[k] = link[k - 1]
  BY <1>1, <1>2, <1>3, <1>4 DEF Along
<1>6. /\ link \in [0..z -> F \cup {0}] /\ link[0] = h.avail
      /\ \A m \in 1..z : link[m] = IF link[m - 1] = 0 THEN 0 ELSE h.array[link[m - 1] + 1]
      /\ 0 \notin F /\ \A m \in F : r[m] \in Int
      /\ \A m, k \in F : r[m] = r[k] => m = k
  BY <1>1, <1>2 DEF Chain, Linked
<1>7. \A k \in D : k - 1 \in 0..z /\ link[k - 1] \in F /\ link[k - 1] # 0
  BY <1>4, <1>6
<1>8. {list[k] : k \in D} = F
  <2>1. \A k \in D : list[k] \in F
    BY <1>5, <1>7
  <2>2. ASSUME NEW i \in F PROVE \E k \in D : list[k] = i
    <3>0. Cut(B, R) /\ Linked(h.array, h.avail, B, F, r) /\ Chain(h, F, link) /\ i \in F
      BY <1>1
    <3>1. OnChain(link, i)
      BY ONLY <3>0, ChainReaches
    <3>2. PICK k \in 1..z : link[k - 1] = i
      BY <1>2, <3>1 DEF OnChain
    <3>3. k \in D
      BY <1>4, <1>6, <3>2
    <3> QED
      BY <1>5, <3>2, <3>3
  <2> QED
    BY <2>1, <2>2
<1>9. ASSUME NEW j \in D, NEW k \in D, j < k PROVE list[j] # list[k]
  <2>1. j \in Int /\ k \in Int /\ j - 1 < k - 1
    BY <1>4, <1>9
  <2>2. r[link[k - 1]] < r[link[j - 1]] /\ r[link[j - 1]] \in Int /\ r[link[k - 1]] \in Int
    BY <1>1, <1>2, <1>6, <1>7, <2>1, ChainFalls
  <2>3. link[j - 1] # link[k - 1]
    BY <2>2
  <2> QED
    BY <1>5, <2>3
<1>10. ASSUME NEW j \in D, NEW k \in D, list[j] = list[k] PROVE j = k
  <2>1. j \in Int /\ k \in Int
    BY <1>4
  <2> QED
    BY <1>9, <1>10, <2>1
<1>11. ASSUME NEW k \in D
       PROVE  Memory!PrevFree(h, list[k]) = (IF k = 1 THEN 0 ELSE list[k - 1])
  <2>1. PICK i, v : i = link[k - 1] /\ v = h.array[i + 2]
    OBVIOUS
  <2>2. i = list[k] /\ i \in F /\ r[i] \in Int /\ Memory!PrevFree(h, list[k]) = v
    BY <1>5, <1>6, <1>7, <2>1 DEF Memory!PrevFree
  <2>3. Up(v, i, F, r)
    BY <2>1, <2>2 DEF Linked
  <2>4. CASE k = 1
    <3>0. i = h.avail
      BY <1>6, <2>1, <2>4
    <3>1. \A m \in F : r[m] <= r[i]
      BY <1>6, <2>2, <3>0 DEF Linked, Top
    <3>2. ~(v \in F /\ r[v] > r[i])
      BY <1>6, <2>2, <3>1
    <3> QED
      BY <2>2, <2>3, <2>4, <3>2 DEF Up
  <2>5. CASE k # 1
    <3>1. k - 1 \in 1..z /\ k - 1 \in 0..z /\ (k - 1) - 1 \in 0..z
      BY <1>4, <2>5
    <3>2. PICK m, c : m = k - 1 /\ c = link[m - 1]
      OBVIOUS
    <3>3. c # 0 /\ i = h.array[c + 1]
      BY <1>6, <2>1, <2>2, <3>1, <3>2
    <3>4. m \in D /\ list[m] = c /\ c \in F
      BY <1>4, <1>5, <1>7, <3>1, <3>2, <3>3
    <3>5. Down(i, c, F, r) /\ r[c] \in Int
      BY <1>6, <3>3, <3>4 DEF Linked
    <3>6. r[i] < r[c] /\ \A y \in F : r[y] >= r[c] \/ r[y] <= r[i]
      BY <1>6, <2>2, <3>5 DEF Down
    <3>7. v \in F /\ r[v] > r[i] /\ (r[c] <= r[i] \/ r[c] >= r[v])
      <4>1. v # 0
        BY <1>6, <2>2, <2>3, <3>4, <3>5, <3>6 DEF Up
      <4> QED
        BY <2>3, <3>4, <4>1 DEF Up
    <3>8. r[v] \in Int /\ (r[v] >= r[c] \/ r[v] <= r[i])
      BY <1>6, <3>6, <3>7
    <3>9. r[v] = r[c]
      BY <2>2, <3>5, <3>6, <3>7, <3>8
    <3>10. v = c
      BY <1>6, <3>4, <3>7, <3>9
    <3> QED
      BY <2>2, <2>5, <3>2, <3>4, <3>10
  <2> QED
    BY <2>4, <2>5
<1>12. DOMAIN list \subseteq 1..(Ints \div 4)
  BY <1>2, <1>5
<1>13. D = DOMAIN list
  BY <1>5
<1>14. Listed(h, F, list)
  BY ONLY <1>8, <1>10, <1>11, <1>12, <1>13 DEF Listed
<1> QED
  BY <1>3, <1>14

\* Both searches find a block that fits if there is one.
LEMMA FitFound ==
  ASSUME NEW h, NEW B, NEW R, NEW F, NEW r, Good(h, B, R, F, r), NEW ints \in Int, NEW it,
         it = Memory!FirstFit(h, ints) \/ it = Memory!BestFit(h, ints)
  PROVE  /\ it # 0 => it \in F /\ R[it] - it >= ints
         /\ it = 0 => \A i \in F : R[i] - i < ints
<1>1. Cut(B, R) /\ Tagged(h.array, B, R, F) /\ Linked(h.array, h.avail, B, F, r)
  BY DEF Good
<1>2. PICK list, D : list = Memory!FreeList(h) /\ D = DOMAIN list
  OBVIOUS
<1>3. Listed(h, F, list)
  BY <1>1, <1>2, ListIs
<1>4. {list[k] : k \in D} = F /\ D \subseteq Nat
  BY <1>2, <1>3, Quarters DEF Listed
<1>5. ASSUME NEW i \in F
      PROVE  Memory!Size(h, i) = R[i] - i /\ i # 0 /\ Memory!Size(h, i) \in Nat
  <2>1. i \in B /\ i # 0
    BY <1>1 DEF Linked
  <2>2. Memory!Size(h, i) = R[i] - i
    BY <1>1, <2>1, TagFacts
  <2>3. i \in Int /\ R[i] \in Int /\ R[i] >= i + 2
    BY <1>1, <2>1, CutFacts
  <2> QED
    BY <2>1, <2>2, <2>3
<1>6. PICK fit : fit = Memory!Fitting(h, ints)
  OBVIOUS
<1>7. fit = {k \in D : Memory!Size(h, list[k]) >= ints}
  BY <1>2, <1>6 DEF Memory!Fitting
<1>8. \A k \in fit : k \in D /\ list[k] \in F /\ list[k] # 0 /\ R[list[k]] - list[k] >= ints
  BY <1>4, <1>5, <1>7
<1>9. ASSUME fit = {}, NEW i \in F PROVE R[i] - i < ints
  <2>1. PICK k \in D : list[k] = i
    BY <1>4
  <2>2. ~(Memory!Size(h, i) >= ints)
    BY <1>7, <1>9, <2>1
  <2> QED
    BY <1>5, <2>2
<1>10. ASSUME fit # {} PROVE \E m \in fit : \A k \in fit : m <= k
  <2>1. fit \subseteq Nat
    BY <1>4, <1>7
  <2> QED
    BY <1>10, <2>1, Least
<1>11. CASE fit = {}
  <2>1. it = 0
    BY <1>6, <1>11 DEF Memory!FirstFit, Memory!BestFit
  <2> QED
    BY <1>9, <1>11, <2>1
<1>12. CASE fit # {} /\ it = Memory!FirstFit(h, ints)
  <2>1. PICK m : m = CHOOSE k \in fit : \A j \in fit : k <= j
    OBVIOUS
  <2>2. m \in fit
    BY <1>10, <1>12, <2>1
  <2>3. it = list[m]
    BY <1>2, <1>6, <1>12, <2>1 DEF Memory!FirstFit
  <2> QED
    BY <1>8, <2>2, <2>3
<1>13. CASE fit # {} /\ it = Memory!BestFit(h, ints)
  <2>1. PICK seen : seen = {k \in fit : Memory!Cardinality({j \in fit : j < k}) < CountDown}
    OBVIOUS
  <2>2. seen # {} /\ seen \subseteq fit
    <3>1. PICK k \in fit : \A j \in fit : k <= j
      BY <1>10, <1>13
    <3>2. fit \subseteq Nat
      BY <1>4, <1>7
    <3>3. \A j \in fit : k \in Nat /\ j \in Nat /\ k <= j
      BY <3>1, <3>2
    <3>4. \A j \in fit : ~(j < k)
      BY <3>3
    <3>5. {j \in fit : j < k} = {}
      BY <3>4
    <3>6. Memory!Cardinality({}) = Cardinality({}) /\ Cardinality({}) = 0
      BY FS_EmptySet DEF Memory!Cardinality, Cardinality
    <3>7. 0 < CountDown
      BY MemoryFacts
    <3> QED
      BY <2>1, <3>5, <3>6, <3>7
  <2>3. PICK Z : Z = {Memory!Size(h, list[k]) : k \in seen}
    OBVIOUS
  <2>4. Z \subseteq Nat /\ Z # {}
    BY <1>5, <1>8, <2>2, <2>3
  <2>5. PICK z \in Z : \A y \in Z : z <= y
    BY <2>4, Least
  <2>6. PICK Y : Y = {k \in seen : Memory!Size(h, list[k]) = z}
    OBVIOUS
  <2>7. Y \subseteq Nat /\ Y # {}
    BY <1>4, <1>7, <2>2, <2>3, <2>6
  <2>8. PICK c \in Y : \A y \in Y : c <= y
    BY <2>7, Least
  <2>9. PICK m : m = CHOOSE k \in seen : \A j \in seen :
                       ~(\/ Memory!Size(h, list[j]) < Memory!Size(h, list[k])
                         \/ Memory!Size(h, list[j]) = Memory!Size(h, list[k]) /\ j < k)
    OBVIOUS
  <2>10. \A j \in seen : ~(\/ Memory!Size(h, list[j]) < Memory!Size(h, list[c])
                           \/ Memory!Size(h, list[j]) = Memory!Size(h, list[c]) /\ j < c)
    <3>1. ASSUME NEW j \in seen
          PROVE  ~(\/ Memory!Size(h, list[j]) < Memory!Size(h, list[c])
                   \/ Memory!Size(h, list[j]) = Memory!Size(h, list[c]) /\ j < c)
      <4>1. PICK y : y = Memory!Size(h, list[j])
        OBVIOUS
      <4>2. y \in Z /\ y \in Nat /\ z \in Nat /\ z <= y /\ Memory!Size(h, list[c]) = z
        BY <2>3, <2>4, <2>5, <2>6, <4>1
      <4>3. y = z => j \in Y
        BY <2>6, <4>1
      <4>4. y = z => c <= j /\ c \in Nat /\ j \in Nat
        BY <2>7, <2>8, <4>3
      <4> QED
        BY <4>1, <4>2, <4>4
    <3> QED
      BY <3>1
  <2>11. c \in seen
    BY <2>6
  <2>12. m \in seen
    BY <2>9, <2>10, <2>11
  <2>13. it = list[m]
    BY <1>2, <1>6, <1>13, <2>1, <2>9 DEF Memory!BestFit
  <2> QED
    BY <1>8, <2>2, <2>12, <2>13
<1> QED
  BY <1>11, <1>12, <1>13

\* Where no available block fits, no run of ints outside the clients' blocks does.
LEMMA NoGap ==
  ASSUME NEW h, NEW B, NEW R, NEW F, NEW r, NEW T, Good(h, B, R, F, r), Owns(B, R, F, T),
         NEW ints \in Int, ints >= 4, \A b \in F : R[b] - b < ints,
         NEW i \in 2..(Ints - 2 - ints)
  PROVE  \E b \in DOMAIN T : ~(i + ints <= b) /\ ~(i >= T[b])
<1>1. Cut(B, R) /\ Linked(h.array, h.avail, B, F, r) /\ Spaced(R, F)
  BY DEF Good
<1>2. F \subseteq B
  BY <1>1 DEF Linked
<1>3. Ints \in Nat /\ i \in Nat /\ 2 <= i /\ i + ints <= Ints - 2
  BY MemoryFacts
<1>4. PICK S : S = {b \in B : b <= i}
  OBVIOUS
<1>5. S \subseteq 0..i /\ 0 \in S
  <2>1. \A b \in S : b \in B /\ b \in Int /\ 0 <= b /\ b <= i
    BY <1>1, <1>4, CutFacts
  <2>2. S \subseteq 0..i
    BY <1>3, <2>1
  <2>3. 0 \in B /\ 0 <= i
    BY <1>1, <1>3 DEF Cut
  <2> QED
    BY <1>4, <2>2, <2>3
<1>6. PICK b \in S : \A c \in S : c <= b
  BY <1>3, <1>5, Greatest
<1>7. b \in B /\ b <= i /\ b \in Int /\ R[b] \in Int /\ b # Ints - 2
  BY <1>1, <1>3, <1>4, CutFacts
<1>8. R[b] \in B /\ R[b] <= Ints - 2 /\ R[b] >= b + 2
  BY <1>1, <1>7, CutFacts
<1>9. i < R[b]
  <2>1. R[b] <= i => R[b] \in S
    BY <1>4, <1>8
  <2> QED
    BY <1>3, <1>6, <1>7, <1>8, <2>1
<1>10. b # 0
  BY <1>1, <1>3, <1>9 DEF Cut
<1>11. CASE b \notin F
  <2>1. b \in DOMAIN T /\ T[b] = R[b]
    BY <1>7, <1>10, <1>11 DEF Owns
  <2> QED
    BY <1>3, <1>7, <1>9, <2>1
<1>12. CASE b \in F
  <2>1. R[b] < i + ints
    BY <1>3, <1>7, <1>12
  <2>2. PICK c \in B : c = R[b]
    BY <1>8
  <2>3. c \notin F /\ c # 0 /\ c # Ints - 2 /\ c \in Int /\ R[c] \in Int /\ R[c] >= c + 2
    <3>1. c \notin F
      BY <1>1, <1>12, <2>2 DEF Spaced
    <3>2. c # 0 /\ c # Ints - 2
      BY <1>3, <1>7, <1>9, <2>1, <2>2
    <3> QED
      BY <1>1, <2>2, <3>1, <3>2, CutFacts
  <2>4. c \in DOMAIN T /\ T[c] = R[c]
    BY <2>3 DEF Owns
  <2> QED
    BY <1>3, <1>9, <2>1, <2>2, <2>3, <2>4
<1> QED
  BY <1>11, <1>12

\* right() goes from the first sentinel through all blocks to the end.
LEMMA HeadersAre ==
  ASSUME NEW h, NEW B, NEW R, NEW F, Cut(B, R), Tagged(h.array, B, R, F)
  PROVE  Memory!Headers(h) = B \cup {Ints}
<1>1. PICK z \in Nat : z = Ints \div 4 + 1
  BY Quarters
<1>2. PICK after : after = [i \in 0..Ints |->
          IF i \in Memory!Index /\ Memory!Right(h, i) \in Memory!Index
          THEN Memory!Right(h, i) ELSE Ints]
  OBVIOUS
<1>3. PICK S : S = B \cup {Ints}
  OBVIOUS
<1>4. /\ Ints \in Nat /\ Ints >= 8 /\ Memory!Index = 0..(Ints - 1)
      /\ Ints < 4 * (z - 1) + 4 /\ z >= 1
  BY <1>1, MemoryFacts, Quarters
<1>5. \A i \in B : /\ i \in Int /\ 0 <= i /\ i <= Ints - 2 /\ R[i] \in Int /\ R[i] >= i + 2
                   /\ R[i] <= Ints /\ i \in Memory!Index /\ R[i] \in S
  BY <1>3, CutFacts DEF Cut
<1>6. ASSUME NEW i \in B PROVE after[i] = R[i]
  <2>1. Memory!Right(h, i) = R[i] /\ i \in 0..Ints /\ i \in Memory!Index
    <3>1. Memory!Size(h, i) = R[i] - i
      BY TagFacts
    <3>2. Memory!Right(h, i) = i + Memory!Size(h, i)
      BY DEF Memory!Right
    <3>3. i \in Int /\ R[i] \in Int /\ 0 <= i /\ i <= Ints - 2 /\ i \in Memory!Index
      BY <1>5
    <3>4. i + (R[i] - i) = R[i]
      BY ONLY <3>3
    <3> QED
      BY <1>4, <3>1, <3>2, <3>3, <3>4
  <2>2. R[i] \in Memory!Index \/ R[i] = Ints
    BY <1>4, <1>5
  <2>3. Ints \notin Memory!Index
    BY <1>4
  <2> QED
    BY <1>2, <2>1, <2>2, <2>3
<1>7. after[Ints] = Ints
  BY <1>2, <1>4
<1>8. \A s \in S : after[s] \in S
  BY <1>3, <1>5, <1>6, <1>7
<1>9. 0 \in S
  BY <1>3 DEF Cut
<1>10. PICK A : A = [k \in 1..z |-> [s \in S |-> after[s]]]
  OBVIOUS
<1>11. Moves(S, z, A)
  BY <1>8, <1>10 DEF Moves
<1>12. PICK g : Iterated(0, z, A, g) /\ g \in [0..z -> S]
  BY <1>9, <1>11, Iterates
<1>13. g = [k \in 0..z |-> IF k = 0 THEN 0 ELSE after[g[k - 1]]]
  <2>1. \A k \in 0..z : k # 0 => k \in 1..z /\ g[k - 1] \in S
    BY <1>12
  <2>2. \A k \in 0..z : k # 0 => A[k][g[k - 1]] = after[g[k - 1]]
    BY <1>10, <2>1
  <2> QED
    BY <1>12, <2>2 DEF Iterated
<1>14. PICK step : step = CHOOSE f : f = [k \in 0..z |-> IF k = 0 THEN 0 ELSE after[f[k - 1]]]
  OBVIOUS
<1>15. step = [k \in 0..z |-> IF k = 0 THEN 0 ELSE after[step[k - 1]]]
  BY <1>13, <1>14
<1>16. Memory!Headers(h) = {step[k] : k \in 0..z}
  BY <1>1, <1>2, <1>14 DEF Memory!Headers
<1>17. step[0] = 0 /\ \A k \in 1..z : step[k] = after[step[k - 1]]
  BY <1>15
<1> DEFINE V == {k \in 0..z : step[k] \in S /\ (step[k] = Ints \/ step[k] >= 4 * k - 2)}
<1>18. \A k \in 0..z : k \in V
  <2>1. 0 \in V
    BY <1>9, <1>17
  <2>2. ASSUME NEW k \in 1..z, k - 1 \in V PROVE k \in V
    <3>1. PICK s \in S : s = step[k - 1] /\ (s = Ints \/ s >= 4 * (k - 1) - 2)
      BY <2>2
    <3>2. step[k] = after[s] /\ step[k] \in S /\ k \in 0..z
      BY <1>8, <1>17, <3>1
    <3>3. CASE s = Ints
      BY <1>7, <3>2, <3>3
    <3>4. CASE s \in B /\ s = Ints - 2
      <4>1. R[s] = Ints
        BY <3>4 DEF Cut
      <4> QED
        BY <1>6, <3>2, <3>4, <4>1
    <3>5. CASE s \in B /\ s = 0
      <4>1. R[s] = 2 /\ k = 1
        <5>1. R[s] = 2
          BY <3>5 DEF Cut
        <5> QED
          BY <1>4, <3>1, <3>5, <5>1
      <4> QED
        BY <1>6, <3>2, <3>5, <4>1
    <3>6. CASE s \in B /\ s # 0 /\ s # Ints - 2
      <4>1. R[s] >= s + 4 /\ s \in Int /\ R[s] \in Int /\ s # Ints
        BY <1>4, <1>5, <3>6 DEF Cut
      <4>2. R[s] >= 4 * k - 2
        BY <3>1, <4>1
      <4> QED
        BY <1>6, <3>2, <3>6, <4>2
    <3> QED
      BY <1>3, <3>3, <3>4, <3>5, <3>6
  <2>3. \A k \in 1..z : k - 1 \in V => k \in V
    BY <2>2
  <2> HIDE DEF V
  <2> QED
    BY <2>1, <2>3, UpTo
<1>19. step[z] = Ints
  <2>1. step[z] \in S /\ (step[z] = Ints \/ step[z] >= 4 * z - 2)
    BY <1>18
  <2>2. PICK s : s = step[z]
    OBVIOUS
  <2>3. s \in B => s \in Int /\ s <= Ints - 2
    BY <1>5
  <2>4. s \in Int /\ s <= Ints - 2 => ~(s >= 4 * z - 2)
    BY <1>4
  <2> QED
    BY <1>3, <2>1, <2>2, <2>3, <2>4
<1>20. ASSUME NEW b \in S PROVE \E k \in 0..z : step[k] = b
  <2>1. b \in Int /\ 0 <= b /\ b <= Ints
    BY <1>3, <1>4, <1>5
  <2> DEFINE W == {k \in 0..z : (\E c \in 0..z : step[c] = b) \/ step[k] < b}
  <2>2. 0 \in W
    <3>1. b = 0 \/ 0 < b
      BY <2>1
    <3> QED
      BY <1>17, <3>1
  <2>3. ASSUME NEW k \in 1..z, k - 1 \in W PROVE k \in W
    <3>1. k \in 0..z /\ k - 1 \in 0..z
      OBVIOUS
    <3>2. CASE step[k - 1] < b
      <4>1. PICK s \in S : s = step[k - 1]
        BY <1>18, <3>1
      <4>2. s \in B /\ s < b
        BY <1>3, <1>4, <2>1, <3>2, <4>1
      <4>3. R[s] <= b
        BY <1>3, <1>5, <4>2 DEF Cut
      <4>4. step[k] = R[s] /\ R[s] \in Int
        BY <1>5, <1>6, <1>17, <4>1, <4>2
      <4>5. step[k] = b \/ step[k] < b
        BY <2>1, <4>3, <4>4
      <4> QED
        BY <3>1, <4>5
    <3> QED
      BY <2>3, <3>1, <3>2
  <2>4. \A k \in 0..z : k \in W
    <3>1. \A k \in 1..z : k - 1 \in W => k \in W
      BY <2>3
    <3> HIDE DEF W
    <3> QED
      BY <2>2, <3>1, UpTo
  <2>5. z \in W /\ ~(step[z] < b)
    BY <1>4, <1>19, <2>1, <2>4
  <2> QED
    BY <2>5
<1> QED
  <2>1. \A k \in 0..z : step[k] \in S
    BY <1>18
  <2> QED
    BY <1>3, <1>16, <1>20, <2>1

\* A client at p, in a block that reaches to e, finds what it stored, in a block large enough.
Holds(a, p, e, c) ==
  /\ c.data \in Seq(Int) /\ Len(c.data) <= e - p - 1
  /\ \A k \in 1..Len(c.data) : a[p + k - 1] = c.data[k]
  /\ c.bytes \in Int /\ 4 * (e - p - 1) >= c.bytes

\* The clients of L have the blocks of T and find their data.
Kept(a, T, L) ==
  /\ \A p \in DOMAIN L : p \in Int /\ p - 1 \in DOMAIN T /\ Holds(a, p, T[p - 1], L[p])
  /\ \A i \in DOMAIN T : i + 1 \in DOMAIN L

\* The heap is consistent and serves the clients of L.
Serves(h, L) == \E T : State(h, T) /\ Kept(h.array, T, L)

\* Where the clients' blocks are, and what their tags say.
LEMMA OwnFacts ==
  ASSUME NEW h, NEW T, State(h, T)
  PROVE  /\ Array(h.array)
         /\ \A i \in DOMAIN T : /\ i \in Int /\ T[i] \in Int /\ i >= 2 /\ T[i] >= i + 4
                                /\ T[i] <= Ints - 2
                                /\ Memory!Size(h, i) = T[i] - i /\ Memory!IsTaken(h, i)
<1>1. PICK B, R, F, r : Good(h, B, R, F, r) /\ Owns(B, R, F, T)
  BY DEF State
<1>2. IsHeap(h) /\ Cut(B, R) /\ Tagged(h.array, B, R, F)
  BY <1>1 DEF Good
<1>3. ASSUME NEW i \in DOMAIN T
      PROVE  /\ i \in Int /\ T[i] \in Int /\ i >= 2 /\ T[i] >= i + 4
             /\ T[i] <= Ints - 2
             /\ Memory!Size(h, i) = T[i] - i /\ Memory!IsTaken(h, i)
  <2>1. i \in B /\ i \notin F /\ i # 0 /\ i # Ints - 2 /\ T[i] = R[i]
    BY <1>1 DEF Owns
  <2>2. i \in Int /\ R[i] \in Int /\ i >= 2 /\ R[i] >= i + 4 /\ R[i] <= Ints - 2
    BY <1>2, <2>1, CutFacts
  <2>3. Memory!Size(h, i) = R[i] - i
    BY <1>2, <2>1, TagFacts
  <2>4. Memory!IsTaken(h, i) <=> i \notin F
    BY <1>2, <2>1, TagFacts
  <2> QED
    BY <2>1, <2>2, <2>3, <2>4
<1> QED
  BY <1>2, <1>3 DEF IsHeap

\* A client whose block stays as it is finds what it stored.
LEMMA HeldStill ==
  ASSUME NEW a, NEW b, NEW p \in Int, NEW e \in Int, NEW c, Holds(a, p, e, c), p >= 1, e <= Ints,
         \A j \in Memory!Index : p - 1 <= j /\ j < e => b[j] = a[j]
  PROVE  Holds(b, p, e, c)
<1>1. PICK l \in Nat : l = Len(c.data)
  BY DEF Holds
<1>2. l <= e - p - 1 /\ \A k \in 1..l : a[p + k - 1] = c.data[k]
  BY <1>1 DEF Holds
<1>3. ASSUME NEW k \in 1..l PROVE b[p + k - 1] = c.data[k]
  <2>1. PICK j \in Int : j = p + k - 1
    OBVIOUS
  <2>2. j \in Memory!Index /\ p - 1 <= j /\ j < e
    BY <1>2, <2>1, MemoryFacts
  <2> QED
    BY <1>2, <2>1, <2>2
<1> QED
  BY <1>1, <1>3 DEF Holds

\* A block for so many bytes has room for them: bytes + 3 does not wrap.
LEMMA RoomFor ==
  ASSUME NEW bytes \in Requests
  PROVE  /\ bytes \in Nat /\ Memory!IntsFor(bytes) \in Nat /\ Memory!IntsFor(bytes) >= 4
         /\ Memory!DataInts(bytes) \in Nat
         /\ Memory!DataInts(bytes) <= Memory!IntsFor(bytes) - 2
         /\ 4 * (Memory!IntsFor(bytes) - 2) >= bytes
<1>1. bytes \in Nat /\ bytes + 3 \in Nat /\ bytes + 3 < SizeMod /\ SizeMod \in Nat \ {0}
  BY MemoryFacts
<1>2. (bytes + 3) % SizeMod = bytes + 3
  BY <1>1
<1>3. PICK q \in Nat : q = (bytes + 3) \div 4 /\ bytes + 3 < 4 * q + 4
  BY <1>1, Quarters
<1>4. Memory!DataInts(bytes) = q
  BY <1>3 DEF Memory!DataInts
<1>5. Memory!IntsFor(bytes) = IF q + 2 < 4 THEN 4 ELSE q + 2
  BY <1>2, <1>3 DEF Memory!IntsFor
<1> QED
  BY <1>1, <1>3, <1>4, <1>5

\* malloc() returns 0 only where no run of so many ints is outside the blocks of T.
Refuses(T, ints) ==
  \A i \in 2..(Ints - 2 - ints) : \E b \in DOMAIN T : ~(i + ints <= b) /\ ~(i >= T[b])

\* malloc() finds a block or there is none.
LEMMA AllocSound ==
  ASSUME NEW h, NEW T, State(h, T), NEW bytes \in Requests, NEW ans,
         ans = Memory!Alloc(h, bytes)
  PROVE  /\ ans.ptr \in Int
         /\ ans.ptr = 0 => Refuses(T, Memory!IntsFor(bytes))
         /\ ans.ptr # 0 => Grants(h, T, ans.heap, ans.ptr - 1, Memory!IntsFor(bytes))
<1>1. PICK B, R, F, r : Good(h, B, R, F, r) /\ Owns(B, R, F, T)
  BY DEF State
<1>2. PICK ints \in Int : ints = Memory!IntsFor(bytes) /\ ints >= 4
  BY RoomFor
<1>3. PICK it : it = IF kind = "kernel" THEN Memory!BestFit(h, ints) ELSE Memory!FirstFit(h, ints)
  OBVIOUS
<1>4. /\ it # 0 => it \in F /\ R[it] - it >= ints
      /\ it = 0 => \A i \in F : R[i] - i < ints
  <2>1. it = Memory!FirstFit(h, ints) \/ it = Memory!BestFit(h, ints)
    BY <1>3
  <2> QED
    BY <1>1, <2>1, FitFound
<1>5. ans = IF it = 0 THEN [heap |-> h, ptr |-> 0]
            ELSE [heap |-> Memory!Take(h, it, ints), ptr |-> it + 1]
  BY <1>2, <1>3 DEF Memory!Alloc
<1>6. CASE it = 0
  <2>1. ans.ptr = 0
    BY <1>5, <1>6
  <2>2. Refuses(T, ints)
    <3>1. \A b \in F : R[b] - b < ints
      BY <1>4, <1>6
    <3> QED
      BY <1>1, <1>2, <3>1, NoGap DEF Refuses
  <2> QED
    BY <1>2, <2>1, <2>2
<1>7. CASE it # 0
  <2>1. it \in F /\ R[it] - it >= ints /\ it \in Int /\ it >= 2
    <3>1. Cut(B, R) /\ Linked(h.array, h.avail, B, F, r)
      BY <1>1 DEF Good
    <3> QED
      BY <1>4, <1>7, <3>1, LinkFacts
  <2>2. ans.heap = Memory!Take(h, it, ints) /\ ans.ptr = it + 1
    BY <1>5, <1>7
  <2>3. Grants(h, T, Memory!Take(h, it, ints), it, ints)
    BY <1>1, <1>2, <2>1, TakeSound
  <2>4. ans.ptr \in Int /\ ans.ptr - 1 = it /\ ans.ptr # 0
    BY <2>1, <2>2
  <2>5. Grants(h, T, ans.heap, ans.ptr - 1, ints)
    BY <2>2, <2>3, <2>4
  <2> QED
    BY <1>2, <2>4, <2>5
<1> QED
  BY <1>6, <1>7

\* The client at p stores w in all of its bytes.
Filled(g, p, bytes, w, b) ==
  b = [j \in Memory!Index |->
         IF j \in p..(p + Memory!DataInts(bytes) - 1) THEN w ELSE g.array[j]]

\* M are the clients of L and the new one.
Joined(L, p, bytes, w, M) ==
  M = [q \in DOMAIN L \cup {p} |->
         IF q = p THEN [bytes |-> bytes, data |-> [k \in 1..Memory!DataInts(bytes) |-> w]]
         ELSE L[q]]

\* malloc() serves one more client, whatever it writes into its block.
LEMMA MallocSound ==
  ASSUME NEW h, NEW T, NEW L, State(h, T), Kept(h.array, T, L), NEW g, NEW p \in Int,
         NEW bytes \in Requests, Grants(h, T, g, p - 1, Memory!IntsFor(bytes)),
         NEW w \in Int, NEW b, Filled(g, p, bytes, w, b), NEW M, Joined(L, p, bytes, w, M)
  PROVE  Serves([g EXCEPT !.array = b], M)
<1>0. PICK d :
        /\ d = [k \in 1..Memory!DataInts(bytes) |-> w]
        /\ b = [j \in Memory!Index |->
                  IF j \in p..(p + Memory!DataInts(bytes) - 1) THEN w ELSE g.array[j]]
        /\ M = [q \in DOMAIN L \cup {p} |->
                  IF q = p THEN [bytes |-> bytes, data |-> d] ELSE L[q]]
  BY DEF Filled, Joined
<1>1. PICK m, ints : m = Memory!DataInts(bytes) /\ ints = Memory!IntsFor(bytes)
  OBVIOUS
<1>2. /\ bytes \in Nat /\ ints \in Nat /\ ints >= 4 /\ m \in Nat /\ m <= ints - 2
      /\ 4 * (ints - 2) >= bytes
  BY <1>1, RoomFor
<1>3. PICK i \in Int : i = p - 1 /\ i + 1 = p
  OBVIOUS
<1>4. PICK e, U : /\ e \in Int /\ i \notin DOMAIN T /\ e - i >= ints
                  /\ U = [k \in DOMAIN T \cup {i} |-> IF k = i THEN e ELSE T[k]]
                  /\ State(g, U) /\ Spared(h.array, g.array, T)
  BY <1>1, <1>3 DEF Grants
<1>5. DOMAIN U = DOMAIN T \cup {i} /\ U[i] = e /\ \A k \in DOMAIN T : U[k] = T[k] /\ k # i
  BY <1>4
<1>6. /\ Array(g.array) /\ i >= 2 /\ e <= Ints - 2
      /\ \A k \in DOMAIN T : k \in Int /\ T[k] \in Int /\ k >= 2 /\ T[k] <= Ints - 2
  BY <1>4, <1>5, OwnFacts
<1>7. Ints \in Nat /\ Memory!Index = 0..(Ints - 1)
  BY MemoryFacts
<1>8. Array(b)
  BY <1>0, <1>6 DEF Array
<1>9. \A j \in Memory!Index : ~(i < j /\ j < U[i] - 1) => b[j] = g.array[j]
  <2>1. \A j \in Int : j \in p..(p + m - 1) => i < j /\ j < e - 1
    BY <1>2, <1>3, <1>4
  <2> QED
    BY <1>0, <1>1, <1>5, <1>7, <2>1
<1>10. PICK f : f = [g EXCEPT !.array = b]
  OBVIOUS
<1>11. /\ State(f, U) /\ f.array = b
       /\ \A k \in DOMAIN U : k # i =>
            \A j \in Memory!Index : k <= j /\ j < U[k] => b[j] = g.array[j]
  <2>1. State(g, U) /\ i \in DOMAIN U
    BY <1>4, <1>5
  <2> QED
    BY <1>8, <1>9, <1>10, <2>1, WriteSound
<1>12. Holds(b, p, e, M[p])
  <2>1. M[p] = [bytes |-> bytes, data |-> d]
    BY <1>0
  <2>2. M[p].data = d /\ M[p].bytes = bytes
    BY <2>1
  <2>3. d \in Seq(Int) /\ Len(d) = m /\ \A k \in 1..m : d[k] = w
    BY <1>0, <1>1, <1>2
  <2>4. ASSUME NEW k \in 1..m PROVE b[p + k - 1] = d[k]
    <3>1. p + k - 1 \in Memory!Index /\ p + k - 1 \in p..(p + m - 1)
      BY <1>2, <1>3, <1>4, <1>6, <1>7
    <3> QED
      BY <1>0, <1>1, <2>3, <3>1
  <2>5. m <= e - p - 1 /\ 4 * (e - p - 1) >= bytes /\ bytes \in Int
    BY <1>2, <1>3, <1>4
  <2>6. PICK c : c = M[p]
    OBVIOUS
  <2>7. /\ c.data \in Seq(Int) /\ Len(c.data) = m /\ c.bytes = bytes
        /\ \A k \in 1..m : b[p + k - 1] = c.data[k]
    BY <2>2, <2>3, <2>4, <2>6
  <2>8. Holds(b, p, e, c)
    BY ONLY <2>5, <2>7 DEF Holds
  <2> QED
    BY <2>6, <2>8
<1>13. ASSUME NEW q \in DOMAIN L
       PROVE  q \in Int /\ q - 1 \in DOMAIN T /\ q # p /\ Holds(b, q, T[q - 1], L[q])
  <2>1. q \in Int /\ q - 1 \in DOMAIN T /\ Holds(h.array, q, T[q - 1], L[q])
    BY DEF Kept
  <2>2. q # p /\ q - 1 # i
    BY <1>3, <1>4, <2>1
  <2>3. PICK k \in DOMAIN T : k = q - 1
    BY <2>1
  <2>4. q >= 1 /\ T[k] \in Int /\ T[k] <= Ints
    BY <1>6, <1>7, <2>1, <2>3
  <2>5. \A j \in Memory!Index : k <= j /\ j < T[k] => b[j] = h.array[j]
    BY <1>4, <1>5, <1>11 DEF Spared
  <2> QED
    BY <2>1, <2>2, <2>3, <2>4, <2>5, HeldStill
<1>14. Kept(b, U, M)
  <2>1. DOMAIN M = DOMAIN L \cup {p} /\ \A q \in DOMAIN L : q # p => M[q] = L[q]
    BY <1>0
  <2>2. ASSUME NEW q \in DOMAIN M
        PROVE  q \in Int /\ q - 1 \in DOMAIN U /\ Holds(b, q, U[q - 1], M[q])
    BY <1>3, <1>5, <1>12, <1>13, <2>1
  <2>3. ASSUME NEW k \in DOMAIN U PROVE k + 1 \in DOMAIN M
    BY <1>3, <1>5, <2>1 DEF Kept
  <2> QED
    BY <2>2, <2>3 DEF Kept
<1> QED
  BY <1>10, <1>11, <1>14 DEF Serves

\* free() serves the others as before.
LEMMA FreeSound ==
  ASSUME NEW h, NEW T, NEW L, State(h, T), Kept(h.array, T, L), NEW p \in DOMAIN L, NEW M,
         M = [q \in DOMAIN L \ {p} |-> L[q]]
  PROVE  Serves(Memory!Freed(h, p), M)
<1>1. p \in Int /\ p - 1 \in DOMAIN T
  BY DEF Kept
<1>2. PICK x \in DOMAIN T : x = p - 1
  BY <1>1
<1>3. \A i \in DOMAIN T : i \in Int /\ T[i] \in Int /\ i >= 2 /\ T[i] <= Ints - 2
  BY OwnFacts
<1>4. PICK g : g = Memory!Freed(h, p)
  OBVIOUS
<1>5. g = Memory!Release(h, x)
  BY <1>2, <1>4, OwnFacts DEF Memory!Freed
<1>6. PICK U : U = [k \in DOMAIN T \ {x} |-> T[k]]
  OBVIOUS
<1>7. State(g, U) /\ Spared(h.array, g.array, U)
  BY <1>5, <1>6, ReleaseSound
<1>8. ASSUME NEW q \in DOMAIN M
      PROVE  q \in Int /\ q - 1 \in DOMAIN U /\ Holds(g.array, q, U[q - 1], M[q])
  <2>1. q \in DOMAIN L /\ q # p /\ M[q] = L[q]
    OBVIOUS
  <2>2. q \in Int /\ q - 1 \in DOMAIN T /\ Holds(h.array, q, T[q - 1], L[q])
    BY <2>1 DEF Kept
  <2>3. PICK k \in DOMAIN U : k = q - 1 /\ k \in DOMAIN T /\ U[k] = T[k]
    BY <1>1, <1>2, <1>6, <2>1, <2>2
  <2>4. q >= 1 /\ T[k] \in Int /\ T[k] <= Ints
    BY <1>3, <2>2, <2>3, MemoryFacts
  <2>5. \A j \in Memory!Index : k <= j /\ j < T[k] => g.array[j] = h.array[j]
    BY <1>7, <2>3 DEF Spared
  <2> QED
    BY <2>1, <2>2, <2>3, <2>4, <2>5, HeldStill
<1>9. ASSUME NEW k \in DOMAIN U PROVE k + 1 \in DOMAIN M
  <2>1. k \in DOMAIN T /\ k # x /\ k \in Int
    BY <1>3, <1>6
  <2>2. k + 1 \in DOMAIN L /\ k + 1 # p
    BY <1>1, <1>2, <2>1 DEF Kept
  <2> QED
    BY <2>2
<1>10. Kept(g.array, U, M)
  BY <1>8, <1>9 DEF Kept
<1> QED
  BY <1>4, <1>7, <1>10 DEF Serves

\* realloc() copies to v what the client has at p, as far as the old block goes.
Copied(h, g, p, v, bytes, f) ==
  f = Memory!Copy(g, v, p, IF Memory!DataInts(bytes) < Memory!Size(h, p - 1)
                           THEN Memory!DataInts(bytes) ELSE Memory!Size(h, p - 1))

\* M are the clients of L, the one at p at v now.
Moved(L, p, v, bytes, f, M) ==
  M = [q \in (DOMAIN L \ {p}) \cup {v} |->
         IF q = v THEN [bytes |-> bytes,
                        data  |-> [k \in 1..Memory!DataInts(bytes) |->
                                     IF k \in DOMAIN L[p].data THEN L[p].data[k]
                                     ELSE f.array[v + k - 1]]]
         ELSE L[q]]

\* realloc() serves the client at its new place, with the data of the old one.
LEMMA ReallocSound ==
  ASSUME NEW h, NEW T, NEW L, State(h, T), Kept(h.array, T, L), NEW p \in DOMAIN L, NEW g,
         NEW v \in Int, NEW bytes \in Requests, Grants(h, T, g, v - 1, Memory!IntsFor(bytes)),
         NEW f, Copied(h, g, p, v, bytes, f), NEW M, Moved(L, p, v, bytes, f, M)
  PROVE  Serves(Memory!Freed(f, p), M)
<1>0. PICK m, d :
        /\ m = IF Memory!DataInts(bytes) < Memory!Size(h, p - 1) THEN Memory!DataInts(bytes)
               ELSE Memory!Size(h, p - 1)
        /\ f = Memory!Copy(g, v, p, m)
        /\ d = [k \in 1..Memory!DataInts(bytes) |->
                  IF k \in DOMAIN L[p].data THEN L[p].data[k] ELSE f.array[v + k - 1]]
        /\ M = [q \in (DOMAIN L \ {p}) \cup {v} |->
                  IF q = v THEN [bytes |-> bytes, data |-> d] ELSE L[q]]
  BY DEF Copied, Moved
<1>1. PICK z, ints : z = Memory!DataInts(bytes) /\ ints = Memory!IntsFor(bytes)
  OBVIOUS
<1>2. /\ bytes \in Nat /\ ints \in Nat /\ ints >= 4 /\ z \in Nat /\ z <= ints - 2
      /\ 4 * (ints - 2) >= bytes
  BY <1>1, RoomFor
<1>3. PICK i \in Int : i = v - 1 /\ i + 1 = v
  OBVIOUS
<1>4. PICK e, U : /\ e \in Int /\ i \notin DOMAIN T /\ e - i >= ints
                  /\ U = [k \in DOMAIN T \cup {i} |-> IF k = i THEN e ELSE T[k]]
                  /\ State(g, U) /\ Spared(h.array, g.array, T)
  BY <1>1, <1>3 DEF Grants
<1>5. DOMAIN U = DOMAIN T \cup {i} /\ U[i] = e /\ \A k \in DOMAIN T : U[k] = T[k] /\ k # i
  BY <1>4
<1>6. /\ Array(g.array) /\ i >= 2 /\ e <= Ints - 2
      /\ \A k \in DOMAIN T : k \in Int /\ T[k] \in Int /\ k >= 2 /\ T[k] <= Ints - 2
  BY <1>4, <1>5, OwnFacts
<1>7. Ints \in Nat /\ Memory!Index = 0..(Ints - 1)
  BY MemoryFacts
<1>8. p \in Int /\ p - 1 \in DOMAIN T /\ Holds(h.array, p, T[p - 1], L[p])
  BY DEF Kept
<1>9. PICK x \in DOMAIN T : x = p - 1 /\ x + 1 = p
  BY <1>8
<1>10. /\ x \in Int /\ T[x] \in Int /\ T[x] >= x + 4 /\ T[x] <= Ints - 2 /\ x >= 2 /\ x # i
       /\ m = (IF z < T[x] - x THEN z ELSE T[x] - x)
  <2>1. Memory!Size(h, x) = T[x] - x /\ T[x] >= x + 4
    BY OwnFacts
  <2> QED
    BY <1>0, <1>1, <1>5, <1>6, <1>9, <2>1
<1>11. m \in Nat /\ m <= z /\ m <= T[x] - x
  BY <1>2, <1>10
<1>12. PICK b : b = [j \in Memory!Index |->
                       IF j \in v..(v + m - 1) THEN g.array[p + j - v] ELSE g.array[j]]
  OBVIOUS
<1>13. f = [g EXCEPT !.array = b]
  BY <1>0, <1>12 DEF Memory!Copy
<1>14. Array(b)
  <2>1. ASSUME NEW j \in Memory!Index PROVE b[j] \in Int
    <3>1. CASE j \in v..(v + m - 1)
      <4>1. p + j - v \in Memory!Index
        <5>1. PICK t \in Int : t = T[x]
          BY <1>10
        <5>2. t <= Ints - 2 /\ x >= 2 /\ x + 1 = p /\ x \in Int /\ p \in Int /\ Ints \in Int
          BY <1>7, <1>8, <1>9, <1>10, <5>1
        <5>3. m \in Nat /\ m <= t - x
          BY <1>11, <5>1
        <5>4. v \in Int /\ j \in v..(v + m - 1)
          BY <3>1
        <5>5. p + j - v \in 0..(Ints - 1)
          BY ONLY <5>1, <5>2, <5>3, <5>4
        <5> QED
          BY <1>7, <5>5
      <4> QED
        BY <1>6, <1>12, <3>1, <4>1 DEF Array
    <3>2. CASE j \notin v..(v + m - 1)
      BY <1>6, <1>12, <3>2 DEF Array
    <3> QED
      BY <3>1, <3>2
  <2> QED
    BY <1>12, <2>1 DEF Array
<1>15. \A j \in Memory!Index : ~(i < j /\ j < U[i] - 1) => b[j] = g.array[j]
  <2>1. \A j \in Int : j \in v..(v + m - 1) => i < j /\ j < e - 1
    BY <1>2, <1>3, <1>4, <1>11
  <2> QED
    BY <1>5, <1>7, <1>12, <2>1
<1>16. /\ State(f, U) /\ f.array = b
       /\ \A k \in DOMAIN U : k # i =>
            \A j \in Memory!Index : k <= j /\ j < U[k] => b[j] = g.array[j]
  <2>1. State(g, U) /\ i \in DOMAIN U
    BY <1>4, <1>5
  <2>2. /\ State([g EXCEPT !.array = b], U) /\ [g EXCEPT !.array = b].array = b
        /\ \A k \in DOMAIN U : k # i =>
             \A j \in Memory!Index : k <= j /\ j < U[k] => b[j] = g.array[j]
    BY <1>14, <1>15, <2>1, WriteSound
  <2> QED
    BY <1>13, <2>2
<1>17. PICK V : V = [k \in DOMAIN U \ {x} |-> U[k]]
  OBVIOUS
<1>18. PICK y : y = Memory!Freed(f, p)
  OBVIOUS
<1>19. State(y, V) /\ Spared(b, y.array, V)
  <2>1. State(f, U) /\ x \in DOMAIN U
    BY <1>5, <1>16
  <2>2. Memory!IsTaken(f, x)
    BY <2>1, OwnFacts
  <2>3. y = Memory!Release(f, x)
    BY <1>9, <1>18, <2>2 DEF Memory!Freed
  <2>4. State(Memory!Release(f, x), V) /\ Spared(f.array, Memory!Release(f, x).array, V)
    BY <1>17, <2>1, ReleaseSound
  <2> QED
    BY <1>16, <2>3, <2>4
<1>20. /\ DOMAIN V = (DOMAIN T \cup {i}) \ {x} /\ V[i] = e /\ i \in DOMAIN V
       /\ \A k \in DOMAIN T : k # x => V[k] = T[k]
  BY <1>5, <1>10, <1>17
<1>21. \A j \in Memory!Index : i <= j /\ j < e => y.array[j] = b[j]
  BY <1>19, <1>20 DEF Spared
<1>22. ASSUME NEW k \in 1..z, k \in DOMAIN L[p].data
       PROVE  L[p].data[k] \in Int /\ b[v + k - 1] = L[p].data[k]
  <2>1. PICK c : c = L[p].data
    OBVIOUS
  <2>2. /\ c \in Seq(Int) /\ Len(c) <= T[x] - p - 1
        /\ \A j \in 1..Len(c) : h.array[p + j - 1] = c[j]
    BY <1>8, <1>9, <2>1 DEF Holds
  <2>3. k \in 1..Len(c) /\ Len(c) \in Nat /\ c[k] \in Int
    BY <1>22, <2>1, <2>2
  <2>4. k <= m
    <3>1. PICK t \in Int, l \in Int : t = T[x] /\ l = Len(c)
      BY <1>10, <2>3
    <3>2. /\ p \in Int /\ x \in Int /\ x + 1 = p /\ l <= t - p - 1 /\ k \in 1..l
          /\ k \in 1..z /\ z \in Int
      BY <1>2, <1>8, <1>9, <1>10, <2>2, <2>3, <3>1
    <3>3. m = z \/ m = t - x
      BY <1>10, <3>1
    <3> QED
      BY ONLY <3>1, <3>2, <3>3
  <2>5. PICK j \in Int : j = v + k - 1
    OBVIOUS
  <2>6. j \in v..(v + m - 1) /\ j \in Memory!Index
    BY <1>2, <1>3, <1>4, <1>6, <1>7, <1>11, <2>4, <2>5
  <2>7. p + j - v = p + k - 1 /\ p + k - 1 \in Memory!Index /\ x <= p + k - 1 /\ p + k - 1 < T[x]
    <3>1. PICK t \in Int, l \in Int : t = T[x] /\ l = Len(c)
      BY <1>10, <2>3
    <3>2. /\ p \in Int /\ x \in Int /\ x + 1 = p /\ x >= 2 /\ t <= Ints - 2 /\ l <= t - p - 1
          /\ k \in 1..l /\ Ints \in Int
      BY <1>7, <1>8, <1>9, <1>10, <2>2, <2>3, <3>1
    <3>3. p + k - 1 \in 0..(Ints - 1) /\ x <= p + k - 1 /\ p + k - 1 < t
      BY ONLY <3>1, <3>2
    <3> QED
      BY <1>7, <1>8, <2>5, <3>1, <3>3
  <2>8. b[j] = g.array[p + k - 1]
    BY <1>12, <2>6, <2>7
  <2>9. g.array[p + k - 1] = h.array[p + k - 1]
    BY <1>4, <2>7 DEF Spared
  <2> QED
    BY <2>1, <2>2, <2>3, <2>5, <2>8, <2>9
<1>23. ASSUME NEW k \in 1..z PROVE d[k] \in Int /\ y.array[v + k - 1] = d[k]
  <2>1. PICK j \in Int : j = v + k - 1
    OBVIOUS
  <2>2. j \in Memory!Index /\ i <= j /\ j < e
    BY <1>2, <1>3, <1>4, <1>6, <1>7, <2>1
  <2>3. b[j] \in Int /\ y.array[j] = b[j]
    BY <1>14, <1>21, <2>2 DEF Array
  <2>4. d[k] = IF k \in DOMAIN L[p].data THEN L[p].data[k] ELSE b[j]
    BY <1>0, <1>1, <1>16, <2>1
  <2> QED
    BY <1>22, <2>1, <2>3, <2>4
<1>24. Holds(y.array, v, e, M[v])
  <2>1. PICK c : c = M[v]
    OBVIOUS
  <2>2. c = [bytes |-> bytes, data |-> d]
    BY <1>0, <2>1
  <2>3. d \in [1..z -> Int]
    BY <1>0, <1>1, <1>23
  <2>4. d \in Seq(Int) /\ Len(d) = z
    <3>1. z \in Nat
      BY <1>2
    <3> QED
      BY ONLY <2>3, <3>1
  <2>5. /\ c.data \in Seq(Int) /\ Len(c.data) = z /\ c.bytes = bytes
        /\ \A k \in 1..z : y.array[v + k - 1] = c.data[k]
    BY <1>23, <2>2, <2>4
  <2>6. z <= e - v - 1 /\ 4 * (e - v - 1) >= bytes /\ bytes \in Int
    BY <1>2, <1>3, <1>4
  <2>7. Holds(y.array, v, e, c)
    BY ONLY <2>5, <2>6 DEF Holds
  <2> QED
    BY <2>1, <2>7
<1>25. ASSUME NEW q \in DOMAIN L, q # p
       PROVE  /\ q \in Int /\ q # v /\ q - 1 \in DOMAIN V /\ V[q - 1] = T[q - 1]
              /\ Holds(y.array, q, T[q - 1], L[q])
  <2>1. q \in Int /\ q - 1 \in DOMAIN T /\ Holds(h.array, q, T[q - 1], L[q])
    BY DEF Kept
  <2>2. PICK k \in DOMAIN T : k = q - 1
    BY <2>1
  <2>3. q # v /\ k # i /\ k # x
    BY <1>3, <1>5, <1>8, <1>9, <1>25, <2>1, <2>2
  <2>4. k \in DOMAIN V /\ V[k] = T[k] /\ k \in DOMAIN U /\ U[k] = T[k]
    BY <1>5, <1>20, <2>3
  <2>5. q >= 1 /\ T[k] \in Int /\ T[k] <= Ints
    BY <1>6, <1>7, <2>1, <2>2
  <2>6. ASSUME NEW j \in Memory!Index, k <= j, j < T[k] PROVE y.array[j] = h.array[j]
    <3>1. g.array[j] = h.array[j]
      BY <1>4, <2>6 DEF Spared
    <3>2. b[j] = g.array[j]
      BY <1>16, <2>3, <2>4, <2>6
    <3>3. y.array[j] = b[j]
      BY <1>19, <2>4, <2>6 DEF Spared
    <3> QED
      BY <3>1, <3>2, <3>3
  <2> QED
    BY <2>1, <2>2, <2>3, <2>4, <2>5, <2>6, HeldStill
<1>26. Kept(y.array, V, M)
  <2>1. /\ DOMAIN M = (DOMAIN L \ {p}) \cup {v}
        /\ \A q \in DOMAIN L : q # p /\ q # v => M[q] = L[q]
    BY <1>0
  <2>2. ASSUME NEW q \in DOMAIN M
        PROVE  q \in Int /\ q - 1 \in DOMAIN V /\ Holds(y.array, q, V[q - 1], M[q])
    <3>1. CASE q = v
      BY <1>3, <1>20, <1>24, <3>1
    <3>2. CASE q # v
      BY <1>25, <2>1, <3>2
    <3> QED
      BY <3>1, <3>2
  <2>3. ASSUME NEW k \in DOMAIN V PROVE k + 1 \in DOMAIN M
    <3>1. CASE k = i
      BY <1>3, <2>1, <3>1
    <3>2. CASE k # i
      <4>1. k \in DOMAIN T /\ k # x
        BY <1>20, <3>2
      <4>2. k + 1 \in DOMAIN L /\ k \in Int
        BY <1>6, <4>1 DEF Kept
      <4>3. k + 1 # p
        BY <1>9, <1>10, <4>1, <4>2
      <4> QED
        BY <2>1, <4>2, <4>3
    <3> QED
      BY <3>1, <3>2
  <2> QED
    BY <2>2, <2>3 DEF Kept
<1> QED
  BY <1>18, <1>19, <1>26 DEF Serves

\* The heap is consistent and serves its clients, and a malloc() that just failed had to.
MemoryInv ==
  /\ kind \in Kinds /\ failed \in Nat /\ Memory!FailsOnlyWhenFull
  /\ Serves(heap, live)

\* heap_init(): two sentinels and one available block between them.
LEMMA MemoryStart ==
  ASSUME Memory!Init
  PROVE  MemoryInv
<1>1. Ints \in Nat /\ Ints >= 8 /\ Memory!Index = 0..(Ints - 1)
  BY MemoryFacts
<1>2. PICK h0 : h0 = [array |-> [i \in Memory!Index |-> 0], avail |-> 0]
  OBVIOUS
<1>3. PICK h1 : /\ h1 = Memory!MakeTaken(h0, 0, 2) /\ IsHeap(h1) /\ h1.avail = 0
                /\ \A j \in Memory!Index : h1.array[j] = IF j = 0 \/ j = 1 THEN -2 ELSE 0
  <2>1. IsHeap(h0) /\ 0 \in Memory!Index /\ 2 \in Int /\ 2 - 1 \in Memory!Index
    BY <1>1, <1>2 DEF IsHeap, Array
  <2>2. PICK g : /\ g = Memory!MakeTaken(h0, 0, 2 - 0) /\ IsHeap(g) /\ g.avail = h0.avail
                 /\ \A j \in Memory!Index :
                      g.array[j] = IF j = 0 \/ j = 2 - 1 THEN 0 - 2 ELSE h0.array[j]
    BY ONLY <2>1, TakenIs
  <2> QED
    BY <1>2, <2>2
<1>4. PICK s \in Int : s = Ints - 4
  BY <1>1
<1>5. PICK a : /\ a \in [Memory!Index -> Int]
               /\ Memory!MakeAvail(h1, 2, s) = [array |-> a, avail |-> 2]
               /\ \A j \in Memory!Index :
                    a[j] = IF j = 0 \/ j = 1 THEN -2 ELSE IF j = 2 \/ j = Ints - 3 THEN s ELSE 0
  <2>1. PICK c : c = Memory!Dead(h1.array, 2, s)
    OBVIOUS
  <2>2. c = [j \in Memory!Index |-> IF j = 0 \/ j = 1 THEN -2 ELSE 0]
    BY <1>1, <1>3, <1>4, <2>1 DEF Memory!Dead
  <2>3. PICK a : a = [c EXCEPT ![2] = s, ![Ints - 3] = s, ![3] = 0, ![4] = 0]
    OBVIOUS
  <2>4. /\ a \in [Memory!Index -> Int]
        /\ \A j \in Memory!Index :
             a[j] = IF j = 0 \/ j = 1 THEN -2 ELSE IF j = 2 \/ j = Ints - 3 THEN s ELSE 0
    <3>1. PICK t \in Memory!Index : t = Ints - 3 /\ t > 4
      BY <1>1
    <3>2. c \in [Memory!Index -> Int] /\ {2, 3, 4} \subseteq Memory!Index
      BY <1>1, <2>2
    <3>3. /\ a \in [Memory!Index -> Int]
          /\ \A j \in Memory!Index :
               a[j] = IF j = 4 \/ j = 3 THEN 0 ELSE IF j = t \/ j = 2 THEN s ELSE c[j]
      BY <2>3, <3>1, <3>2
    <3>4. \A j \in Memory!Index : c[j] = IF j = 0 \/ j = 1 THEN -2 ELSE 0
      BY <2>2
    <3> QED
      BY <3>1, <3>3, <3>4
  <2>5. [a EXCEPT ![2] = @] = a
    BY <2>4
  <2>6. 2 + s - 1 = Ints - 3
    BY <1>1, <1>4
  <2>7. Memory!MakeAvail(h1, 2, s) = [array |-> a, avail |-> 2]
    BY <1>3, <2>1, <2>3, <2>5, <2>6 DEF Memory!MakeAvail
  <2> QED
    BY <2>4, <2>7
<1>6. PICK h2 : h2 = [array |-> a, avail |-> 2]
  OBVIOUS
<1>7. PICK h : /\ h = Memory!MakeTaken(h2, Ints - 2, 2) /\ IsHeap(h) /\ h.avail = 2
               /\ \A j \in Memory!Index :
                    h.array[j] = IF j = Ints - 2 \/ j = Ints - 1 THEN -2 ELSE a[j]
  <2>1. PICK i \in Memory!Index, c \in Int : i = Ints - 2 /\ c = Ints
    BY <1>1
  <2>2. IsHeap(h2) /\ i \in Memory!Index /\ c \in Int /\ c - 1 \in Memory!Index
    BY <1>1, <1>5, <1>6, <2>1 DEF IsHeap, Array
  <2>3. PICK g : /\ g = Memory!MakeTaken(h2, i, c - i) /\ IsHeap(g) /\ g.avail = h2.avail
                 /\ \A j \in Memory!Index :
                      g.array[j] = IF j = i \/ j = c - 1 THEN i - c ELSE h2.array[j]
    BY ONLY <2>2, TakenIs
  <2>4. c - i = 2 /\ i - c = -2
    BY <1>1, <2>1
  <2> QED
    BY <1>6, <2>1, <2>3, <2>4
<1>8. heap = h
  BY <1>2, <1>3, <1>4, <1>5, <1>6, <1>7 DEF Memory!Init
<1>9. PICK B, F : B = {0, 2, Ints - 2} /\ F = {2}
  OBVIOUS
<1>10. PICK R, r : /\ R = [b \in B |-> IF b = 0 THEN 2 ELSE IF b = 2 THEN Ints - 2 ELSE Ints]
                   /\ r = [b \in F |-> 0]
  OBVIOUS
<1>11. R[0] = 2 /\ R[2] = Ints - 2 /\ R[Ints - 2] = Ints
  BY <1>1, <1>9, <1>10
<1>12. Cut(B, R)
  BY <1>1, <1>9, <1>11 DEF Cut
<1>13. /\ h.array[0] = -2 /\ h.array[1] = -2 /\ h.array[2] = Ints - 4 /\ h.array[3] = 0
       /\ h.array[4] = 0 /\ h.array[Ints - 3] = Ints - 4 /\ h.array[Ints - 2] = -2
       /\ h.array[Ints - 1] = -2
  BY <1>1, <1>4, <1>5, <1>7
<1>14. Tagged(h.array, B, R, F)
  <2>1. ASSUME NEW i \in B
        PROVE  h.array[i] = (IF i \in F THEN R[i] - i ELSE i - R[i])
               /\ h.array[R[i] - 1] = h.array[i]
    <3>1. CASE i = 0
      BY <1>9, <1>11, <1>13, <3>1
    <3>2. CASE i = 2
      <4>1. (Ints - 2) - 2 = Ints - 4 /\ (Ints - 2) - 1 = Ints - 3
        BY <1>1
      <4> QED
        BY <1>9, <1>11, <1>13, <3>2, <4>1
    <3>3. CASE i = Ints - 2
      <4>1. (Ints - 2) - Ints = -2 /\ Ints - 2 # 2
        BY <1>1
      <4> QED
        BY <1>9, <1>11, <1>13, <3>3, <4>1
    <3> QED
      BY <1>9, <3>1, <3>2, <3>3
  <2> QED
    BY <2>1 DEF Tagged
<1>15. Linked(h.array, h.avail, B, F, r)
  <2>1. F \subseteq B /\ 0 \notin F /\ Ints - 2 \notin F
    BY <1>1, <1>9
  <2>2. \A i \in F : i = 2 /\ r[i] = 0
    BY <1>9, <1>10
  <2>3. Top(h.avail, F, r)
    BY <1>7, <1>9, <2>2 DEF Top
  <2>4. Down(h.array[3], 2, F, r) /\ Up(h.array[4], 2, F, r)
    BY <1>9, <1>13, <2>2 DEF Down, Up
  <2>5. \A i \in F : Down(h.array[i + 1], i, F, r) /\ Up(h.array[i + 2], i, F, r)
    <3>1. 2 + 1 = 3 /\ 2 + 2 = 4
      OBVIOUS
    <3> QED
      BY <2>2, <2>4, <3>1
  <2> QED
    BY <2>1, <2>2, <2>3, <2>5 DEF Linked
<1>16. Spaced(R, F)
  BY <1>1, <1>9, <1>11 DEF Spaced
<1>17. PICK T : T = [i \in {} |-> 0]
  OBVIOUS
<1>18. Owns(B, R, F, T)
  BY <1>9, <1>17 DEF Owns
<1>19. State(h, T)
  BY <1>7, <1>12, <1>14, <1>15, <1>16, <1>18 DEF Good, State
<1>20. DOMAIN live = {} /\ failed = 0 /\ kind \in Kinds
  BY DEF Memory!Init
<1>21. Kept(h.array, T, live)
  BY <1>17, <1>20 DEF Kept
<1>22. Memory!FailsOnlyWhenFull
  BY <1>20 DEF Memory!FailsOnlyWhenFull
<1> QED
  BY <1>8, <1>19, <1>20, <1>21, <1>22 DEF MemoryInv, Serves

\* malloc(), free() and realloc() keep it.
LEMMA MemoryStep ==
  ASSUME MemoryInv, Memory!Next
  PROVE  MemoryInv'
<1>1. PICK T : State(heap, T) /\ Kept(heap.array, T, live)
  BY DEF MemoryInv, Serves
<1>2. ASSUME kind' = kind, failed' = 0, Serves(heap', live') PROVE MemoryInv'
  BY <1>2 DEF MemoryInv, Memory!FailsOnlyWhenFull
<1>3. ASSUME NEW bytes \in Requests, NEW w \in Words, Memory!Malloc(bytes, w)
      PROVE  MemoryInv'
  <2>1. PICK ans : ans = Memory!Alloc(heap, bytes)
    OBVIOUS
  <2>2. /\ ans.ptr \in Int
        /\ ans.ptr = 0 => Refuses(T, Memory!IntsFor(bytes))
        /\ ans.ptr # 0 => Grants(heap, T, ans.heap, ans.ptr - 1, Memory!IntsFor(bytes))
    BY <1>1, <2>1, AllocSound
  <2>3. CASE ans.ptr = 0
    <3>1. /\ failed' = Memory!IntsFor(bytes) /\ heap' = heap /\ live' = live /\ kind' = kind
      BY <1>3, <2>1, <2>3 DEF Memory!Malloc
    <3>2. PICK ints \in Nat : ints = Memory!IntsFor(bytes)
      BY RoomFor
    <3>3. ASSUME NEW i \in 2..(Ints - 2 - ints),
                 \A p \in DOMAIN live : \/ i + ints <= p - 1
                                        \/ i >= p - 1 + Memory!Size(heap, p - 1)
          PROVE  FALSE
      <4>1. PICK b \in DOMAIN T : ~(i + ints <= b) /\ ~(i >= T[b])
        BY <2>2, <2>3, <3>2 DEF Refuses
      <4>2. b \in Int /\ T[b] \in Int /\ Memory!Size(heap, b) = T[b] - b
        BY <1>1, OwnFacts
      <4>3. PICK p \in DOMAIN live : p = b + 1
        BY <1>1 DEF Kept
      <4>4. p - 1 = b /\ b + (T[b] - b) = T[b]
        BY <4>2, <4>3
      <4> QED
        BY <3>3, <4>1, <4>2, <4>4
    <3>4. ~ \E i \in 2..(Ints - 2 - ints) :
               \A p \in DOMAIN live : \/ i + ints <= p - 1
                                      \/ i >= p - 1 + Memory!Size(heap, p - 1)
      BY <3>3
    <3>5. Memory!FailsOnlyWhenFull'
      BY <3>1, <3>2, <3>4 DEF Memory!FailsOnlyWhenFull, Memory!Size
    <3> QED
      BY <3>1, <3>2, <3>5 DEF MemoryInv
  <2>4. CASE ans.ptr # 0
    <3>1. PICK p, g : p = ans.ptr /\ g = ans.heap
      OBVIOUS
    <3>2. PICK b : Filled(g, p, bytes, w, b)
      BY DEF Filled
    <3>3. /\ failed' = 0 /\ kind' = kind /\ heap' = [g EXCEPT !.array = b]
          /\ Joined(live, p, bytes, w, live')
      BY <1>3, <2>1, <2>4, <3>1, <3>2 DEF Memory!Malloc, Memory!With, Filled, Joined
    <3>4. p \in Int /\ w \in Int /\ Grants(heap, T, g, p - 1, Memory!IntsFor(bytes))
      <4>1. Grants(heap, T, g, p - 1, Memory!IntsFor(bytes))
        BY <2>2, <2>4, <3>1
      <4>2. w \in Int
        BY MemoryFacts
      <4>3. p \in Int
        BY <2>2, <3>1
      <4> QED
        BY <4>1, <4>2, <4>3
    <3>5. Serves([g EXCEPT !.array = b], live')
      <4>1. PICK M : M = live'
        OBVIOUS
      <4>2. /\ State(heap, T) /\ Kept(heap.array, T, live) /\ p \in Int /\ bytes \in Requests
            /\ Grants(heap, T, g, p - 1, Memory!IntsFor(bytes)) /\ w \in Int
            /\ Filled(g, p, bytes, w, b) /\ Joined(live, p, bytes, w, M)
        BY <1>1, <3>2, <3>3, <3>4, <4>1
      <4>3. Serves([g EXCEPT !.array = b], M)
        BY ONLY <4>2, MallocSound
      <4> QED
        BY <4>1, <4>3
    <3> QED
      BY <1>2, <3>3, <3>5
  <2> QED
    BY <2>3, <2>4
<1>4. ASSUME NEW p \in DOMAIN live, Memory!Free(p) PROVE MemoryInv'
  <2>1. /\ heap' = Memory!Freed(heap, p) /\ failed' = 0 /\ kind' = kind
        /\ live' = [q \in DOMAIN live \ {p} |-> live[q]]
    BY <1>4 DEF Memory!Free, Memory!Without
  <2>2. Serves(Memory!Freed(heap, p), live')
    BY <1>1, <2>1, FreeSound
  <2> QED
    BY <1>2, <2>1, <2>2
<1>5. ASSUME NEW p \in DOMAIN live, NEW bytes \in Requests, Memory!Realloc(p, bytes)
      PROVE  MemoryInv'
  <2>1. PICK ans : ans = Memory!Alloc(heap, bytes)
    OBVIOUS
  <2>2. /\ ans.ptr \in Int
        /\ ans.ptr # 0 => Grants(heap, T, ans.heap, ans.ptr - 1, Memory!IntsFor(bytes))
    BY <1>1, <2>1, AllocSound
  <2>3. CASE heap' = Memory!Freed(heap, p) /\ live' = Memory!Without(p)
    <3>1. live' = [q \in DOMAIN live \ {p} |-> live[q]]
      BY <2>3 DEF Memory!Without
    <3>2. Serves(Memory!Freed(heap, p), live')
      BY <1>1, <3>1, FreeSound
    <3> QED
      BY <1>2, <1>5, <2>3, <3>2 DEF Memory!Realloc
  <2>4. CASE ans.ptr # 0
    <3>1. PICK v, g : v = ans.ptr /\ g = ans.heap
      OBVIOUS
    <3>2. PICK m, d :
            /\ m = IF Memory!DataInts(bytes) < Memory!Size(heap, p - 1)
                   THEN Memory!DataInts(bytes) ELSE Memory!Size(heap, p - 1)
            /\ d = [k \in 1..Memory!DataInts(bytes) |->
                      IF k \in DOMAIN live[p].data THEN live[p].data[k]
                      ELSE Memory!Copy(g, v, p, m).array[v + k - 1]]
      OBVIOUS
    <3>3. PICK f : f = Memory!Copy(g, v, p, m)
      OBVIOUS
    <3>4. /\ heap' = Memory!Freed(f, p) /\ failed' = 0 /\ kind' = kind
          /\ live' = Memory!With(Memory!Without(p), v, bytes, d)
      BY <1>5, <2>1, <2>4, <3>1, <3>2, <3>3 DEF Memory!Realloc
    <3>5. PICK M : M = live'
      OBVIOUS
    <3>6. Moved(live, p, v, bytes, f, M)
      <4>1. PICK o : o = Memory!Without(p)
        OBVIOUS
      <4>2. DOMAIN o = DOMAIN live \ {p} /\ \A q \in DOMAIN o : o[q] = live[q]
        BY <4>1 DEF Memory!Without
      <4>3. M = [q \in DOMAIN o \cup {v} |->
                   IF q = v THEN [bytes |-> bytes, data |-> d] ELSE o[q]]
        BY <3>4, <3>5, <4>1 DEF Memory!With
      <4>4. M = [q \in (DOMAIN live \ {p}) \cup {v} |->
                   IF q = v THEN [bytes |-> bytes, data |-> d] ELSE live[q]]
        BY <4>2, <4>3
      <4> QED
        BY <3>2, <3>3, <4>4 DEF Moved
    <3>7. /\ State(heap, T) /\ Kept(heap.array, T, live) /\ v \in Int /\ bytes \in Requests
          /\ p \in DOMAIN live /\ Grants(heap, T, g, v - 1, Memory!IntsFor(bytes))
          /\ Copied(heap, g, p, v, bytes, f)
      BY <1>1, <2>2, <2>4, <3>1, <3>2, <3>3 DEF Copied
    <3>8. Serves(Memory!Freed(f, p), M)
      BY ONLY <3>6, <3>7, ReallocSound
    <3> QED
      BY <1>2, <3>4, <3>5, <3>8
  <2> QED
    BY <1>5, <2>1, <2>3, <2>4 DEF Memory!Realloc
<1> QED
  BY <1>3, <1>4, <1>5 DEF Memory!Next

\* Whatever clients ask for, store and give back, the tags of both heaps cut the array into
\* blocks, the list holds the available ones, the clients' blocks are apart, and each client
\* finds what it stored (heap.cc, t0.dir/sbin/heap.c).
THEOREM MemoryInvariant == Spec => []MemoryInv
<1>1. Init => MemoryInv
  BY MemoryStart DEF Init
<1>2. MemoryInv /\ [Next]_vars => MemoryInv'
  <2>1. SUFFICES ASSUME MemoryInv, [Next]_vars PROVE MemoryInv'
    OBVIOUS
  <2>2. CASE UNCHANGED memory
    <3>1. kind' = kind /\ heap' = heap /\ live' = live /\ failed' = failed
      BY <2>2 DEF memory
    <3> QED
      BY <2>1, <3>1 DEF MemoryInv, Memory!FailsOnlyWhenFull, Memory!Size
  <2>3. CASE Memory!Next
    BY <2>1, <2>3, MemoryStep
  <2> QED
    BY <2>1, <2>2, <2>3 DEF Next, vars
<1> QED
  BY <1>1, <1>2, PTL DEF Spec

\* The blocks as the code finds them.
LEMMA Consistent ==
  ASSUME MemoryInv
  PROVE  Memory!HeapConsistent
<1>1. PICK T : State(heap, T) /\ Kept(heap.array, T, live)
  BY DEF MemoryInv, Serves
<1>2. PICK B, R, F, r : Good(heap, B, R, F, r) /\ Owns(B, R, F, T)
  BY <1>1 DEF State
<1>3. /\ IsHeap(heap) /\ Cut(B, R) /\ Tagged(heap.array, B, R, F)
      /\ Linked(heap.array, heap.avail, B, F, r) /\ Spaced(R, F)
  BY <1>2 DEF Good
<1>4. Ints \in Nat /\ Ints >= 8 /\ Memory!Index = 0..(Ints - 1)
  BY MemoryFacts
<1>5. ASSUME NEW i \in B
      PROVE  /\ Memory!Right(heap, i) = R[i] /\ R[i] <= Ints /\ i \in Memory!Index
             /\ heap.array[i] = heap.array[R[i] - 1]
             /\ (Memory!IsTaken(heap, i) <=> i \notin F)
             /\ (Memory!IsAvail(heap, i) <=> i \in F)
  <2>1. Memory!Size(heap, i) = R[i] - i
    <3>1. i \in Int /\ R[i] \in Int /\ R[i] >= i + 2
      BY <1>3, CutFacts
    <3>2. heap.array[i] = IF i \in F THEN R[i] - i ELSE i - R[i]
      BY <1>3 DEF Tagged
    <3> QED
      BY <3>1, <3>2 DEF Memory!Size
  <2>2. (Memory!IsTaken(heap, i) <=> i \notin F) /\ (Memory!IsAvail(heap, i) <=> i \in F)
    BY <1>3, TagFacts
  <2>3. i \in Int /\ R[i] \in Int /\ R[i] <= Ints /\ i \in Memory!Index
    BY <1>3, CutFacts
  <2>4. Memory!Right(heap, i) = i + Memory!Size(heap, i)
    BY DEF Memory!Right
  <2>5. i + (R[i] - i) = R[i]
    BY ONLY <2>3
  <2>6. heap.array[i] = heap.array[R[i] - 1]
    BY <1>3 DEF Tagged
  <2> QED
    BY <2>1, <2>2, <2>3, <2>4, <2>5, <2>6
<1>6. PICK H : H = Memory!Headers(heap)
  OBVIOUS
<1>7. H = B \cup {Ints} /\ H \ {Ints} = B
  <2>1. H = B \cup {Ints}
    BY <1>3, <1>6, HeadersAre
  <2>2. Ints \notin B
    BY <1>4, <1>5
  <2> QED
    BY <2>1, <2>2
<1>8. F \subseteq B /\ 0 \notin F /\ Ints - 2 \notin F /\ 0 \in B /\ Ints - 2 \in B
  BY <1>3 DEF Linked, Cut
<1>9. \A i \in DOMAIN T : i \in Int /\ T[i] \in Int /\ i >= 2 /\ T[i] >= i + 4 /\ T[i] <= Ints - 2
  BY <1>1, OwnFacts
<1>10. Memory!TypeOK
  <2>1. heap.avail \in {0} \cup 2..(Ints - 6)
    <3>1. \A i \in F : i \in Int /\ i >= 2 /\ i + 4 <= R[i] /\ R[i] <= Ints - 2 /\ R[i] \in Int
      BY <1>3, LinkFacts
    <3>2. heap.avail = 0 \/ heap.avail \in F
      BY <1>3, LinkFacts
    <3> QED
      BY <1>4, <3>1, <3>2
  <2>2. ASSUME NEW p \in DOMAIN live PROVE p \in Memory!Index
    <3>1. PICK i \in DOMAIN T : p \in Int /\ i = p - 1
      BY <1>1 DEF Kept
    <3>2. i \in Int /\ T[i] \in Int /\ i >= 2 /\ T[i] >= i + 4 /\ T[i] <= Ints - 2
      BY <1>9
    <3> QED
      BY <1>4, <3>1, <3>2
  <2>3. heap.array \in [Memory!Index -> Int]
    BY <1>3 DEF IsHeap, Array
  <2> QED
    BY <2>1, <2>2, <2>3 DEF Memory!TypeOK, MemoryInv
<1>11. Memory!BlocksTile
  <2>1. \A i \in B : (Memory!IsTaken(heap, i) <=> i = 0 \/ i = Ints - 2 \/ i \in DOMAIN T)
    BY <1>2, <1>5, <1>8 DEF Owns
  <2>2. DOMAIN T \subseteq B
    BY <1>2 DEF Owns
  <2>3. DOMAIN T = {p - 1 : p \in DOMAIN live}
    <3>1. ASSUME NEW i \in DOMAIN T PROVE \E p \in DOMAIN live : i = p - 1
      <4>1. i + 1 \in DOMAIN live /\ i \in Int
        BY <1>1, <1>9 DEF Kept
      <4>2. i = (i + 1) - 1
        BY ONLY <4>1
      <4> QED
        BY <4>1, <4>2
    <3>2. \A p \in DOMAIN live : p - 1 \in DOMAIN T
      BY <1>1 DEF Kept
    <3> QED
      BY <3>1, <3>2
  <2>4. {i \in B : Memory!IsTaken(heap, i)} = {0, Ints - 2} \cup {p - 1 : p \in DOMAIN live}
    BY <1>8, <2>1, <2>2, <2>3
  <2>5. Ints \in H
    BY <1>7
  <2>6. \A i \in B : /\ i \in Memory!Index /\ Memory!Right(heap, i) <= Ints
                     /\ heap.array[i] = heap.array[Memory!Right(heap, i) - 1]
    BY <1>5
  <2> QED
    BY <1>6, <1>7, <2>4, <2>5, <2>6 DEF Memory!BlocksTile
<1>12. Memory!FreeListExact
  <2>1. PICK list : list = Memory!FreeList(heap)
    OBVIOUS
  <2>2. Listed(heap, F, list)
    BY <1>3, <2>1, ListIs
  <2>3. {i \in B : Memory!IsAvail(heap, i)} = F
    BY <1>5, <1>8
  <2>4. ASSUME NEW k \in DOMAIN list PROVE Memory!IsTaken(heap, Memory!Right(heap, list[k]))
    <3>1. PICK i \in F : i = list[k]
      BY <2>2 DEF Listed
    <3>2. i \in B /\ R[i] \in B /\ R[i] \notin F
      <4>1. R[i] \in B
        BY <1>3, LinkFacts
      <4> QED
        BY <1>3, <1>8, <4>1 DEF Spaced
    <3>3. Memory!Right(heap, i) = R[i] /\ Memory!IsTaken(heap, R[i])
      BY <1>5, <3>2
    <3> QED
      BY <3>1, <3>3
  <2> QED
    BY <1>6, <1>7, <2>1, <2>2, <2>3, <2>4 DEF Memory!FreeListExact, Listed
<1> QED
  BY <1>10, <1>11, <1>12 DEF Memory!HeapConsistent, MemoryInv

\* After every sequence of calls the tags, the list and the search of both heaps agree: blocks
\* without gap or overlap, footers that equal headers, every available block in the list once
\* and none next to another, and a malloc that fails only when it must.
THEOREM HeapIsConsistent == Spec => []HeapConsistent
<1>1. MemoryInv => HeapConsistent
  BY Consistent DEF HeapConsistent
<1> QED
  BY <1>1, MemoryInvariant, PTL

\* A client of malloc and realloc finds the data that it stored in a block that has the bytes it
\* asked for, whatever the others allocate, free, resize or store.
THEOREM DataIsIntact == Spec => []DataIntact
<1>1. ASSUME MemoryInv PROVE DataIntact
  <2>1. PICK T : State(heap, T) /\ Kept(heap.array, T, live)
    BY <1>1 DEF MemoryInv, Serves
  <2>2. ASSUME NEW p \in DOMAIN live
        PROVE  /\ Memory!Stored(heap, p, Len(live[p].data)) = live[p].data
               /\ 4 * (Memory!Size(heap, p - 1) - 2) >= live[p].bytes
    <3>1. PICK i \in DOMAIN T : p \in Int /\ i = p - 1 /\ Holds(heap.array, p, T[i], live[p])
      BY <2>1 DEF Kept
    <3>2. i \in Int /\ T[i] \in Int /\ Memory!Size(heap, i) = T[i] - i
      BY <2>1, OwnFacts
    <3>3. PICK c, l : c = live[p].data /\ l = Len(c)
      OBVIOUS
    <3>4. c \in Seq(Int) /\ \A k \in 1..l : heap.array[p + k - 1] = c[k]
      BY <3>1, <3>3 DEF Holds
    <3>5. c = [k \in 1..l |-> c[k]]
      BY ONLY <3>3, <3>4
    <3>6. Memory!Stored(heap, p, l) = c
      BY <3>4, <3>5 DEF Memory!Stored
    <3>7. T[i] - i - 2 = T[i] - p - 1
      BY <3>1, <3>2
    <3>8. 4 * (T[i] - p - 1) >= live[p].bytes
      BY <3>1 DEF Holds
    <3> QED
      BY <3>1, <3>2, <3>3, <3>6, <3>7, <3>8
  <2> QED
    BY <2>2 DEF DataIntact, Memory!DataIntact
<1> QED
  BY <1>1, MemoryInvariant, PTL
=============================================================================
