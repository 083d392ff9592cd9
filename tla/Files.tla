------------------------------- MODULE Files -------------------------------
(***************************************************************************)
(* File descriptors (kernel/process.h) and the system calls open, close,   *)
(* read and seek (kernel/sys.cc), with the sharing of descriptors that fork*)
(* creates.  A read has a step for each load and store of the offset,      *)
(* because other processes run between any two of them, most of all while  *)
(* it waits for the disk, and nothing locks a shared descriptor.           *)
(*                                                                         *)
(* There is one file, of FileSize bytes.  uint32_t arithmetic is modulo    *)
(* Word.  A descriptor in 0..NumConsoles-1 is a console when it is valid.  *)
(***************************************************************************)
EXTENDS Integers, FiniteSets

CONSTANTS
  Procs,        \* processes
  Root,         \* the one that is there at first; the others are forked
  Descs,        \* the FileDescriptors that open can make, each used once
  NumConsoles,  \* 3
  NumFds,       \* 10
  FileSize,     \* size_in_bytes()
  Sizes,        \* the values of nbyte
  Offsets,      \* the arguments of seek
  Word,         \* 2^32
  None

Fds == 0..(NumFds - 1)

\* Assumed by the modules that give the constants their values.
FilesAssumption ==
  /\ Root \in Procs
  /\ Descs \cap ({None} \cup (Procs \X Fds)) = {}   \* a console is none that open makes
  /\ NumConsoles \in Nat /\ NumFds \in Nat \ {0} /\ NumConsoles <= NumFds
  /\ Word \in Nat /\ FileSize \in 0..(Word - 1)
  /\ Sizes \subseteq 0..(Word - 1)
  /\ Offsets \subseteq 0..(Word - 1)

VARIABLES
  pc,         \* pc[p]: where the thread of p is
  fd,         \* fd[p]: Shared<FileDescriptor> fd[10]; <<p, i>> is a console of p's PCB
  refCount,   \* refCount[d] of the descriptors of files
  offset,     \* offset[d]
  made,       \* the FileDescriptors that have been made
  marker,     \* marker[p]: the descriptor read works on
  nbyte,      \* nbyte[p]: the parameter of read, which it may clamp
  at,         \* at[p]: the offset read_all() was called with
  ret,        \* ret[p]: what read_all() returned
  sum,        \* sum[p]: the offset read is about to store
  failure,    \* why the kernel stopped, or "none"
  asked,      \* asked[p]: the nbyte of the caller (history)
  moved       \* moved[p]: the offset was stored after p tested it, before its last load of it
              \* (history)

readVars == <<marker, nbyte, at, ret, sum, asked>>
vars == <<pc, fd, refCount, offset, made, readVars, moved, failure>>

\* The constructor of PCB.
NewTable(p) == [i \in Fds |-> IF i < NumConsoles THEN <<p, i>> ELSE None]

Init ==
  /\ pc = [p \in Procs |-> IF p = Root THEN "user" ELSE "unborn"]
  /\ fd = [p \in Procs |-> NewTable(p)]
  /\ refCount = [d \in Descs |-> 0]
  /\ offset = [d \in Descs |-> 0]
  /\ made = {}
  /\ marker = [p \in Procs |-> None]
  /\ nbyte = [p \in Procs |-> 0]
  /\ at = [p \in Procs |-> 0]
  /\ ret = [p \in Procs |-> 0]
  /\ sum = [p \in Procs |-> 0]
  /\ failure = "none"
  /\ asked = [p \in Procs |-> 0]
  /\ moved = [p \in Procs |-> FALSE]

Call(p) == failure = "none" /\ pc[p] = "user"

IsFile(d) == d \in Descs

Slots(d) == {e \in Procs \X Fds : fd[e[1]][e[2]] = d}

\* A store to the offset of d.
SetOffset(d, o) ==
  /\ offset' = [offset EXCEPT ![d] = o]
  /\ moved' = [p \in Procs |-> moved[p] \/ (marker[p] = d /\ pc[p] \in {"readClamp", "readCall"})]

-----------------------------------------------------------------------------
(* fork, open, close and seek; len changes nothing *)

\* Faulty: the slots are copied without the add() of Shared<>.
ForkWithoutAdd(p, q) ==
  /\ Call(p)
  /\ pc[q] = "unborn"
  /\ pc' = [pc EXCEPT ![q] = "user"]
  /\ fd' = [fd EXCEPT ![q] = fd[p]]
  /\ UNCHANGED <<refCount, offset, made, readVars, moved, failure>>

\* fork: the child shares every descriptor of its parent, the offset included.
Fork(p, q) ==
  /\ Call(p)
  /\ pc[q] = "unborn"
  /\ pc' = [pc EXCEPT ![q] = "user"]
  /\ fd' = [fd EXCEPT ![q] = fd[p]]
  /\ refCount' = [d \in Descs |-> refCount[d] + Cardinality({i \in Fds : fd[p][i] = d})]
  /\ UNCHANGED <<offset, made, readVars, moved, failure>>

\* open of an existing file: the first free slot, which may be that of a closed console.
\* When there is no free slot, or no file, it returns -1 and changes nothing.
Open(p, d, i) ==
  /\ Call(p)
  /\ d \notin made
  /\ fd[p][i] = None /\ \A j \in Fds : j < i => fd[p][j] # None
  /\ fd' = [fd EXCEPT ![p][i] = d]
  /\ made' = made \cup {d}
  /\ refCount' = [refCount EXCEPT ![d] = 1]
  /\ offset' = [offset EXCEPT ![d] = 0]
  /\ UNCHANGED <<pc, readVars, moved, failure>>

\* close of a descriptor; of an empty slot it changes nothing.
Close(p, i) ==
  LET d == fd[p][i] IN
  /\ Call(p)
  /\ d # None
  /\ fd' = [fd EXCEPT ![p][i] = None]
  /\ refCount' = IF IsFile(d) THEN [refCount EXCEPT ![d] = @ - 1] ELSE refCount
  /\ UNCHANGED <<pc, offset, made, readVars, moved, failure>>

\* seek of a console, or of an empty slot below NumConsoles, returns -1.
Seek(p, i, o) ==
  LET d == fd[p][i] IN
  /\ Call(p)
  /\ IsFile(d)
  /\ SetOffset(d, o)
  /\ UNCHANGED <<pc, fd, refCount, made, readVars, failure>>

\* seek does not test the other slots: nullptr->offset = ... is a panic.
SeekNothing(p, i) ==
  /\ Call(p)
  /\ i >= NumConsoles
  /\ fd[p][i] = None
  /\ failure' = "seek of nothing"
  /\ UNCHANGED <<pc, fd, refCount, offset, made, readVars, moved>>

-----------------------------------------------------------------------------
(* read *)

\* What read_all() returns: see module BlockIO.
ReadAll(o, n) ==
  IF n = 0 \/ o = FileSize THEN 0
  ELSE IF o > FileSize THEN -1
  ELSE IF n < FileSize - o THEN n
  ELSE FileSize - o

\* Faulty: nbyte is replaced without the test.
ExceedsAlways(o, n) == TRUE

\* if ((offset + nbyte) > size), on 32 bits
Exceeds(o, n) == (o + n) % Word > FileSize

\* size - offset, on 32 bits
Left(o) == (FileSize - o) % Word

\* A file passes the tests at the top, wherever it is; consoles and empty slots from
\* NumConsoles on give -1.  `marker' keeps the descriptor.  The first load of the offset.
Read(p, i, n) ==
  LET d == fd[p][i] IN
  /\ Call(p)
  /\ IsFile(d)
  /\ pc' = [pc EXCEPT ![p] = IF Exceeds(offset[d], n) THEN "readClamp" ELSE "readCall"]
  /\ marker' = [marker EXCEPT ![p] = d]
  /\ refCount' = [refCount EXCEPT ![d] = @ + 1]
  /\ nbyte' = [nbyte EXCEPT ![p] = n]
  /\ asked' = [asked EXCEPT ![p] = n]
  /\ UNCHANGED <<fd, offset, made, at, ret, sum, moved, failure>>

\* nbyte = size - offset: the second load
ReadClamp(p) ==
  /\ failure = "none"
  /\ pc[p] = "readClamp"
  /\ pc' = [pc EXCEPT ![p] = "readCall"]
  /\ nbyte' = [nbyte EXCEPT ![p] = Left(offset[marker[p]])]
  /\ UNCHANGED <<fd, refCount, offset, made, marker, at, ret, sum, failure, asked, moved>>

\* read looks at fd[fd]->valid of an empty slot below NumConsoles: a panic.
ReadNothing(p, i) ==
  /\ Call(p)
  /\ i < NumConsoles
  /\ fd[p][i] = None
  /\ failure' = "read of nothing"
  /\ UNCHANGED <<pc, fd, refCount, offset, made, readVars, moved>>

\* ret = node->read_all(marker->offset,nbyte,buf): the third load
ReadCall(p) ==
  LET o == offset[marker[p]] IN
  /\ failure = "none"
  /\ pc[p] = "readCall"
  /\ pc' = [pc EXCEPT ![p] = "readAdd"]
  /\ at' = [at EXCEPT ![p] = o]
  /\ ret' = [ret EXCEPT ![p] = ReadAll(o, nbyte[p])]
  /\ nbyte' = [nbyte EXCEPT ![p] = 0]
  /\ UNCHANGED <<fd, refCount, offset, made, marker, sum, failure, asked, moved>>

\* marker->offset += ret, also when ret is -1: the load, ...
ReadAdd(p) ==
  /\ failure = "none"
  /\ pc[p] = "readAdd"
  /\ pc' = [pc EXCEPT ![p] = "readStore"]
  /\ sum' = [sum EXCEPT ![p] = (offset[marker[p]] + ret[p]) % Word]
  /\ at' = [at EXCEPT ![p] = 0]
  /\ ret' = [ret EXCEPT ![p] = 0]
  /\ asked' = [asked EXCEPT ![p] = 0]
  /\ moved' = [moved EXCEPT ![p] = FALSE]
  /\ UNCHANGED <<fd, refCount, offset, made, marker, nbyte, failure>>

\* ... and the store; return ret
ReadStore(p) ==
  LET d == marker[p] IN
  /\ failure = "none"
  /\ pc[p] = "readStore"
  /\ pc' = [pc EXCEPT ![p] = "user"]
  /\ SetOffset(d, sum[p])
  /\ refCount' = [refCount EXCEPT ![d] = @ - 1]
  /\ marker' = [marker EXCEPT ![p] = None]
  /\ sum' = [sum EXCEPT ![p] = 0]
  /\ UNCHANGED <<fd, made, nbyte, at, ret, asked, failure>>

-----------------------------------------------------------------------------
Next ==
  \E p \in Procs :
    \/ \E q \in Procs : Fork(p, q)
    \/ ReadClamp(p)
    \/ ReadCall(p)
    \/ ReadAdd(p)
    \/ ReadStore(p)
    \/ \E i \in Fds :
         \/ \E d \in Descs : Open(p, d, i)
         \/ Close(p, i)
         \/ \E o \in Offsets : Seek(p, i, o)
         \/ SeekNothing(p, i)
         \/ \E n \in Sizes : Read(p, i, n)
         \/ ReadNothing(p, i)

Spec == Init /\ [][Next]_vars

-----------------------------------------------------------------------------
(* Properties *)

\* A descriptor's count is the number of slots, of all processes, that refer to it, and of
\* reads that work on it: it is not deleted while it can be used, and it is deleted then.
RefsExact ==
  \A d \in Descs :
    refCount[d] = Cardinality(Slots(d)) + Cardinality({p \in Procs : marker[p] = d})

\* sys.h: read reads up to nbytes, never more; also when the sum or the difference in its clamp
\* wraps around, and on a shared descriptor, unless another process has stored to the offset
\* between the test of the clamp and the call of read_all().
ReadFits == \A p \in Procs : pc[p] = "readAdd" /\ ~moved[p] => ret[p] <= asked[p]

\* The bytes a read gets are bytes of the file, although nbyte may have wrapped around and may
\* be stale, when another process has moved the offset since it was clamped.
ReadInFile == \A p \in Procs : pc[p] = "readAdd" /\ ret[p] > 0 => at[p] + ret[p] <= FileSize

\* A read stays in the file and, unless the offset was moved under it, in what was asked for.
ReadBounded == ReadInFile /\ ReadFits
=============================================================================
