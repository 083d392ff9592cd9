------------------------------ MODULE BlockIO ------------------------------
(***************************************************************************)
(* BlockIO::read_all() and BlockIO::read() (kernel/block_io.cc) on an ext2 *)
(* node, whose read_block() follows the direct and the indirect block      *)
(* references (kernel/ext2.cc).  One step is one turn of the loop of       *)
(* read_all(); the arguments are chosen by Init.                           *)
(*                                                                         *)
(* Byte k of the file is the number k, so that a buffer shows where its    *)
(* bytes come from.  Blocks hold more bytes than the file when its size is *)
(* no multiple of the block size.                                          *)
(***************************************************************************)
EXTENDS Integers, Sequences

CONSTANTS
  BlockSize,   \* block_size
  NumDirect,   \* 12
  NumRefs,     \* refs_per_block: block_size / 4
  MaxSize,     \* bound on data.size_low
  MaxArg       \* bound on offset and n

\* Assumed by the modules that give the constants their values.
BlockIOAssumption ==
  /\ {BlockSize, NumDirect, NumRefs} \subseteq Nat \ {0}
  /\ MaxSize \in Nat
  /\ MaxArg \in Nat

VARIABLES
  size,             \* size_in_bytes()
  offset0, n0,      \* the arguments
  offset, n,        \* the locals of read_all()
  buffer,           \* what has been stored from `buffer` on
  result            \* Running, Panic, or the value returned

vars == <<size, offset0, n0, offset, n, buffer, result>>

Running == -2
Panic == -3
Error == -1

min(a, b) == IF a < b THEN a ELSE b

Init ==
  /\ size \in 0..MaxSize
  /\ offset0 \in 0..MaxArg
  /\ n0 \in 0..MaxArg
  /\ offset = offset0
  /\ n = n0
  /\ buffer = <<>>
  /\ result = Running

-----------------------------------------------------------------------------
(* Node::read_block() *)

\* Where mkfs put block k of the file on the device.
Place(k) == 100 + k

direct == [i \in 0..(NumDirect - 1) |-> Place(i)]
indirect_1 == [j \in 0..(NumRefs - 1) |-> Place(NumDirect + j)]

\* The bytes of a block of the device.
Stored(b) == [k \in 1..BlockSize |-> (b - 100) * BlockSize + k - 1]

\* Faulty: the indirect references are indexed with the block number itself.
ReadBlockUnshifted(index) ==
  IF index < NumDirect THEN Stored(direct[index])
  ELSE IF index < NumRefs THEN Stored(indirect_1[index]) ELSE Stored(100)

\* The file's blocks beyond the indirect ones cause a panic, see BeyondIndirect.
read_block(index) ==
  IF index < NumDirect THEN Stored(direct[index])
  ELSE Stored(indirect_1[index - NumDirect])

BeyondIndirect(index) == index >= NumDirect + NumRefs

-----------------------------------------------------------------------------
(* read() and read_all() *)

OffsetInBlock == offset % BlockSize

\* The number of bytes one read() gives.
ActualN == min(BlockSize - OffsetInBlock, min(n, size - offset))

\* What one read() stores: a whole block in place, or a part of one through `temp`.
Chunk(b) ==
  IF ActualN = BlockSize
  THEN read_block(b)
  ELSE SubSeq(read_block(b), OffsetInBlock + 1, OffsetInBlock + ActualN)

\* while (n > 0) { cnt = read(offset,n,buffer); ... }
ReadSome ==
  /\ result = Running
  /\ n > 0 /\ offset < size
  /\ ~BeyondIndirect(offset \div BlockSize)
  /\ buffer' = buffer \o Chunk(offset \div BlockSize)
  /\ offset' = offset + ActualN
  /\ n' = n - ActualN
  /\ UNCHANGED <<size, offset0, n0, result>>

ReadPanics ==
  /\ result = Running
  /\ n > 0 /\ offset < size
  /\ BeyondIndirect(offset \div BlockSize)
  /\ result' = Panic
  /\ UNCHANGED <<size, offset0, n0, offset, n, buffer>>

\* cnt < 0, cnt == 0, or the loop is over.  total_count is n0 - n.
Return ==
  /\ result = Running
  /\ n = 0 \/ offset >= size
  /\ result' = IF n > 0 /\ offset > size THEN Error ELSE n0 - n
  /\ UNCHANGED <<size, offset0, n0, offset, n, buffer>>

Next == ReadSome \/ ReadPanics \/ Return

Spec == Init /\ [][Next]_vars

-----------------------------------------------------------------------------
(* Properties *)

\* What the comment on read_all() in block_io.h promises, for n > 0.
Expected == IF offset0 > size THEN Error ELSE min(n0, size - offset0)

\* Nothing is ever stored past the n bytes of the caller's buffer, although whole blocks are
\* read in place.
BufferBounded == Len(buffer) <= n0

\* The loop stops with a panic only in a file that needs doubly indirect blocks.
PanicsOnlyBeyond == result = Panic => size > (NumDirect + NumRefs) * BlockSize

\* read_all() returns min(n, size - offset), or -1 past the end, and the buffer holds exactly
\* those bytes of the file, through direct and indirect blocks and from any offset; on the way
\* the buffer is never overrun, and no file of direct and indirect blocks makes it panic.
ReadAllExact ==
  /\ BufferBounded /\ PanicsOnlyBeyond
  /\ result \notin {Running, Panic} /\ n0 > 0 =>
       /\ result = Expected
       /\ result # Error => buffer = [k \in 1..result |-> offset0 + k - 1]
=============================================================================
