----------------------------- MODULE MCStorage -----------------------------
(***************************************************************************)
(* The parts that keep files and memory, in one run: Files, Filesystem,    *)
(* BlockIO and Heap.  They share no variable: `which' says the behaviours  *)
(* of which one a behaviour is of, and the variables of the others keep    *)
(* their initial values.                                                   *)
(***************************************************************************)
EXTENDS Integers, Sequences

CONSTANTS
  Procs, Root, Descs, NumConsoles, NumFds,         \* Files
  FileSize, Sizes, Offsets, Word, None,
  NumNodes, PerGroup, Trees, Paths, MaxCwd,        \* Filesystem
  BlockSize, NumDirect, NumRefs, MaxSize, MaxArg,  \* BlockIO
  Kinds, Ints, CountDown, SizeMod, Requests, Words, MaxLive   \* Heap

VARIABLES
  which,
  pc, fd, refCount, offsetOf, made, marker, nbyte, at, ret, sum, failure, asked, moved,
  tree, current, cwd, plain,
  size, offset0, n0, offset, n, buffer, result,
  kind, heap, live, failed

tables  == <<pc, fd, refCount, offsetOf, made, marker, nbyte, at, ret, sum, failure, asked, moved>>
lookup  == <<tree, current, cwd, plain>>
reading == <<size, offset0, n0, offset, n, buffer, result>>
memory  == <<kind, heap, live, failed>>
vars    == <<which, tables, lookup, reading, memory>>

Shared == INSTANCE Files WITH offset <- offsetOf
Names  == INSTANCE Filesystem
Blocks == INSTANCE BlockIO
Memory == INSTANCE Heap

ASSUME StorageAssumption ==
  /\ Shared!FilesAssumption
  /\ Names!FilesystemAssumption
  /\ Blocks!BlockIOAssumption
  /\ Memory!HeapAssumption

Init ==
  /\ which \in {"tables", "lookup", "reading", "memory"}
  /\ Shared!Init /\ Names!Init /\ Blocks!Init /\ Memory!Init
  /\ which # "lookup" => tree = CHOOSE t \in Trees : TRUE
  /\ which # "reading" => size = 0 /\ offset0 = 0 /\ n0 = 0
  /\ which # "memory" => kind = "kernel"

Next ==
  \/ which = "tables" /\ Shared!Next /\ UNCHANGED <<which, lookup, reading, memory>>
  \/ which = "lookup" /\ Names!Next /\ UNCHANGED <<which, tables, reading, memory>>
  \/ which = "reading" /\ Blocks!Next /\ UNCHANGED <<which, tables, lookup, memory>>
  \/ which = "memory" /\ Memory!Next /\ UNCHANGED <<which, tables, lookup, reading>>

Spec == Init /\ [][Next]_vars

-----------------------------------------------------------------------------
(* The trees and paths of Filesystem *)

E(i, name) == [inode |-> i, name |-> name]
Dir(i, up) == <<E(i, "."), E(up, "..")>>

\* A directory below a directory, two files, and a deleted entry that is alone,
\* before or behind a live one of the same name.
Tree(root) == [i \in 1..NumNodes |->
  CASE i = 2 -> Dir(2, 2) \o root
    [] i = 4 -> Dir(4, 2) \o <<E(5, "sub"), E(3, "file")>>
    [] i = 5 -> Dir(5, 4)
    [] OTHER -> <<"file">>]

MCTrees == {Tree(root) : root \in {
  <<E(4, "etc"), E(3, "file")>>,
  <<E(0, "etc"), E(4, "etc"), E(3, "file")>>,
  <<E(4, "etc"), E(3, "file"), E(0, "etc")>>,
  <<E(0, "old"), E(4, "etc"), E(6, "file")>>}}

MCPaths == {<<>>, <<"/">>, <<"/", "etc">>, <<".">>, <<"..">>, <<"..", "/", "etc">>,
            <<"etc">>, <<"sub">>, <<"file">>, <<"none">>, <<"etc", "/">>,
            <<"etc", "/", "sub">>, <<"etc", "/", "/", "sub">>, <<"etc", "/", "file">>,
            <<"etc", "/", "..", "/", "file">>, <<"file", "/", "etc">>}

\* What clients of the heap store looks like the tag of an available block.
TagLike == {5}

-----------------------------------------------------------------------------
(* Properties *)

\* shared.h: a descriptor's count is the number of tables that have it.
RefsExact == Shared!RefsExact

\* sys.cc: no read leaves the file, however seek, close and other reads interleave; and it
\* stores no more than asked for, unless another process moved the offset under it.
ReadBounded == Shared!ReadBounded

\* ext2.h: find follows the entries, for any path and i-nodes of any group.
FindFollowsEntries == which = "lookup" => Names!FindFollowsEntries

\* sys.cc: after plain uses of cd, pwd names the directory that ls lists.
PwdNamesCurrent == Names!PwdNamesCurrent

\* block_io.cc: read_all gives exactly the bytes its comment promises.
ReadAllExact == Blocks!ReadAllExact

\* heap.cc, heap.c: the tags cut the array into blocks, the list holds the available
\* ones, which have no available neighbours, and malloc fails only without a gap that
\* is large enough.
HeapConsistent == which = "memory" => Memory!HeapConsistent

\* heap.cc, heap.c: a client finds the data that it stored.
DataIntact == Memory!DataIntact
=============================================================================
