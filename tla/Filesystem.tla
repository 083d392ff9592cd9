----------------------------- MODULE Filesystem -----------------------------
(***************************************************************************)
(* Ext2 nodes, directories and path lookup (kernel/ext2.cc, kernel/ext2.h) *)
(* and the working directory that cd, pwd and ls share (kernel/sys.cc).    *)
(*                                                                         *)
(* A string is a sequence of tokens: "/" or a name.  Two names next to each*)
(* other are the name that comes of writing one behind the other, which is *)
(* no entry of a directory.  A directory is the sequence of its entries; an*)
(* entry with i-number 0 was deleted.                                      *)
(***************************************************************************)
EXTENDS Naturals, Sequences, FiniteSets

CONSTANTS
  NumNodes,   \* numberOfNodes
  PerGroup,   \* iNodesPerGroup
  Trees,      \* file systems: [i-number -> entries], NotDir for a file
  Paths,      \* the arguments of cd
  MaxCwd      \* bound: tokens of cwd (100 bytes)

Null   == 0                \* a null Shared<Node>, or find's number 0
Panic  == NumNodes + 1     \* a failed ASSERT
RootDir   == 2
Nodes  == 1..NumNodes
NotDir == <<"file">>
Tokens == {"/", ".", ".."} \cup UNION {{path[k] : k \in DOMAIN path} : path \in Paths}

\* A file system as mkfs.ext2 (Makefile) and the host's tools leave it, and the kernel never
\* writes: live names differ, and `..' of the root and of its directories is the root.
WellFormed(t) ==
  LET Named(d, x, i) == \E e \in DOMAIN t[d] : t[d][e] = [inode |-> i, name |-> x]
  IN  /\ DOMAIN t = Nodes
      /\ \A n \in Nodes : \/ t[n] = NotDir
                          \/ t[n] \in Seq([inode : 0..NumNodes, name : STRING \ {"/"}])
      /\ \A n \in Nodes : t[n] # NotDir => \A j, k \in DOMAIN t[n] :
           t[n][j].name = t[n][k].name /\ 0 \notin {t[n][j].inode, t[n][k].inode} => j = k
      /\ t[RootDir] # NotDir /\ Named(RootDir, "..", RootDir)
      /\ \A n \in Nodes, e \in DOMAIN t[RootDir] :
           /\ t[n] # NotDir
           /\ t[RootDir][e].inode = n /\ t[RootDir][e].name \notin {".", ".."}
           => n # RootDir /\ Named(n, "..", RootDir)

\* Assumed by the modules that give the constants their values.
FilesystemAssumption ==
  /\ NumNodes \in Nat /\ NumNodes >= RootDir
  /\ PerGroup \in Nat \ {0}
  /\ MaxCwd \in Nat \ {0}
  /\ \A path \in Paths : path \in Seq(Tokens)
  /\ \A t \in Trees : WellFormed(t)

VARIABLES
  tree,      \* what the disk holds
  current,   \* fs->current
  cwd,       \* fs->cwd
  plain      \* since the last `cd /', only `.', `..' and directories of the root (history)

vars == <<tree, current, cwd, plain>>

-----------------------------------------------------------------------------
(* Ext2 *)

\* Where mkfs.ext2 put node n: the group with the table, and the place in the table.
Layout(n) == <<(n - 1) \div PerGroup, (n - 1) % PerGroup>>

\* Faulty: i-numbers are taken to start at 0.
NodeFromZero(number) ==
  LET offset == <<number \div PerGroup, number % PerGroup>>
  IN  IF \E n \in Nodes : Layout(n) = offset
      THEN CHOOSE n \in Nodes : Layout(n) = offset ELSE Null

\* Reads the i-node at its offset in the table of its group.
get_node(number) ==
  LET index  == number - 1
      offset == <<index \div PerGroup, index % PerGroup>>
  IN  CHOOSE n \in Nodes : Layout(n) = offset

IsDir(n) == tree[n] # NotDir

\* Node::find looks at every entry, deleted ones too: the last match counts.
NodeFind(n, part) ==
  LET matches == {k \in DOMAIN tree[n] : <<tree[n][k].name>> = part}
  IN  IF matches = {} THEN 0
      ELSE tree[n][CHOOSE k \in matches : \A j \in matches : j <= k].inode

\* One part of the path: panics below a file, null when there is no such entry.
Descend(n, part) ==
  IF part = <<>> \/ n \in {Null, Panic} THEN n
  ELSE IF ~IsDir(n) THEN Panic
  ELSE IF NodeFind(n, part) = 0 THEN Null ELSE get_node(NodeFind(n, part))

\* The part of a path that ends before token i: what follows the slash before it.
Part(path, i) ==
  LET slashes == {k \in 1..(i - 1) : path[k] = "/"}
  IN  IF slashes = {} THEN SubSeq(path, 1, i - 1)
      ELSE SubSeq(path, 1 + CHOOSE k \in slashes : \A j \in slashes : j <= k, i - 1)

\* Ext2::find: each slash, and the end of the path, is a step down the tree;
\* walk[i] is the node after i tokens.
find(n, path) ==
  LET p    == Append(path, "/")
      Step == [i \in DOMAIN p |-> [m \in Nodes \cup {Null, Panic} |->
                 IF p[i] = "/" THEN Descend(m, Part(p, i)) ELSE m]]
      walk[i \in 0..Len(p)] == IF i = 0 THEN n ELSE Step[i][walk[i - 1]]
  IN  walk[Len(p)]

-----------------------------------------------------------------------------
(* changeDir *)

\* Ext2::Ext2 mounts: the root is i-node 2, and the working directory.  Only
\* cwd[0] of its new char[100] is stored; the string ends there as long as the heap
\* gave cells that were never written, which is assumed here.
Init ==
  /\ tree \in Trees
  /\ current = get_node(RootDir)
  /\ cwd = <<"/">>
  /\ plain = TRUE

First(path) == IF path = <<>> THEN "nul" ELSE path[1]

\* Faulty: `cd /' leaves the node.
ToRootKeepNode(path) ==
  /\ First(path) = "/"
  /\ cwd' = <<"/">>
  /\ plain' = TRUE
  /\ UNCHANGED <<tree, current>>

\* Whatever follows the slash.
ToRoot(path) ==
  /\ First(path) = "/"
  /\ current' = get_node(RootDir)
  /\ cwd' = <<"/">>
  /\ plain' = TRUE
  /\ UNCHANGED tree

LastSlash == CHOOSE k \in DOMAIN cwd :
               cwd[k] = "/" /\ \A j \in DOMAIN cwd : cwd[j] = "/" => j <= k

\* Whatever follows the dots.  cwd keeps its last slash.
ToParent(path) ==
  /\ First(path) = ".."
  /\ current' = find(current, <<"..">>)
  /\ cwd' = SubSeq(cwd, 1, LastSlash)
  /\ UNCHANGED <<tree, plain>>

\* A name with a dot in front changes nothing.
Stay(path) ==
  /\ First(path) = "."
  /\ UNCHANGED vars

\* The slash written at the end of cwd is overwritten by the path; the new cwd
\* is then looked up from the current directory.
Relative(path) ==
  /\ First(path) \notin {"/", "..", "."}
  /\ Len(cwd) + Len(path) <= MaxCwd
  /\ cwd' = cwd \o path
  /\ current' = find(current, cwd')
  /\ plain' = (/\ plain /\ current = RootDir /\ Len(path) <= 1
               /\ find(RootDir, path) \in Nodes /\ IsDir(find(RootDir, path)))
  /\ UNCHANGED tree

changeDir(path) == ToRoot(path) \/ ToParent(path) \/ Stay(path) \/ Relative(path)

\* After a panic nothing runs.
Next == current # Panic /\ \E path \in Paths : changeDir(path)

Spec == Init /\ [][Next]_vars

-----------------------------------------------------------------------------
(* Properties *)

\* The types of the variables.
TypeOK ==
  /\ tree \in Trees
  /\ current \in Nodes \cup {Null, Panic}
  /\ cwd \in Seq(Tokens) /\ Len(cwd) \in 1..MaxCwd /\ cwd[1] = "/"
  /\ plain \in BOOLEAN

\* What lookup means: led[k] are the nodes that the first k tokens of path lead to from
\* n, over entries that are not deleted; a slash leads nowhere.
LeadsTo(n, path) ==
  LET By(from, x) == {m \in Nodes : \E d \in from :
        IsDir(d) /\ \E e \in DOMAIN tree[d] : tree[d][e] = [inode |-> m, name |-> x]}
      led[k \in 0..Len(path)] ==
        IF k = 0 THEN {n}
        ELSE IF path[k] = "/" THEN led[k - 1] ELSE By(led[k - 1], path[k])
  IN  led[Len(path)]

\* No deleted entry stands behind a live one of the same name.
NoGhosts ==
  \A n \in Nodes : IsDir(n) => \A j, k \in DOMAIN tree[n] :
    j < k /\ tree[n][j].name = tree[n][k].name => tree[n][k].inode # 0

\* find gives the node that the names of a path lead to, and null or a panic
\* exactly when they lead nowhere, for slashes in any number between them and
\* i-nodes in any group, unless a deleted entry hides a live one
\* (ext2.h:262-293, ext2.cc:96-114 and 205-215).
FindFollowsEntries ==
  NoGhosts => \A n \in {RootDir, current} \cap Nodes, path \in Paths :
    IsDir(n) =>
      LET apart == \A k \in 1..(Len(path) - 1) : "/" \in {path[k], path[k + 1]}
      IN  apart => \A m \in Nodes : m \in LeadsTo(n, path) <=> find(n, path) = m

\* As long as every cd was to the root, to the parent, to `.', or from the root
\* to one of its directories, pwd prints the way to the directory that ls lists
\* and open searches (changeDir, sys.cc:355-413).
PwdNamesCurrent ==
  /\ TypeOK
  /\ plain /\ NoGhosts =>
       /\ current \in Nodes /\ IsDir(current)
       /\ current \in LeadsTo(RootDir, cwd)
=============================================================================
