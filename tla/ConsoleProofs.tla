---------------------------- MODULE ConsoleProofs ----------------------------
(***************************************************************************)
(* Proofs about Console: at most one process reads what is typed, and a    *)
(* line typed when the last one is done is executed as typed.  They hold   *)
(* for every set of words, every demo script and every number of processes *)
(* and keys.                                                               *)
(*                                                                         *)
(* The inductive invariant adds to the types that of the shell and all its *)
(* descendants at most one is not waiting for its child, that while a line *)
(* is answered nothing moves in the handler unless somebody types (Quiet), *)
(* and what buf holds while a line is typed (Typing) and answered          *)
(* (Answering).                                                            *)
(***************************************************************************)
EXTENDS Console, Integers, TLAPS, FiniteSetTheorems, WellFoundedInduction

\* The words of the lines that the programs of the shell get.
Tokens == Words \cup {"bar", "buf", "null", "listing", "junk"}

\* Where a process can be.
Places == {"free", "poll", "fork", "wait", "dispatch", "exec", "copy", "run", "script", "clear",
           "size", "flag", "exited", "panic"}

\* The types of the locals of a process.
Process == [pc : Places, child : 0..MaxProcs, text : Seq(Tokens), length : Nat,
            cmd : Commands \cup Files \cup {Nul, "demo"}, left : 0..Len(Demo), i : Nat]

\* The types of the variables, and a letter in flight has been counted.
ConsoleTypes ==
  /\ buf \in [BufIndex -> Words \cup {Nul}] /\ bufSize \in Nat /\ done \in BOOLEAN
  /\ irq \in [pc : {"idle", "store", "load", "inc", "done"},
              letter : Words \cup {Nul, Newline}, tmp : Nat]
  /\ keys \in 0..MaxKeys /\ bufSize <= keys
  /\ irq.pc # "idle" => bufSize < keys /\ irq.letter # Nul
  /\ irq.pc = "inc" => irq.tmp < keys
  /\ proc \in [Procs -> Process]
  /\ typed \in Seq(Words) /\ line \in Seq(Words)
  /\ dir \in BOOLEAN /\ touched \in BOOLEAN /\ ahead \in BOOLEAN

\* Of the shell and all its descendants, at most one is not waiting for its child.
OneActive ==
  \A p, q \in Procs :
    proc[p].pc \notin {"free", "wait"} /\ proc[q].pc \notin {"free", "wait"} => p = q

\* A process that waits, waits for a process.
ParentsOk == \A p \in Procs : proc[p].pc = "wait" => proc[p].child \in Procs

\* The first n letters of w are in buf.
Holds(w, n) == \A j \in BufIndex : j < n => buf[j] = w[j + 1]

\* The string in buf is the line.
LineIn == bufSize = Len(line) /\ Holds(line, Len(line)) /\ buf[bufSize] = Nul

\* What the interrupt handler has stored of the line so far, when the last one is answered.
Typing ==
  /\ irq.pc = "idle" => bufSize = Len(typed) /\ Holds(typed, Len(typed))
  /\ irq.pc = "store" /\ irq.letter = Newline => bufSize = Len(line) /\ Holds(line, Len(line))
  /\ irq.pc = "done" => LineIn
  /\ irq.pc \in {"load", "inc"} => irq.letter # Newline
  /\ irq.pc # "idle" /\ irq.letter # Newline =>
       /\ Len(typed) = bufSize + 1 /\ typed[bufSize + 1] = irq.letter
       /\ Holds(typed, IF irq.pc = "store" THEN bufSize ELSE bufSize + 1)
  /\ irq.pc = "inc" => irq.tmp = bufSize

\* A line that is done is in buf until the shell clears it, and it says which program runs.
Answering ==
  /\ (\A p \in Procs : proc[p].pc \notin {"clear", "size", "flag"}) => LineIn
  /\ \A p \in Procs :
       proc[p].pc \in {"exec", "copy"} /\ proc[p].text = Live =>
         /\ line # <<>> /\ proc[p].cmd = Head(line)
         /\ proc[p].pc = "copy" => proc[p].length = Len(line)

\* While nobody types the handler is idle, and setDone() leaves nothing of the line.
Quiet ==
  /\ irq.pc = "idle" /\ typed = <<>>
  /\ \A p \in Procs : proc[p].pc = "flag" => bufSize = 0

\* Only a line that is done is answered; a newline starts a new line.
PhaseOk ==
  /\ \A p \in Procs : proc[p].pc # "clear" => proc[p].i = 0
  /\ ~done => \A p \in Procs : proc[p].pc \in {"free", "wait", "poll"}
  /\ irq.pc = "done" => irq.letter = Newline
  /\ irq.pc # "idle" /\ irq.letter = Newline => typed = <<>>
  /\ done /\ ~touched => Quiet
  /\ ~ahead => ~touched

\* buf, when nobody has typed ahead.
LineOk == ~ahead => IF done THEN Answering ELSE Typing

\* The inductive invariant.
ConsoleInv == ConsoleTypes /\ OneActive /\ ParentsOk /\ PhaseOk /\ LineOk

\* The constants.
LEMMA ConsoleFacts ==
  /\ MaxProcs \in Nat \ {0} /\ MaxKeys \in Nat /\ Procs = 1..MaxProcs /\ BufIndex = 0..MaxKeys
  /\ Nul \notin Words /\ Newline \notin Words /\ Nul # Newline
  /\ {"buf", "null", "bar", "listing", "junk"} \cap Words = {}
  /\ Demo \in Seq(Seq(Words)) /\ Len(Demo) \in Nat /\ Live \in Seq(Tokens)
  /\ Absent \in Seq(Tokens) /\ Absent # Live /\ <<>> \in Seq(Tokens) /\ <<>> # Live
<1>1. Live \in Seq(Tokens) /\ Absent \in Seq(Tokens) /\ <<>> \in Seq(Tokens)
  BY DEF Live, Absent, Tokens
<1>2. Absent # Live /\ <<>> # Live
  BY DEF Live, Absent
<1> QED
  BY <1>1, <1>2, ConsoleAssumption DEF Procs, BufIndex, Nul, Newline

\* A set of numbers has a least one.
LEMMA Least ==
  ASSUME NEW T, T \subseteq Nat, T # {}
  PROVE  \E x \in T : \A y \in T : x <= y
<1>1. PICK R : R = OpToRel(<, Nat)
  OBVIOUS
<1>2. IsWellFoundedOn(R, Nat)
  BY <1>1, NatLessThanWellFounded
<1>3. \A x, y \in Nat : <<x, y>> \in R <=> x < y
  BY <1>1 DEF OpToRel
<1>4. PICK x \in T : \A y \in T : ~(<<y, x>> \in R)
  BY <1>2, WFMin
<1>5. \A y \in T : x \in Nat /\ y \in Nat /\ ~(y < x)
  BY <1>3, <1>4
<1>6. \A y \in T : x <= y
  BY <1>5
<1> QED
  BY <1>6

\* n is where the string in buf ends.
Ends(n) == /\ \A i \in BufIndex : i < n => buf[i] # Nul
           /\ n \in BufIndex => buf[n] = Nul

\* The string in buf ends somewhere.
LEMMA EndExists ==
  ASSUME ConsoleTypes
  PROVE  \E n \in 0..(MaxKeys + 1) : Ends(n)
<1> DEFINE T == {j \in BufIndex : buf[j] = Nul}
<1>1. CASE T = {}
  <2>1. MaxKeys + 1 \in 0..(MaxKeys + 1) /\ MaxKeys + 1 \notin BufIndex
    BY ConsoleFacts
  <2>2. Ends(MaxKeys + 1)
    BY <1>1, <2>1 DEF Ends
  <2> QED
    BY <2>1, <2>2
<1>2. CASE T # {}
  <2>1. T \subseteq Nat
    BY ConsoleFacts
  <2>2. PICK n \in T : \A y \in T : n <= y
    BY <1>2, <2>1, Least
  <2>3. n \in 0..(MaxKeys + 1) /\ buf[n] = Nul /\ n \in Nat
    BY <2>2, ConsoleFacts
  <2>4. ASSUME NEW i \in BufIndex, i < n PROVE buf[i] # Nul
    <3>1. i \in Nat
      BY ConsoleFacts
    <3>2. i \notin T
      BY <2>2, <2>3, <2>4, <3>1
    <3> QED
      BY <3>2
  <2>5. Ends(n)
    BY <2>3, <2>4 DEF Ends
  <2> QED
    BY <2>3, <2>5
<1> QED
  BY <1>1, <1>2

\* The string at text, for buf: up to where it ends.
LEMMA TextLive ==
  ASSUME ConsoleTypes
  PROVE  \E n \in 0..(MaxKeys + 1) : Ends(n) /\ TextOf(Live) = [k \in 1..n |-> buf[k - 1]]
<1>1. PICK n : n = CHOOSE m \in 0..(MaxKeys + 1) : Ends(m)
  OBVIOUS
<1>2. n \in 0..(MaxKeys + 1) /\ Ends(n)
  BY <1>1, EndExists
<1>3. TextOf(Live) = [k \in 1..n |-> buf[k - 1]]
  BY <1>1 DEF TextOf, Ends
<1> QED
  BY <1>2, <1>3

\* What a process reads as its line is a sequence of words.
LEMMA TextType ==
  ASSUME ConsoleTypes, NEW t \in Seq(Tokens)
  PROVE  TextOf(t) \in Seq(Tokens)
<1>1. CASE t # Live
  BY <1>1 DEF TextOf
<1>2. CASE t = Live
  <2>1. PICK n \in 0..(MaxKeys + 1) : Ends(n) /\ TextOf(Live) = [k \in 1..n |-> buf[k - 1]]
    BY TextLive
  <2>2. n \in Nat
    BY <2>1, ConsoleFacts
  <2>3. \A k \in 1..n : k - 1 \in BufIndex /\ k - 1 < n
    BY <2>1, <2>2, ConsoleFacts
  <2>4. \A k \in 1..n : buf[k - 1] \in Tokens
    BY <2>1, <2>3 DEF Ends, ConsoleTypes, Tokens
  <2>5. TextOf(Live) \in [1..n -> Tokens]
    BY <2>1, <2>4
  <2>6. TextOf(Live) \in Seq(Tokens)
    BY ONLY <2>2, <2>5
  <2> QED
    BY <1>2, <2>6
<1> QED
  BY <1>1, <1>2

\* What a process reads in buf is the line, when that is what buf holds.
LEMMA TextIsLine ==
  ASSUME ConsoleTypes, LineIn
  PROVE  TextOf(Live) = line
<1>1. PICK n \in 0..(MaxKeys + 1) : Ends(n) /\ TextOf(Live) = [k \in 1..n |-> buf[k - 1]]
  BY TextLive
<1>2. PICK l : l = Len(line)
  OBVIOUS
<1>3. /\ l \in Nat /\ l <= MaxKeys /\ line \in Seq(Words) /\ n \in Nat /\ n <= MaxKeys + 1
      /\ \A k \in 1..l : line[k] \in Words
  BY <1>1, <1>2, ConsoleFacts DEF ConsoleTypes, LineIn
<1>4. (\A j \in 0..MaxKeys : j < l => buf[j] = line[j + 1]) /\ buf[l] = Nul
  BY <1>2, ConsoleFacts DEF Holds, LineIn
<1>5. \A j \in 0..MaxKeys : j < l => buf[j] # Nul
  <2>1. \A j \in 0..MaxKeys : j < l => j + 1 \in 1..l
    BY <1>3
  <2> QED
    BY <1>3, <1>4, <2>1, ConsoleFacts
<1>6. n = l
  <2>1. ~(n < l)
    BY <1>1, <1>3, <1>5, ConsoleFacts DEF Ends
  <2>2. ~(l < n)
    BY <1>1, <1>3, <1>4, ConsoleFacts DEF Ends
  <2> QED
    BY <1>3, <2>1, <2>2
<1>7. \A k \in 1..l : buf[k - 1] = line[k]
  <2>1. \A k \in 1..l : k - 1 \in 0..MaxKeys /\ k - 1 < l /\ (k - 1) + 1 = k
    BY <1>3, ConsoleFacts
  <2> QED
    BY <1>4, <2>1
<1>8. line = [k \in 1..l |-> line[k]]
  BY <1>2, <1>3
<1> QED
  BY <1>1, <1>6, <1>7, <1>8

\* A step of the active process a that only moves it, or makes b the active one: buf still
\* holds the line.
LEMMA QuietStep ==
  ASSUME ConsoleInv, NEW a \in Procs, NEW b \in Procs,
         UNCHANGED console, dir' \in BOOLEAN,
         proc[a].pc \notin {"free", "wait", "clear", "size", "flag"}, done \/ proc[a].pc # "poll",
         proc' \in [Procs -> Process],
         \A q \in Procs : q # b => proc'[q].pc \in {"free", "wait"},
         \A q \in Procs : proc'[q].i = 0,
         \A q \in Procs : proc'[q].pc = "wait" => proc'[q].child \in Procs,
         proc'[b].pc \notin {"size", "flag"},
         (/\ ~ahead /\ Answering /\ LineIn
          /\ proc'[b].pc \in {"exec", "copy"} /\ proc'[b].text = Live) =>
           /\ line # <<>> /\ proc'[b].cmd = Head(line)
           /\ proc'[b].pc = "copy" => proc'[b].length = Len(line)
  PROVE  ConsoleInv'
<1>1. /\ ConsoleTypes /\ OneActive /\ PhaseOk /\ LineOk
      /\ buf' = buf /\ bufSize' = bufSize /\ (done' <=> done) /\ irq' = irq /\ keys' = keys
      /\ typed' = typed /\ line' = line /\ (touched' <=> touched) /\ (ahead' <=> ahead)
  BY DEF ConsoleInv, console, device
<1>2. ConsoleTypes'
  <2>1. done' \in BOOLEAN /\ touched' \in BOOLEAN /\ ahead' \in BOOLEAN
    BY DEF console, device, ConsoleInv, ConsoleTypes
  <2> QED
    BY <1>1, <2>1 DEF ConsoleTypes
<1>3. OneActive'
  BY DEF OneActive
<1>4. done
  BY <1>1 DEF PhaseOk
<1>5. PhaseOk'
  <2>1. done /\ ~touched => Quiet'
    BY <1>1 DEF PhaseOk, Quiet
  <2> QED
    BY <1>1, <1>4, <2>1 DEF PhaseOk
<1>6. ASSUME ~ahead PROVE Answering'
  <2>1. \A q \in Procs : proc[q].pc \notin {"clear", "size", "flag"}
    BY <1>1 DEF OneActive
  <2>2. Answering /\ LineIn
    BY <1>1, <1>4, <1>6, <2>1 DEF LineOk, Answering
  <2>3. LineIn'
    BY <1>1, <2>2 DEF LineIn, Holds
  <2>4. \A q \in Procs : q # b => proc'[q].pc \notin {"exec", "copy"}
    OBVIOUS
  <2> QED
    BY <1>1, <1>6, <2>2, <2>3, <2>4 DEF Answering
<1>7. LineOk'
  BY <1>1, <1>4, <1>6 DEF LineOk
<1> QED
  BY <1>2, <1>3, <1>5, <1>7 DEF ConsoleInv, ParentsOk

\* The active process, and what it leaves alone.
LEMMA ActiveIs ==
  ASSUME ConsoleInv, NEW p \in Procs, proc[p].pc \notin {"free", "wait", "clear"}
  PROVE  /\ \A q \in Procs : q # p => proc[q].pc \in {"free", "wait"}
         /\ \A q \in Procs : proc[q].i = 0
<1>1. \A q \in Procs : proc[q] \in Process
  BY DEF ConsoleInv, ConsoleTypes
<1>2. \A q \in Procs : q # p => proc[q].pc \in {"free", "wait"}
  BY DEF ConsoleInv, OneActive
<1> QED
  BY <1>2 DEF ConsoleInv, PhaseOk

\* A step of p that leaves the other processes alone.
LEMMA OwnStep ==
  ASSUME ConsoleInv, NEW p \in Procs, NEW r, r \in Process,
         UNCHANGED console, dir' \in BOOLEAN,
         proc[p].pc \notin {"free", "wait", "clear", "size", "flag"}, done \/ proc[p].pc # "poll",
         proc' = [proc EXCEPT ![p] = r], r.i = 0, r.pc \notin {"wait", "size", "flag"},
         (/\ ~ahead /\ Answering /\ LineIn /\ r.pc \in {"exec", "copy"} /\ r.text = Live) =>
           /\ line # <<>> /\ r.cmd = Head(line)
           /\ r.pc = "copy" => r.length = Len(line)
  PROVE  ConsoleInv'
<1>1. proc \in [Procs -> Process]
  BY DEF ConsoleInv, ConsoleTypes
<1>2. proc' \in [Procs -> Process] /\ proc'[p] = r /\ \A q \in Procs : q # p => proc'[q] = proc[q]
  BY <1>1
<1>3. /\ \A q \in Procs : q # p => proc[q].pc \in {"free", "wait"}
      /\ \A q \in Procs : proc[q].i = 0
  BY ActiveIs
<1>4. /\ \A q \in Procs : q # p => proc'[q].pc \in {"free", "wait"}
      /\ \A q \in Procs : proc'[q].i = 0
      /\ \A q \in Procs : proc'[q].pc = "wait" => proc'[q].child \in Procs
      /\ proc'[p].pc \notin {"size", "flag"}
      /\ (/\ ~ahead /\ Answering /\ LineIn
          /\ proc'[p].pc \in {"exec", "copy"} /\ proc'[p].text = Live) =>
           /\ line # <<>> /\ proc'[p].cmd = Head(line)
           /\ proc'[p].pc = "copy" => proc'[p].length = Len(line)
  BY <1>2, <1>3 DEF ConsoleInv, ParentsOk
<1> QED
  BY ONLY ConsoleInv, p \in Procs, UNCHANGED console, dir' \in BOOLEAN,
          proc[p].pc \notin {"free", "wait", "clear", "size", "flag"}, done \/ proc[p].pc # "poll",
          <1>2, <1>4, QuietStep

\* The fields of a process.
LEMMA Fields ==
  ASSUME ConsoleInv, NEW p \in Procs
  PROVE  /\ proc \in [Procs -> Process] /\ proc[p] \in Process /\ proc[p].pc \in Places
         /\ proc[p].child \in 0..MaxProcs /\ proc[p].text \in Seq(Tokens)
         /\ proc[p].length \in Nat
         /\ proc[p].cmd \in Commands \cup Files \cup {Nul, "demo"}
         /\ proc[p].left \in 0..Len(Demo) /\ proc[p].i \in Nat /\ dir \in BOOLEAN
  BY DEF ConsoleInv, ConsoleTypes, Process

\* The shell sees that a line is done.
LEMMA PollKeeps ==
  ASSUME ConsoleInv, NEW p \in Procs, Poll(p)
  PROVE  ConsoleInv'
<1>1. PICK r : r = [proc[p] EXCEPT !.pc = "fork", !.text = Live]
  OBVIOUS
<1>2. /\ proc \in [Procs -> Process] /\ proc[p] \in Process /\ Live \in Seq(Tokens)
      /\ proc[p].pc = "poll" /\ done
      /\ UNCHANGED console /\ dir' \in BOOLEAN
  BY Fields, ConsoleFacts DEF Poll
<1>3. r \in Process /\ r.pc = "fork" /\ r.i = proc[p].i
  BY <1>1, <1>2 DEF Process, Places
<1>4. proc' = [proc EXCEPT ![p] = r]
  BY <1>1, <1>2 DEF Poll, Process
<1>5. r.i = 0
  BY <1>2, <1>3, ActiveIs
<1> QED
  BY <1>2, <1>3, <1>4, <1>5, OwnStep

\* The child looks at the first word of its line: for the shell, of the line typed.
LEMMA DispatchKeeps ==
  ASSUME ConsoleInv, NEW p \in Procs, Dispatch(p)
  PROVE  ConsoleInv'
<1>1. PICK t : t = TextOf(proc[p].text)
  OBVIOUS
<1>2. PICK word : word = IF t = <<>> THEN Nul ELSE t[1]
  OBVIOUS
<1>3. PICK kept : kept = IF word = "pipe" /\ proc[p].cmd = "pipe"
                         THEN <<"pipe", "bar">> \o Tail(t) ELSE proc[p].text
  OBVIOUS
<1>4. /\ proc \in [Procs -> Process] /\ proc[p] \in Process /\ proc[p].pc = "dispatch"
      /\ UNCHANGED console /\ dir' \in BOOLEAN /\ proc[p].i = 0
  BY Fields, ActiveIs DEF Dispatch
<1>5. PICK r : r = IF t = Absent THEN [proc[p] EXCEPT !.pc = "panic"]
                   ELSE IF word \in Commands
                   THEN [proc[p] EXCEPT !.pc = "exec", !.cmd = word, !.text = kept]
                   ELSE IF word = "demo" /\ proc[p].cmd # "pipe"
                   THEN [proc[p] EXCEPT !.pc = "script", !.cmd = "demo", !.left = Len(Demo)]
                   ELSE [proc[p] EXCEPT !.pc = After(p), !.text = <<>>]
  OBVIOUS
<1>6. proc' = [proc EXCEPT ![p] = r]
  BY <1>1, <1>2, <1>3, <1>4, <1>5 DEF Dispatch
<1>7. t \in Seq(Tokens) /\ proc[p].text \in Seq(Tokens)
  BY <1>1, Fields, TextType DEF ConsoleInv
<1>8. word # Nul => t # <<>> /\ word = t[1]
  BY <1>2
<1>9. kept \in Seq(Tokens) /\ (kept = Live => proc[p].text = Live)
  <2>1. CASE word = "pipe" /\ proc[p].cmd = "pipe"
    <3>1. t # <<>>
      BY <1>8, <2>1 DEF Nul
    <3>2. CASE "pipe" \in Tokens
      <4>1. <<"pipe", "bar">> \in Seq(Tokens) /\ Tail(t) \in Seq(Tokens)
        BY <1>7, <3>1, <3>2 DEF Tokens
      <4>2. kept \in Seq(Tokens) /\ kept[1] = "pipe" /\ Len(kept) >= 2
        BY <1>3, <2>1, <4>1
      <4>3. Live[1] = "buf"
        BY DEF Live
      <4>4. kept # Live
        BY <4>2, <4>3
      <4> QED
        BY <4>2, <4>4
    <3>3. "pipe" \in Tokens
      <4>1. t[1] \in Tokens
        BY <1>7, <3>1
      <4>2. word = t[1]
        BY <1>2, <3>1
      <4> QED
        BY <2>1, <4>1, <4>2
    <3> QED
      BY <3>2, <3>3
  <2>2. CASE ~(word = "pipe" /\ proc[p].cmd = "pipe")
    BY <1>3, <1>7, <2>2
  <2> QED
    BY <2>1, <2>2
<1>10. After(p) \in {"exited", "script", "clear"}
  BY DEF After
<1>11. r \in Process /\ r.i = 0 /\ r.pc \in {"panic", "exec", "script", "exited", "clear"}
  <2>1. CASE t = Absent
    BY <1>4, <1>5, <2>1 DEF Process, Places
  <2>2. CASE t # Absent /\ word \in Commands
    BY <1>4, <1>5, <1>9, <2>2 DEF Process, Places
  <2>3. CASE t # Absent /\ word \notin Commands /\ word = "demo" /\ proc[p].cmd # "pipe"
    <3>1. Len(Demo) \in 0..Len(Demo)
      BY ConsoleFacts
    <3> QED
      BY <1>4, <1>5, <2>3, <3>1 DEF Process, Places
  <2>4. CASE t # Absent /\ word \notin Commands /\ ~(word = "demo" /\ proc[p].cmd # "pipe")
    <3>1. <<>> \in Seq(Tokens)
      OBVIOUS
    <3>2. r = [proc[p] EXCEPT !.pc = After(p), !.text = <<>>]
      BY <1>5, <2>4
    <3>3. PICK l \in {"exited", "script", "clear"} : l = After(p)
      BY <1>10
    <3> QED
      BY <1>4, <3>1, <3>2, <3>3 DEF Process, Places
  <2> QED
    BY <2>1, <2>2, <2>3, <2>4
<1>12. ASSUME LineIn, r.pc \in {"exec", "copy"}, r.text = Live
       PROVE  line # <<>> /\ r.cmd = Head(line) /\ r.pc = "exec"
  <2>1. t # Absent /\ word \in Commands
    BY <1>4, <1>5, <1>10, <1>12 DEF Process
  <2>2. r.cmd = word /\ r.text = kept /\ r.pc = "exec"
    BY <1>4, <1>5, <2>1 DEF Process
  <2>3. t = line
    BY <1>1, <1>9, <1>12, <2>2, TextIsLine DEF ConsoleInv
  <2>4. t # <<>> /\ word = t[1]
    BY <1>2, <2>1 DEF Commands, Nul
  <2>5. line \in Seq(Words)
    BY DEF ConsoleInv, ConsoleTypes
  <2> QED
    BY <2>2, <2>3, <2>4, <2>5
<1> QED
  BY <1>4, <1>6, <1>11, <1>12, OwnStep

\* The kernel measures the argument: for the shell's child, in the line.
LEMMA ExecKeeps ==
  ASSUME ConsoleInv, NEW p \in Procs, Exec(p)
  PROVE  ConsoleInv'
<1>1. PICK n : n = Len(TextOf(proc[p].text))
  OBVIOUS
<1>2. /\ proc \in [Procs -> Process] /\ proc[p] \in Process /\ proc[p].pc = "exec"
      /\ UNCHANGED console /\ dir' \in BOOLEAN /\ proc[p].i = 0
  BY Fields, ActiveIs DEF Exec
<1>3. n \in Nat
  <2>1. TextOf(proc[p].text) \in Seq(Tokens)
    BY Fields, TextType DEF ConsoleInv
  <2> QED
    BY <1>1, <2>1
<1>4. PICK r : r = [proc[p] EXCEPT !.pc = "copy", !.length = n]
  OBVIOUS
<1>5. /\ r \in Process /\ r.pc = "copy" /\ r.i = 0 /\ r.length = n
      /\ r.text = proc[p].text /\ r.cmd = proc[p].cmd
  BY <1>2, <1>3, <1>4 DEF Process, Places
<1>6. proc' = [proc EXCEPT ![p] = r]
  BY <1>1, <1>2, <1>4 DEF Exec, Process
<1>7. ASSUME Answering, LineIn, r.text = Live
      PROVE  line # <<>> /\ r.cmd = Head(line) /\ r.length = Len(line)
  <2>1. line # <<>> /\ proc[p].cmd = Head(line)
    BY <1>2, <1>5, <1>7 DEF Answering
  <2>2. TextOf(proc[p].text) = line
    BY <1>5, <1>7, TextIsLine DEF ConsoleInv
  <2> QED
    BY <1>1, <1>5, <2>1, <2>2
<1> QED
  BY <1>2, <1>5, <1>6, <1>7, OwnStep

\* What memcpy copies is a sequence of words.
LEMMA CopiedType ==
  ASSUME NEW t \in Seq(Tokens), NEW n \in Nat, NEW text \in Copied(t, n)
  PROVE  text \in Seq(Tokens)
<1>1. CASE Len(t) <= n
  BY <1>1 DEF Copied
<1>2. CASE ~(Len(t) <= n)
  <2>1. PICK cuts : cuts = {SubSeq(t, 1, k) : k \in n..Len(t)}
    OBVIOUS
  <2>2. text \in cuts \/ \E cut \in cuts : text = Append(cut, "junk")
    BY <1>2, <2>1 DEF Copied
  <2>3. ASSUME NEW cut \in cuts PROVE cut \in Seq(Tokens)
    <3>1. PICK k \in n..Len(t) : cut = SubSeq(t, 1, k)
      BY <2>1
    <3> QED
      BY <3>1
  <2>4. "junk" \in Tokens
    BY DEF Tokens
  <2> QED
    BY <2>2, <2>3, <2>4
<1> QED
  BY <1>1, <1>2

\* execl copies the words after the first.
LEMMA CopyKeeps ==
  ASSUME ConsoleInv, NEW p \in Procs, Copy(p)
  PROVE  ConsoleInv'
<1>1. PICK t : t = TextOf(proc[p].text)
  OBVIOUS
<1>2. PICK n : n = proc[p].length
  OBVIOUS
<1>3. /\ proc \in [Procs -> Process] /\ proc[p] \in Process /\ proc[p].pc = "copy"
      /\ UNCHANGED console /\ dir' \in BOOLEAN /\ proc[p].i = 0 /\ n \in Nat
  BY <1>2, Fields, ActiveIs DEF Copy
<1>4. t \in Seq(Tokens)
  BY <1>1, Fields, TextType DEF ConsoleInv
<1>5. PICK text \in Copied(t, n) :
        proc' = [proc EXCEPT ![p].pc = "run", ![p].length = 0,
                             ![p].text = IF text = <<>> THEN <<>> ELSE Tail(text)]
  BY <1>1, <1>2 DEF Copy
<1>6. text \in Seq(Tokens)
  BY <1>3, <1>4, <1>5, CopiedType
<1>7. PICK u : u = IF text = <<>> THEN <<>> ELSE Tail(text)
  OBVIOUS
<1>8. u \in Seq(Tokens)
  BY <1>6, <1>7
<1>9. PICK r : r = [proc[p] EXCEPT !.pc = "run", !.length = 0, !.text = u]
  OBVIOUS
<1>10. r \in Process /\ r.pc = "run" /\ r.i = 0
  <2>1. 0 \in Nat
    OBVIOUS
  <2> QED
    BY <1>3, <1>8, <1>9, <2>1 DEF Process, Places
<1>11. proc' = [proc EXCEPT ![p] = r]
  BY <1>3, <1>5, <1>7, <1>9 DEF Process
<1> QED
  BY <1>3, <1>10, <1>11, OwnStep

\* A program ends, or follows a null pointer.
LEMMA RunKeeps ==
  ASSUME ConsoleInv, NEW p \in Procs, RunProg(p) \/ ProgFaults(p)
  PROVE  ConsoleInv'
<1>1. /\ proc \in [Procs -> Process] /\ proc[p] \in Process /\ proc[p].pc = "run"
      /\ UNCHANGED console /\ dir' \in BOOLEAN /\ proc[p].i = 0
  BY Fields, ActiveIs DEF RunProg, ProgFaults
<1>2. PICK l \in {"exited", "panic"} : proc' = [proc EXCEPT ![p].pc = l]
  BY DEF RunProg, ProgFaults
<1>3. PICK r : r = [proc[p] EXCEPT !.pc = l]
  OBVIOUS
<1>4. r \in Process /\ r.pc = l /\ r.i = 0
  BY <1>1, <1>2, <1>3 DEF Process, Places
<1>5. proc' = [proc EXCEPT ![p] = r]
  BY <1>1, <1>2, <1>3
<1> QED
  BY <1>1, <1>2, <1>4, <1>5, OwnStep

\* `ls' becomes shellHandler.
LEMMA RunLsKeeps ==
  ASSUME ConsoleInv, NEW p \in Procs, RunLs(p)
  PROVE  ConsoleInv'
<1>1. /\ proc \in [Procs -> Process] /\ proc[p] \in Process /\ proc[p].pc = "run"
      /\ UNCHANGED console /\ dir' \in BOOLEAN /\ proc[p].i = 0
      /\ proc[p].text \in Seq(Tokens)
  BY Fields, ActiveIs DEF RunLs
<1>2. PICK u : u = Append(proc[p].text, "listing")
  OBVIOUS
<1>3. u \in Seq(Tokens)
  BY <1>1, <1>2 DEF Tokens
<1>4. PICK r : r = IF dir THEN [proc[p] EXCEPT !.pc = "fork", !.text = u]
                   ELSE [proc[p] EXCEPT !.pc = "panic"]
  OBVIOUS
<1>5. r \in Process /\ r.pc \in {"fork", "panic"} /\ r.i = 0
  <2>1. CASE dir
    BY <1>1, <1>3, <1>4, <2>1 DEF Process, Places
  <2>2. CASE ~dir
    BY <1>1, <1>4, <2>2 DEF Process, Places
  <2> QED
    BY <2>1, <2>2
<1>6. proc' = [proc EXCEPT ![p] = r]
  <2>1. CASE dir
    <3>1. proc' = [proc EXCEPT ![p] = [proc[p] EXCEPT !.pc = "fork", !.text = u]]
      BY <1>1, <1>2, <2>1 DEF RunLs, Process
    <3> QED
      BY <1>4, <2>1, <3>1
  <2>2. CASE ~dir
    BY <1>1, <1>4, <2>2 DEF RunLs
  <2> QED
    BY <2>1, <2>2
<1> QED
  BY <1>1, <1>5, <1>6, OwnStep

\* A process that becomes the program that `exec' names.
LEMMA ImageType ==
  ASSUME NEW s \in Process, s.pc = "run", s.i = 0, NEW file \in Commands \cup Files,
         NEW rest \in Seq(Tokens)
  PROVE  /\ Image(s, file, rest) \in Process /\ Image(s, file, rest).i = 0
         /\ Image(s, file, rest).pc \in {"run", "fork", "poll"}
<1>1. <<>> \in Seq(Tokens) /\ <<"bar">> \o rest \in Seq(Tokens)
  BY DEF Tokens
<1>2. CASE file \in {"prog", "exec"}
  <2>1. Image(s, file, rest) = [s EXCEPT !.cmd = file, !.text = rest]
    BY <1>2 DEF Image
  <2> QED
    BY <1>2, <2>1 DEF Process, Places, Commands
<1>3. CASE file = "pipe"
  <2>1. Image(s, file, rest) = [s EXCEPT !.cmd = file, !.text = <<"bar">> \o rest]
    BY <1>3 DEF Image
  <2>2. PICK u \in Seq(Tokens) : u = <<"bar">> \o rest
    BY <1>1
  <2> QED
    BY <1>3, <2>1, <2>2 DEF Process, Places, Commands
<1>4. CASE file = "shellHandler"
  <2>1. Image(s, file, rest) = [s EXCEPT !.pc = "fork", !.cmd = "pipe", !.text = rest]
    BY <1>4 DEF Image
  <2> QED
    BY <2>1 DEF Process, Places, Commands
<1>5. CASE file = "shell"
  <2>1. Image(s, file, rest) = [s EXCEPT !.pc = "poll", !.cmd = file, !.text = <<>>]
    BY <1>5 DEF Image
  <2> QED
    BY <1>1, <1>5, <2>1 DEF Process, Places, Files
<1>6. CASE file = "init"
  <2>1. Image(s, file, rest) = [s EXCEPT !.cmd = file, !.text = <<>>]
    BY <1>6 DEF Image
  <2> QED
    BY <1>1, <1>6, <2>1 DEF Process, Places, Files
<1> QED
  BY <1>2, <1>3, <1>4, <1>5, <1>6 DEF Commands, Files

\* `exec' becomes the program its argument names.
LEMMA RunExecKeeps ==
  ASSUME ConsoleInv, NEW p \in Procs, RunExec(p)
  PROVE  ConsoleInv'
<1>1. PICK args : args = proc[p].text
  OBVIOUS
<1>2. /\ proc \in [Procs -> Process] /\ proc[p] \in Process /\ proc[p].pc = "run"
      /\ UNCHANGED console /\ dir' \in BOOLEAN /\ proc[p].i = 0 /\ args \in Seq(Tokens)
  BY <1>1, Fields, ActiveIs DEF RunExec
<1>3. PICK u : u = IF Len(args) > 1 THEN Tail(args)
                   ELSE IF args[1] = "pipe" THEN <<>> ELSE Absent
  OBVIOUS
<1>4. u \in Seq(Tokens)
  <2>1. Len(args) > 1 => Tail(args) \in Seq(Tokens)
    BY <1>2
  <2> QED
    BY <1>3, <2>1, ConsoleFacts
<1>5. PICK r : r = IF args = <<>> \/ args[1] \notin Commands \cup Files
                   THEN [proc[p] EXCEPT !.pc = "panic"] ELSE Image(proc[p], args[1], u)
  OBVIOUS
<1>6. proc' = [proc EXCEPT ![p] = r]
  BY <1>1, <1>2, <1>3, <1>5 DEF RunExec
<1>7. r \in Process /\ r.pc \in {"panic", "run", "fork", "poll"} /\ r.i = 0
  <2>1. CASE args = <<>> \/ args[1] \notin Commands \cup Files
    BY <1>2, <1>5, <2>1 DEF Process, Places
  <2>2. CASE args # <<>> /\ args[1] \in Commands \cup Files
    BY <1>2, <1>4, <1>5, <2>2, ImageType
  <2> QED
    BY <2>1, <2>2
<1> QED
  BY <1>2, <1>6, <1>7, OwnStep

\* The next line of the demo, or back to main.
LEMMA ScriptKeeps ==
  ASSUME ConsoleInv, NEW p \in Procs, Script(p)
  PROVE  ConsoleInv'
<1>1. /\ proc \in [Procs -> Process] /\ proc[p] \in Process /\ proc[p].pc = "script"
      /\ UNCHANGED console /\ dir' \in BOOLEAN /\ proc[p].i = 0
      /\ proc[p].left \in 0..Len(Demo) /\ Len(Demo) \in Nat
  BY Fields, ActiveIs, ConsoleFacts DEF Script
<1>2. PICK w : w = Demo[Len(Demo) + 1 - proc[p].left]
  OBVIOUS
<1>3. PICK r : r = IF proc[p].left = 0 THEN [proc[p] EXCEPT !.pc = "clear", !.cmd = Nul, !.text = <<>>]
                   ELSE [proc[p] EXCEPT !.pc = "fork", !.text = w, !.left = proc[p].left - 1]
  OBVIOUS
<1>4. proc' = [proc EXCEPT ![p] = r]
  BY <1>1, <1>2, <1>3 DEF Script
<1>5. r \in Process /\ r.pc \in {"clear", "fork"} /\ r.i = 0
  <2>1. CASE proc[p].left = 0
    <3>1. <<>> \in Seq(Tokens)
      OBVIOUS
    <3> QED
      BY <1>1, <1>3, <2>1, <3>1 DEF Process, Places
  <2>2. CASE proc[p].left # 0
    <3>1. Len(Demo) + 1 - proc[p].left \in 1..Len(Demo) /\ proc[p].left - 1 \in 0..Len(Demo)
      BY <1>1, <2>2
    <3>2. w \in Seq(Words)
      BY <1>2, <3>1, ConsoleFacts
    <3>3. w \in Seq(Tokens)
      BY <3>2 DEF Tokens
    <3> QED
      BY <1>1, <1>3, <2>2, <3>1, <3>3 DEF Process, Places
  <2> QED
    BY <2>1, <2>2
<1> QED
  BY <1>1, <1>4, <1>5, OwnStep

\* p starts c, and waits for it: c is the active one.
LEMMA Starts ==
  ASSUME ConsoleInv, NEW p \in Procs, NEW c \in Procs, Unused(c),
         UNCHANGED console, dir' \in BOOLEAN, proc[p].pc \in {"fork", "run"},
         NEW r \in Process, r.pc \in {"dispatch", "poll"}, r.i = 0,
         proc' = [proc EXCEPT ![c] = r, ![p].pc = "wait", ![p].child = c]
  PROVE  ConsoleInv'
<1>1. /\ proc \in [Procs -> Process] /\ proc[p] \in Process /\ proc[c].pc = "free" /\ p # c
      /\ (\A q \in Procs : q # p => proc[q].pc \in {"free", "wait"})
      /\ (\A q \in Procs : proc[q].i = 0)
  BY Fields, ActiveIs DEF Unused
<1>2. PICK s : s = [proc[p] EXCEPT !.pc = "wait", !.child = c]
  OBVIOUS
<1>3. s \in Process /\ s.pc = "wait" /\ s.i = 0 /\ s.child = c
  <2>1. c \in 0..MaxProcs
    BY ConsoleFacts
  <2> QED
    BY <1>1, <1>2, <2>1 DEF Process, Places
<1>4. /\ proc'[c] = r /\ proc'[p] = s
      /\ \A q \in Procs : q # p /\ q # c => proc'[q] = proc[q]
      /\ proc' \in [Procs -> Process]
  <2>1. proc'[c] = r /\ \A q \in Procs : q # p /\ q # c => proc'[q] = proc[q]
    BY <1>1
  <2>2. proc'[p] = s
    BY <1>1, <1>2
  <2>3. DOMAIN proc' = Procs /\ proc' = [q \in Procs |-> proc'[q]]
    BY <1>1
  <2>4. \A q \in Procs : proc'[q] \in Process
    BY <1>1, <1>3, <2>1, <2>2
  <2> QED
    BY <2>1, <2>2, <2>3, <2>4
<1>5. /\ \A q \in Procs : q # c => proc'[q].pc \in {"free", "wait"}
      /\ \A q \in Procs : proc'[q].i = 0
      /\ \A q \in Procs : proc'[q].pc = "wait" => proc'[q].child \in Procs
      /\ proc'[c].pc \in {"dispatch", "poll"}
  BY <1>1, <1>3, <1>4 DEF ConsoleInv, ParentsOk
<1> QED
  BY ONLY ConsoleInv, p \in Procs, c \in Procs, UNCHANGED console, dir' \in BOOLEAN,
          proc[p].pc \in {"fork", "run"}, <1>1, <1>4, <1>5, QuietStep

\* fork: the child has the text of its parent.
LEMMA ForkKeeps ==
  ASSUME ConsoleInv, NEW p \in Procs, NEW c \in Procs, Fork(p, c)
  PROVE  ConsoleInv'
<1>1. /\ proc[p].pc = "fork" /\ Unused(c) /\ proc[p].text \in Seq(Tokens)
      /\ UNCHANGED console /\ dir' \in BOOLEAN
  BY Fields DEF Fork
<1>2. PICK r : r = [Free EXCEPT !.pc = "dispatch", !.text = proc[p].text,
                                !.cmd = IF proc[p].cmd = "pipe" THEN "pipe" ELSE Nul]
  OBVIOUS
<1>3. r \in Process /\ r.pc = "dispatch" /\ r.i = 0
  <2>1. 0 \in 0..MaxProcs /\ 0 \in 0..Len(Demo) /\ 0 \in Nat
    BY ConsoleFacts
  <2> QED
    BY <1>1, <1>2, <2>1 DEF Free, Process, Places, Commands
<1>4. proc' = [proc EXCEPT ![c] = r, ![p].pc = "wait", ![p].child = c]
  BY <1>2 DEF Fork
<1> QED
  BY <1>1, <1>3, <1>4, Starts

\* init starts a shell, or faults.
LEMMA RunInitKeeps ==
  ASSUME ConsoleInv, NEW p \in Procs, NEW c \in Procs, RunInit(p, c)
  PROVE  ConsoleInv'
<1>1. /\ proc \in [Procs -> Process] /\ proc[p] \in Process /\ proc[p].pc = "run" /\ Unused(c)
      /\ UNCHANGED console /\ dir' \in BOOLEAN /\ proc[p].i = 0
  BY Fields, ActiveIs DEF RunInit
<1>2. CASE proc' = [proc EXCEPT ![c] = [Free EXCEPT !.pc = "poll", !.cmd = "shell"],
                                ![p].pc = "wait", ![p].child = c]
  <2>1. PICK r : r = [Free EXCEPT !.pc = "poll", !.cmd = "shell"]
    OBVIOUS
  <2>2. r \in Process /\ r.pc = "poll" /\ r.i = 0
    <3>1. 0 \in 0..MaxProcs /\ 0 \in 0..Len(Demo) /\ 0 \in Nat /\ <<>> \in Seq(Tokens)
      BY ConsoleFacts
    <3> QED
      BY <2>1, <3>1 DEF Free, Process, Places, Files
  <2>3. proc' = [proc EXCEPT ![c] = r, ![p].pc = "wait", ![p].child = c]
    BY <1>2, <2>1
  <2> QED
    BY <1>1, <2>2, <2>3, Starts
<1>3. CASE proc' = [proc EXCEPT ![p].pc = "panic"]
  <2>1. PICK r : r = [proc[p] EXCEPT !.pc = "panic"]
    OBVIOUS
  <2>2. r \in Process /\ r.pc = "panic" /\ r.i = 0
    BY <1>1, <2>1 DEF Process, Places
  <2>3. proc' = [proc EXCEPT ![p] = r]
    BY <1>1, <1>3, <2>1
  <2> QED
    BY <1>1, <2>2, <2>3, OwnStep
<1> QED
  BY <1>2, <1>3 DEF RunInit

\* wait gives the place of the active one back to the parent.
LEMMA WaitKeeps ==
  ASSUME ConsoleInv, NEW p \in Procs, Wait(p)
  PROVE  ConsoleInv'
<1>1. /\ proc \in [Procs -> Process] /\ proc[p] \in Process /\ proc[p].pc = "wait"
      /\ UNCHANGED console /\ dir' \in BOOLEAN
  BY Fields DEF Wait
<1>2. PICK c : c = proc[p].child
  OBVIOUS
<1>3. proc[c].pc = "exited"
  BY <1>2 DEF Wait
<1>4. c \in Procs /\ c # p
  BY <1>1, <1>2, <1>3 DEF ConsoleInv, ParentsOk
<1>5. /\ (\A q \in Procs : q # c => proc[q].pc \in {"free", "wait"})
      /\ (\A q \in Procs : proc[q].i = 0)
  BY <1>3, <1>4, ActiveIs
<1>6. PICK l \in {"exited", "script", "clear"} : l = After(p)
  BY DEF After
<1>7. PICK r : r = [proc[p] EXCEPT !.pc = l, !.child = 0, !.text = <<>>]
  OBVIOUS
<1>8. r \in Process /\ r.pc = l /\ r.i = 0
  <2>1. 0 \in 0..MaxProcs /\ <<>> \in Seq(Tokens)
    BY ConsoleFacts
  <2> QED
    BY <1>1, <1>5, <1>6, <1>7, <2>1 DEF Process, Places
<1>9. Free \in Process /\ Free.pc = "free" /\ Free.i = 0
  <2>1. 0 \in 0..MaxProcs /\ 0 \in 0..Len(Demo) /\ 0 \in Nat /\ <<>> \in Seq(Tokens)
    BY ConsoleFacts
  <2> QED
    BY <2>1 DEF Free, Process, Places
<1>10. /\ proc'[c] = Free /\ proc'[p] = r
       /\ \A q \in Procs : q # p /\ q # c => proc'[q] = proc[q]
       /\ proc' \in [Procs -> Process]
  <2>1. proc' = [proc EXCEPT ![c] = Free, ![p].pc = l, ![p].child = 0, ![p].text = <<>>]
    BY <1>2, <1>6 DEF Wait
  <2>2. proc'[c] = Free /\ \A q \in Procs : q # p /\ q # c => proc'[q] = proc[q]
    BY <1>1, <1>4, <2>1
  <2>3. proc'[p] = r
    BY <1>1, <1>4, <1>7, <2>1
  <2>4. DOMAIN proc' = Procs /\ proc' = [q \in Procs |-> proc'[q]]
    BY <1>1, <2>1
  <2>5. \A q \in Procs : proc'[q] \in Process
    BY <1>1, <1>8, <1>9, <2>2, <2>3
  <2> QED
    BY <2>2, <2>3, <2>4, <2>5
<1>11. /\ \A q \in Procs : q # p => proc'[q].pc \in {"free", "wait"}
       /\ \A q \in Procs : proc'[q].i = 0
       /\ \A q \in Procs : proc'[q].pc = "wait" => proc'[q].child \in Procs
       /\ proc'[p].pc \in {"exited", "script", "clear"}
  BY <1>5, <1>6, <1>8, <1>9, <1>10 DEF ConsoleInv, ParentsOk
<1> QED
  BY <1>1, <1>3, <1>4, <1>10, <1>11, QuietStep

-----------------------------------------------------------------------------
(* setDone() *)

\* A step of the active process that leaves the others alone.
LEMMA Moves ==
  ASSUME ConsoleInv, NEW p \in Procs, NEW r \in Process, proc' = [proc EXCEPT ![p] = r],
         proc[p].pc \notin {"free", "wait"}, r.pc # "wait"
  PROVE  /\ proc' \in [Procs -> Process] /\ proc'[p] = r
         /\ \A q \in Procs : q # p => proc'[q] = proc[q] /\ proc[q].pc \in {"free", "wait"}
         /\ OneActive' /\ ParentsOk'
<1>1. proc \in [Procs -> Process]
  BY DEF ConsoleInv, ConsoleTypes
<1>2. proc' \in [Procs -> Process] /\ proc'[p] = r /\ \A q \in Procs : q # p => proc'[q] = proc[q]
  BY <1>1
<1>3. \A q \in Procs : q # p => proc[q].pc \in {"free", "wait"}
  BY DEF ConsoleInv, OneActive
<1>4. OneActive'
  BY <1>2, <1>3 DEF OneActive
<1>5. ParentsOk'
  BY <1>2 DEF ConsoleInv, ParentsOk
<1> QED
  BY <1>2, <1>3, <1>4, <1>5

\* A step of setDone up to bufSize: what the phases and the line need of it.
LEMMA SetDoneStep ==
  ASSUME ConsoleInv, NEW p \in Procs, NEW r \in Process, proc' = [proc EXCEPT ![p] = r],
         proc[p].pc \in {"clear", "size"}, r.pc \in {"clear", "size", "flag"},
         r.pc # "clear" => r.i = 0, r.pc = "flag" => bufSize' = 0,
         done' = done, irq' = irq, typed' = typed, line' = line, touched' = touched, ahead' = ahead
  PROVE  PhaseOk' /\ LineOk'
<1>1. PhaseOk /\ LineOk
  BY DEF ConsoleInv
<1>2. /\ proc'[p] = r
      /\ \A q \in Procs : q # p => proc'[q] = proc[q] /\ proc[q].pc \in {"free", "wait"}
  BY Moves
<1>3. done
  BY <1>1 DEF PhaseOk
<1>4. ~touched => Quiet'
  <2>1. \A q \in Procs : proc'[q].pc = "flag" => bufSize' = 0
    BY <1>2
  <2> QED
    BY <1>1, <1>3, <2>1 DEF PhaseOk, Quiet
<1>5. PhaseOk'
  BY <1>1, <1>2, <1>3, <1>4 DEF PhaseOk
<1>6. Answering'
  <2>1. ~(\A q \in Procs : proc'[q].pc \notin {"clear", "size", "flag"})
    BY <1>2
  <2>2. \A q \in Procs : proc'[q].pc \notin {"exec", "copy"}
    BY <1>2
  <2> QED
    BY <2>1, <2>2 DEF Answering
<1> QED
  BY <1>3, <1>5, <1>6 DEF LineOk

\* setDone clears a byte, or has cleared all of them.
LEMMA ClearByteKeeps ==
  ASSUME ConsoleInv, NEW p \in Procs, ClearByte(p)
  PROVE  ConsoleInv'
<1>1. /\ proc \in [Procs -> Process] /\ proc[p] \in Process /\ proc[p].pc = "clear"
      /\ proc[p].i \in Nat
  BY Fields DEF ClearByte
<1>2. /\ bufSize' = bufSize /\ done' = done /\ irq' = irq /\ keys' = keys /\ typed' = typed
      /\ line' = line /\ dir' = dir /\ touched' = touched /\ ahead' = ahead
  BY DEF ClearByte, device
<1>3. PICK i : i = proc[p].i
  OBVIOUS
<1>4. ConsoleTypes /\ bufSize \in Nat /\ keys \in 0..MaxKeys /\ bufSize <= keys
  BY DEF ConsoleInv, ConsoleTypes
<1>5. done' \in BOOLEAN /\ dir' \in BOOLEAN /\ touched' \in BOOLEAN /\ ahead' \in BOOLEAN
  BY <1>2, <1>4 DEF ConsoleTypes
<1>6. CASE i < bufSize
  <2>1. PICK r : r = [proc[p] EXCEPT !.i = i + 1]
    OBVIOUS
  <2>2. r \in Process /\ r.pc = "clear"
    <3>1. PICK k : k = i + 1
      OBVIOUS
    <3>2. k \in Nat
      BY <1>1, <1>3, <3>1
    <3>3. r \in Process /\ r.pc = "clear"
      BY <1>1, <2>1, <3>1, <3>2 DEF Process
    <3> QED
      BY <3>3
  <2>3. proc' = [proc EXCEPT ![p] = r] /\ buf' = [buf EXCEPT ![i] = Nul]
    BY <1>1, <1>3, <1>6, <2>1 DEF ClearByte
  <2>4. proc' \in [Procs -> Process] /\ OneActive' /\ ParentsOk'
    BY <1>1, <2>2, <2>3, Moves
  <2>5. buf' \in [BufIndex -> Words \cup {Nul}]
    BY <1>4, <2>3 DEF ConsoleTypes
  <2>6. ConsoleTypes'
    BY <1>2, <1>4, <1>5, <2>4, <2>5 DEF ConsoleTypes
  <2>7. PhaseOk' /\ LineOk'
    BY <1>1, <1>2, <2>2, <2>3, SetDoneStep
  <2> QED
    BY <2>4, <2>6, <2>7 DEF ConsoleInv
<1>7. CASE ~(i < bufSize)
  <2>1. PICK r : r = [proc[p] EXCEPT !.i = 0, !.pc = "size"]
    OBVIOUS
  <2>2. r \in Process /\ r.pc = "size" /\ r.i = 0
    BY <1>1, <2>1 DEF Process, Places
  <2>3. proc' = [proc EXCEPT ![p] = r] /\ buf' = buf
    BY <1>1, <1>3, <1>7, <2>1 DEF ClearByte
  <2>4. proc' \in [Procs -> Process] /\ OneActive' /\ ParentsOk'
    BY <1>1, <2>2, <2>3, Moves
  <2>5. ConsoleTypes'
    BY <1>2, <1>4, <1>5, <2>3, <2>4 DEF ConsoleTypes
  <2>6. PhaseOk' /\ LineOk'
    BY <1>1, <1>2, <2>2, <2>3, SetDoneStep
  <2> QED
    BY <2>4, <2>5, <2>6 DEF ConsoleInv
<1> QED
  BY <1>6, <1>7

\* setDone sets bufSize to zero.
LEMMA ClearSizeKeeps ==
  ASSUME ConsoleInv, NEW p \in Procs, ClearSize(p)
  PROVE  ConsoleInv'
<1>1. /\ proc \in [Procs -> Process] /\ proc[p] \in Process /\ proc[p].pc = "size"
  BY Fields DEF ClearSize, Step
<1>2. /\ buf' = buf /\ bufSize' = 0 /\ done' = done /\ irq' = irq /\ keys' = keys /\ typed' = typed
      /\ line' = line /\ dir' = dir /\ touched' = touched /\ ahead' = ahead
  BY DEF ClearSize, Step, device
<1>3. ConsoleTypes /\ proc[p].i = 0
  BY <1>1 DEF ConsoleInv, PhaseOk
<1>4. PICK r : r = [proc[p] EXCEPT !.pc = "flag"]
  OBVIOUS
<1>5. r \in Process /\ r.pc = "flag" /\ r.i = 0
  BY <1>1, <1>3, <1>4 DEF Process, Places
<1>6. proc' = [proc EXCEPT ![p] = r]
  BY <1>1, <1>4 DEF ClearSize, Step
<1>7. proc' \in [Procs -> Process] /\ OneActive' /\ ParentsOk'
  BY <1>1, <1>5, <1>6, Moves
<1>8. ConsoleTypes'
  <2>1. done' \in BOOLEAN /\ dir' \in BOOLEAN /\ touched' \in BOOLEAN /\ ahead' \in BOOLEAN
    BY <1>2, <1>3 DEF ConsoleTypes
  <2>2. bufSize' \in Nat /\ bufSize' <= keys /\ (irq.pc # "idle" => bufSize' < keys)
    BY <1>2, <1>3, ConsoleFacts DEF ConsoleTypes
  <2> QED
    BY <1>2, <1>3, <1>7, <2>1, <2>2 DEF ConsoleTypes
<1>9. PhaseOk' /\ LineOk'
  BY <1>1, <1>2, <1>5, <1>6, SetDoneStep
<1> QED
  BY <1>7, <1>8, <1>9 DEF ConsoleInv

\* setDone sets done to false: the shell polls, and if nobody typed, the next line starts
\* at the beginning of buf, whatever buf holds.
LEMMA ClearDoneKeeps ==
  ASSUME ConsoleInv, NEW p \in Procs, ClearDone(p)
  PROVE  ConsoleInv'
<1>1. /\ proc \in [Procs -> Process] /\ proc[p] \in Process /\ proc[p].pc = "flag"
  BY Fields DEF ClearDone, Step
<1>2. /\ buf' = buf /\ bufSize' = bufSize /\ done' = FALSE /\ irq' = irq /\ keys' = keys
      /\ typed' = typed /\ line' = line /\ dir' = dir /\ touched' = FALSE /\ ahead' = touched
  BY DEF ClearDone, Step, device
<1>3. ConsoleTypes /\ PhaseOk /\ proc[p].i = 0
  BY <1>1 DEF ConsoleInv, PhaseOk
<1>4. PICK r : r = [proc[p] EXCEPT !.pc = "poll"]
  OBVIOUS
<1>5. r \in Process /\ r.pc = "poll" /\ r.i = 0
  BY <1>1, <1>3, <1>4 DEF Process, Places
<1>6. proc' = [proc EXCEPT ![p] = r]
  BY <1>1, <1>4 DEF ClearDone, Step
<1>7. /\ proc' \in [Procs -> Process] /\ proc'[p] = r
      /\ \A q \in Procs : q # p => proc'[q] = proc[q] /\ proc[q].pc \in {"free", "wait"}
      /\ OneActive' /\ ParentsOk'
  BY <1>1, <1>5, <1>6, Moves
<1>8. ConsoleTypes'
  <2>1. done' \in BOOLEAN /\ dir' \in BOOLEAN /\ touched' \in BOOLEAN /\ ahead' \in BOOLEAN
    BY <1>2, <1>3 DEF ConsoleTypes
  <2> QED
    BY <1>2, <1>3, <1>7, <2>1 DEF ConsoleTypes
<1>9. PhaseOk'
  BY <1>2, <1>3, <1>5, <1>7 DEF PhaseOk
<1>10. ASSUME ~touched PROVE Typing'
  <2>1. bufSize = 0 /\ irq.pc = "idle" /\ typed = <<>> /\ Len(typed) = 0
    BY <1>1, <1>3, <1>10 DEF PhaseOk, Quiet
  <2>2. Holds(typed, Len(typed))'
    <3>1. \A j \in BufIndex : ~(j < 0)
      BY ConsoleFacts
    <3> QED
      BY <1>2, <2>1, <3>1 DEF Holds
  <2> QED
    BY <1>2, <2>1, <2>2 DEF Typing
<1>11. LineOk'
  BY <1>2, <1>10 DEF LineOk
<1> QED
  BY <1>7, <1>8, <1>9, <1>11 DEF ConsoleInv

-----------------------------------------------------------------------------
(* The interrupt handler *)

\* The handler leaves the processes alone.
LEMMA HandlerMoves ==
  ASSUME ConsoleInv, proc' = proc
  PROVE  /\ OneActive' /\ ParentsOk'
         /\ \A p \in Procs : proc'[p].pc # "clear" => proc'[p].i = 0
  BY DEF ConsoleInv, OneActive, ParentsOk, PhaseOk

\* While the handler runs, and nobody has typed ahead, the line is being typed.
LEMMA TypingIs ==
  ASSUME ConsoleInv, ~ahead, ~done \/ irq.pc # "idle"
  PROVE  ~done /\ Typing
<1>1. ~touched
  BY DEF ConsoleInv, PhaseOk
<1>2. ~done
  BY <1>1 DEF ConsoleInv, PhaseOk, Quiet
<1> QED
  BY <1>2 DEF ConsoleInv, LineOk

\* The types of the device.
LEMMA DeviceFacts ==
  ASSUME ConsoleInv
  PROVE  /\ ConsoleTypes /\ proc \in [Procs -> Process] /\ done \in BOOLEAN
         /\ dir \in BOOLEAN /\ touched \in BOOLEAN /\ ahead \in BOOLEAN
         /\ bufSize \in Nat /\ keys \in Nat /\ keys <= MaxKeys /\ bufSize <= keys
         /\ buf \in [BufIndex -> Words \cup {Nul}]
         /\ typed \in Seq(Words) /\ line \in Seq(Words) /\ Len(typed) \in Nat
         /\ irq \in [pc : {"idle", "store", "load", "inc", "done"},
                     letter : Words \cup {Nul, Newline}, tmp : Nat]
         /\ irq.pc \in {"idle", "store", "load", "inc", "done"} /\ irq.tmp \in Nat
         /\ irq.letter \in Words \cup {Nul, Newline}
         /\ (irq.pc # "idle" => bufSize < keys /\ irq.letter # Nul)
         /\ \A j \in BufIndex : j \in Nat
<1>1. ConsoleTypes
  BY DEF ConsoleInv
<1> QED
  BY <1>1, ConsoleFacts DEF ConsoleTypes

\* The handler's locals before the interrupt.
LEMMA IdleType ==
  /\ Idle \in [pc : {"idle", "store", "load", "inc", "done"},
               letter : Words \cup {Nul, Newline}, tmp : Nat]
  /\ Idle.pc = "idle"
<1>1. 0 \in Nat
  OBVIOUS
<1> QED
  BY <1>1 DEF Idle

\* A step of the handler after the interrupt: somebody types, so nothing is quiet.
LEMMA HandlerPhase ==
  ASSUME ConsoleInv, irq.pc # "idle", proc' = proc, done' = done, typed' = typed,
         touched' = touched, ahead' = ahead,
         irq'.pc # "idle" => irq'.letter = irq.letter,
         irq'.pc = "done" => irq.letter = Newline
  PROVE  PhaseOk'
<1>1. PhaseOk
  BY DEF ConsoleInv
<1>2. ~(done /\ ~touched)
  BY <1>1 DEF PhaseOk, Quiet
<1> QED
  BY <1>1, <1>2 DEF PhaseOk

\* A key: the letter, or the end of the line.
LEMMA KeyKeeps ==
  ASSUME ConsoleInv, NEW k \in Words \cup {Newline}, Key(k)
  PROVE  ConsoleInv'
<1>1. /\ irq.pc = "idle" /\ keys < MaxKeys /\ keys' = keys + 1
      /\ typed' = (IF k = Newline THEN <<>> ELSE Append(typed, k))
      /\ line' = (IF k = Newline THEN typed ELSE line)
      /\ (touched' <=> (touched \/ done)) /\ touched' \in BOOLEAN
      /\ (ahead' <=> (ahead \/ done)) /\ ahead' \in BOOLEAN
      /\ buf' = buf /\ bufSize' = bufSize /\ done' = done /\ dir' = dir /\ proc' = proc
  BY DEF Key
<1>2. /\ irq' \in [pc : {"idle", "store", "load", "inc", "done"},
                   letter : Words \cup {Nul, Newline}, tmp : Nat]
      /\ irq'.pc = "store" /\ irq'.letter = k
  BY DEF Key, Idle
<1>3. k # Nul
  BY ConsoleFacts
<1>4. typed' \in Seq(Words) /\ line' \in Seq(Words)
  <2>1. CASE k = Newline
    <3>1. <<>> \in Seq(Words)
      OBVIOUS
    <3> QED
      BY <1>1, <2>1, <3>1, DeviceFacts
  <2>2. CASE k # Newline
    BY <1>1, <2>2, DeviceFacts
  <2> QED
    BY <2>1, <2>2
<1>5. ConsoleTypes'
  <2>1. keys' \in 0..MaxKeys /\ bufSize' <= keys' /\ bufSize' < keys' /\ bufSize' \in Nat
    BY <1>1, DeviceFacts, ConsoleFacts
  <2>2. /\ done' \in BOOLEAN /\ dir' \in BOOLEAN
        /\ buf' \in [BufIndex -> Words \cup {Nul}] /\ proc' \in [Procs -> Process]
    BY <1>1, DeviceFacts
  <2> QED
    BY <1>1, <1>2, <1>3, <1>4, <2>1, <2>2 DEF ConsoleTypes
<1>6. OneActive' /\ ParentsOk' /\ \A p \in Procs : proc'[p].pc # "clear" => proc'[p].i = 0
  BY <1>1, HandlerMoves
<1>7. PhaseOk'
  <2>1. PhaseOk
    BY DEF ConsoleInv
  <2>2. ~(done' /\ ~touched')
    BY <1>1
  <2>3. ~done' => \A p \in Procs : proc'[p].pc \in {"free", "wait", "poll"}
    BY <1>1, <2>1 DEF PhaseOk
  <2>4. ~ahead' => ~touched'
    BY <1>1, <2>1 DEF PhaseOk
  <2> QED
    BY <1>1, <1>2, <1>6, <2>2, <2>3, <2>4 DEF PhaseOk
<1>8. ASSUME ~ahead' PROVE ~done' /\ Typing'
  <2>1. ~ahead /\ ~done
    BY <1>1, <1>8
  <2>2. Typing
    BY <2>1, TypingIs
  <2>3. bufSize = Len(typed) /\ Holds(typed, Len(typed))
    BY <1>1, <2>2 DEF Typing
  <2>4. CASE k = Newline
    <3>1. line' = typed /\ bufSize' = Len(line')
      BY <1>1, <2>3, <2>4
    <3>2. Holds(line, Len(line))'
      BY <1>1, <2>3, <3>1 DEF Holds
    <3> QED
      BY <1>1, <1>2, <2>1, <2>4, <3>1, <3>2 DEF Typing
  <2>5. CASE k # Newline
    <3>1. /\ typed' = Append(typed, k) /\ typed \in Seq(Words) /\ k \in Words
      BY <1>1, <2>5, DeviceFacts
    <3>2. /\ Len(typed') = Len(typed) + 1 /\ typed'[Len(typed) + 1] = k
          /\ \A j \in 1..Len(typed) : typed'[j] = typed[j]
      BY ONLY <3>1
    <3>3. Holds(typed, bufSize)'
      <4>1. \A j \in BufIndex : j < bufSize => j + 1 \in 1..Len(typed)
        BY <2>3, DeviceFacts
      <4> QED
        BY <1>1, <2>3, <3>2, <4>1 DEF Holds
    <3>4. Len(typed') = bufSize' + 1 /\ typed'[bufSize' + 1] = k
      BY <1>1, <2>3, <3>2
    <3> QED
      BY <1>1, <1>2, <2>1, <2>5, <3>3, <3>4 DEF Typing
  <2> QED
    BY <2>4, <2>5
<1>9. LineOk'
  BY <1>8 DEF LineOk
<1> QED
  BY <1>5, <1>6, <1>7, <1>9 DEF ConsoleInv

\* The letter goes to buf[bufSize].
LEMMA StoreLetterKeeps ==
  ASSUME ConsoleInv, StoreLetter
  PROVE  ConsoleInv'
<1>1. /\ irq.pc = "store" /\ bufSize' = bufSize /\ done' = done /\ proc' = proc /\ keys' = keys
      /\ typed' = typed /\ line' = line /\ dir' = dir /\ touched' = touched /\ ahead' = ahead
  BY DEF StoreLetter
<1>2. PICK v : v = IF irq.letter = Newline THEN Nul ELSE irq.letter
  OBVIOUS
<1>3. PICK l \in {"done", "load"} : l = IF irq.letter = Newline THEN "done" ELSE "load"
  OBVIOUS
<1>4. /\ irq' = [irq EXCEPT !.pc = l] /\ buf' = [buf EXCEPT ![bufSize] = v]
  BY <1>2, <1>3 DEF StoreLetter
<1>5. /\ irq' \in [pc : {"idle", "store", "load", "inc", "done"},
                   letter : Words \cup {Nul, Newline}, tmp : Nat]
      /\ irq'.pc = l /\ irq'.letter = irq.letter /\ irq'.tmp = irq.tmp
  BY <1>3, <1>4, DeviceFacts
<1>6. bufSize \in BufIndex /\ v \in Words \cup {Nul}
  BY <1>1, <1>2, DeviceFacts, ConsoleFacts
<1>7. /\ buf' \in [BufIndex -> Words \cup {Nul}]
      /\ \A j \in BufIndex : buf'[j] = IF j = bufSize THEN v ELSE buf[j]
  BY <1>4, <1>6, DeviceFacts
<1>8. ConsoleTypes'
  <2>1. done' \in BOOLEAN /\ dir' \in BOOLEAN /\ touched' \in BOOLEAN /\ ahead' \in BOOLEAN
    BY <1>1, DeviceFacts
  <2> QED
    BY <1>1, <1>3, <1>5, <1>7, <2>1, DeviceFacts DEF ConsoleTypes
<1>9. ASSUME ~ahead PROVE ~done /\ Typing'
  <2>1. ~done /\ Typing
    BY <1>1, <1>9, TypingIs
  <2>2. CASE irq.letter = Newline
    <3>1. bufSize = Len(line) /\ Holds(line, Len(line)) /\ v = Nul /\ l = "done"
      BY <1>1, <1>2, <1>3, <2>1, <2>2 DEF Typing
    <3>2. Holds(line, Len(line))'
      <4>1. ~(bufSize < bufSize)
        BY DeviceFacts
      <4>2. bufSize' = Len(line') /\ line' = line
        BY <1>1, <3>1
      <4> QED
        BY <1>1, <1>7, <3>1, <4>1, <4>2 DEF Holds
    <3>3. LineIn'
      BY <1>1, <1>6, <1>7, <3>1, <3>2 DEF LineIn
    <3>4. irq'.pc = "done" /\ irq'.letter = Newline
      BY <1>5, <2>2, <3>1
    <3> QED
      BY <2>1, <3>3, <3>4 DEF Typing
  <2>3. CASE irq.letter # Newline
    <3>1. /\ Len(typed) = bufSize + 1 /\ typed[bufSize + 1] = irq.letter /\ Holds(typed, bufSize)
          /\ v = irq.letter /\ l = "load"
      BY <1>1, <1>2, <1>3, <2>1, <2>3 DEF Typing
    <3>2. \A j \in BufIndex : j < bufSize + 1 <=> (j < bufSize \/ j = bufSize)
      BY DeviceFacts
    <3>3. \A j \in BufIndex : j < bufSize + 1 => buf'[j] = typed[j + 1]
      BY <1>7, <3>1, <3>2 DEF Holds
    <3>4. Holds(typed, bufSize + 1)'
      BY <1>1, <3>3 DEF Holds
    <3>5. /\ irq'.pc = "load" /\ irq'.letter # Newline
          /\ Len(typed') = bufSize' + 1 /\ typed'[bufSize' + 1] = irq'.letter
      BY <1>1, <1>5, <2>3, <3>1
    <3> QED
      BY <2>1, <3>4, <3>5 DEF Typing
  <2> QED
    BY <2>1, <2>2, <2>3
<1>10. OneActive' /\ ParentsOk'
  BY <1>1, HandlerMoves
<1>11. PhaseOk'
  BY <1>1, <1>3, <1>5, HandlerPhase
<1>12. LineOk'
  BY <1>1, <1>9 DEF LineOk
<1> QED
  BY <1>8, <1>10, <1>11, <1>12 DEF ConsoleInv

\* bufSize++ reads bufSize.
LEMMA LoadSizeKeeps ==
  ASSUME ConsoleInv, LoadSize
  PROVE  ConsoleInv'
<1>1. /\ irq.pc = "load" /\ buf' = buf /\ bufSize' = bufSize /\ done' = done /\ proc' = proc
      /\ keys' = keys /\ typed' = typed /\ line' = line
      /\ dir' = dir /\ touched' = touched /\ ahead' = ahead
      /\ irq' = [irq EXCEPT !.pc = "inc", !.tmp = bufSize]
  BY DEF LoadSize
<1>2. /\ irq' \in [pc : {"idle", "store", "load", "inc", "done"},
                   letter : Words \cup {Nul, Newline}, tmp : Nat]
      /\ irq'.pc = "inc" /\ irq'.letter = irq.letter /\ irq'.tmp = bufSize
  BY <1>1, DeviceFacts
<1>3. ConsoleTypes'
  <2>1. done' \in BOOLEAN /\ dir' \in BOOLEAN /\ touched' \in BOOLEAN /\ ahead' \in BOOLEAN
    BY <1>1, DeviceFacts
  <2> QED
    BY <1>1, <1>2, <2>1, DeviceFacts DEF ConsoleTypes
<1>4. ASSUME ~ahead PROVE ~done /\ Typing'
  <2>1. ~done /\ Typing
    BY <1>1, <1>4, TypingIs
  <2>2. /\ irq.letter # Newline /\ Len(typed) = bufSize + 1 /\ typed[bufSize + 1] = irq.letter
        /\ Holds(typed, bufSize + 1)
    BY <1>1, <2>1 DEF Typing
  <2>3. Holds(typed, bufSize + 1)'
    BY <1>1, <2>2 DEF Holds
  <2> QED
    BY <1>1, <1>2, <2>1, <2>2, <2>3 DEF Typing
<1>5. OneActive' /\ ParentsOk'
  BY <1>1, HandlerMoves
<1>6. PhaseOk'
  BY <1>1, <1>2, HandlerPhase
<1>7. LineOk'
  BY <1>1, <1>4 DEF LineOk
<1> QED
  BY <1>3, <1>5, <1>6, <1>7 DEF ConsoleInv

\* bufSize++ writes bufSize: for a user who types ahead, over what setDone wrote.
LEMMA IncSizeKeeps ==
  ASSUME ConsoleInv, IncSize
  PROVE  ConsoleInv'
<1>1. /\ irq.pc = "inc" /\ buf' = buf /\ bufSize' = irq.tmp + 1 /\ done' = done /\ proc' = proc
      /\ keys' = keys /\ typed' = typed /\ line' = line /\ irq' = Idle
      /\ dir' = dir /\ touched' = touched /\ ahead' = ahead
  BY DEF IncSize
<1>2. ConsoleTypes'
  <2>1. done' \in BOOLEAN /\ dir' \in BOOLEAN /\ touched' \in BOOLEAN /\ ahead' \in BOOLEAN
    BY <1>1, DeviceFacts
  <2>2. irq.tmp < keys
    BY <1>1 DEF ConsoleInv, ConsoleTypes
  <2>3. bufSize' \in Nat /\ bufSize' <= keys /\ keys \in 0..MaxKeys
    BY <1>1, <2>2, DeviceFacts, ConsoleFacts
  <2> QED
    BY <1>1, <2>1, <2>3, DeviceFacts, IdleType DEF ConsoleTypes
<1>3. ASSUME ~ahead PROVE ~done /\ Typing'
  <2>1. ~done /\ Typing
    BY <1>1, <1>3, TypingIs
  <2>2. /\ irq.letter # Newline /\ Len(typed) = bufSize + 1 /\ irq.tmp = bufSize
        /\ Holds(typed, bufSize + 1)
    BY <1>1, <2>1 DEF Typing
  <2>3. Holds(typed, Len(typed))' /\ bufSize' = Len(typed')
    BY <1>1, <2>2 DEF Holds
  <2> QED
    BY <1>1, <2>1, <2>3, IdleType DEF Typing
<1>4. OneActive' /\ ParentsOk'
  BY <1>1, HandlerMoves
<1>5. PhaseOk'
  BY <1>1, IdleType, HandlerPhase
<1>6. LineOk'
  BY <1>1, <1>3 DEF LineOk
<1> QED
  BY <1>2, <1>4, <1>5, <1>6 DEF ConsoleInv

\* The line is done.
LEMMA SetLineDoneKeeps ==
  ASSUME ConsoleInv, SetLineDone
  PROVE  ConsoleInv'
<1>1. /\ irq.pc = "done" /\ buf' = buf /\ bufSize' = bufSize /\ done' = TRUE /\ proc' = proc
      /\ keys' = keys /\ typed' = typed /\ line' = line /\ irq' = Idle
      /\ dir' = dir /\ touched' = touched /\ ahead' = ahead
  BY DEF SetLineDone
<1>2. ConsoleTypes'
  <2>1. done' \in BOOLEAN /\ dir' \in BOOLEAN /\ touched' \in BOOLEAN /\ ahead' \in BOOLEAN
    BY <1>1, DeviceFacts
  <2>2. keys \in 0..MaxKeys
    BY DeviceFacts, ConsoleFacts
  <2> QED
    BY <1>1, <2>1, <2>2, DeviceFacts, IdleType DEF ConsoleTypes
<1>3. PhaseOk
  BY DEF ConsoleInv
<1>4. OneActive' /\ ParentsOk' /\ \A p \in Procs : proc'[p].pc # "clear" => proc'[p].i = 0
  BY <1>1, HandlerMoves
<1>5. PhaseOk'
  <2>1. irq'.pc = "idle" /\ typed' = <<>>
    BY <1>1, <1>3, IdleType DEF PhaseOk
  <2>2. ~touched => \A p \in Procs : proc'[p].pc # "flag"
    BY <1>1, <1>3 DEF PhaseOk, Quiet
  <2>3. ~touched' => Quiet'
    BY <1>1, <2>1, <2>2 DEF Quiet
  <2> QED
    BY <1>1, <1>3, <1>4, <2>1, <2>3 DEF PhaseOk
<1>6. ASSUME ~ahead PROVE Answering'
  <2>1. ~done /\ Typing
    BY <1>1, <1>6, TypingIs
  <2>2. LineIn'
    BY <1>1, <2>1 DEF Typing, LineIn, Holds
  <2>3. \A p \in Procs : proc'[p].pc \notin {"exec", "copy"}
    BY <1>1, <1>3, <2>1 DEF PhaseOk
  <2> QED
    BY <2>2, <2>3 DEF Answering
<1>7. LineOk'
  BY <1>1, <1>6 DEF LineOk
<1> QED
  BY <1>2, <1>4, <1>5, <1>7 DEF ConsoleInv

-----------------------------------------------------------------------------
(* The theorems *)

\* The shell polls, and buf is empty.
LEMMA ConsoleStarts == Init => ConsoleInv
<1> SUFFICES ASSUME Init PROVE ConsoleInv
  OBVIOUS
<1>1. /\ Free \in Process /\ Free.pc = "free" /\ Free.i = 0
      /\ [Free EXCEPT !.pc = "poll"] \in Process
      /\ [Free EXCEPT !.pc = "poll"].pc = "poll" /\ [Free EXCEPT !.pc = "poll"].i = 0
  <2>1. 0 \in 0..MaxProcs /\ 0 \in 0..Len(Demo) /\ 0 \in Nat /\ <<>> \in Seq(Tokens)
    BY ConsoleFacts
  <2> QED
    BY <2>1 DEF Free, Process, Places
<1>2. /\ proc \in [Procs -> Process] /\ proc[1].pc = "poll" /\ 1 \in Procs
      /\ \A p \in Procs : p # 1 => proc[p].pc = "free"
      /\ \A p \in Procs : proc[p].i = 0
  BY <1>1, ConsoleFacts DEF Init
<1>3. ConsoleTypes
  <2>1. <<>> \in Seq(Words) /\ 0 \in 0..MaxKeys /\ 0 \in Nat /\ 0 <= 0
    BY ConsoleFacts
  <2>2. buf \in [BufIndex -> Words \cup {Nul}]
    BY DEF Init
  <2> QED
    BY <1>2, <2>1, <2>2, IdleType DEF Init, ConsoleTypes
<1>4. OneActive /\ ParentsOk
  BY <1>2 DEF OneActive, ParentsOk
<1>5. irq.pc = "idle" /\ typed = <<>> /\ Len(typed) = 0 /\ bufSize = 0 /\ ~done /\ ~touched
  BY IdleType DEF Init
<1>6. PhaseOk
  BY <1>2, <1>5 DEF PhaseOk
<1>7. Typing
  <2>1. \A j \in BufIndex : ~(j < 0)
    BY ConsoleFacts
  <2>2. Holds(typed, Len(typed))
    BY <1>5, <2>1 DEF Holds
  <2> QED
    BY <1>5, <2>2 DEF Typing
<1>8. LineOk
  BY <1>5, <1>7 DEF LineOk
<1> QED
  BY <1>3, <1>4, <1>6, <1>8 DEF ConsoleInv

\* Every step keeps the invariant.
LEMMA ConsoleSteps == ConsoleInv /\ [Next]_vars => ConsoleInv'
<1> SUFFICES ASSUME ConsoleInv, [Next]_vars PROVE ConsoleInv'
  OBVIOUS
<1>1. ASSUME NEW k \in Words \cup {Newline}, Key(k) PROVE ConsoleInv'
  BY <1>1, KeyKeeps
<1>2. CASE Handler
  BY <1>2, StoreLetterKeeps, LoadSizeKeeps, IncSizeKeeps, SetLineDoneKeeps DEF Handler
<1>3. ASSUME NEW p \in Procs, ProcStep(p) PROVE ConsoleInv'
  <2>1. CASE Poll(p)
    BY <2>1, PollKeeps
  <2>2. CASE ClearByte(p)
    BY <2>2, ClearByteKeeps
  <2>3. CASE ClearSize(p)
    BY <2>3, ClearSizeKeeps
  <2>4. CASE ClearDone(p)
    BY <2>4, ClearDoneKeeps
  <2>5. ASSUME NEW c \in Procs, Fork(p, c) PROVE ConsoleInv'
    BY <2>5, ForkKeeps
  <2>6. ASSUME NEW c \in Procs, RunInit(p, c) PROVE ConsoleInv'
    BY <2>6, RunInitKeeps
  <2>7. CASE Dispatch(p)
    BY <2>7, DispatchKeeps
  <2>8. CASE Exec(p)
    BY <2>8, ExecKeeps
  <2>9. CASE Copy(p)
    BY <2>9, CopyKeeps
  <2>10. CASE RunProg(p) \/ ProgFaults(p)
    BY <2>10, RunKeeps
  <2>11. CASE RunLs(p)
    BY <2>11, RunLsKeeps
  <2>12. CASE RunExec(p)
    BY <2>12, RunExecKeeps
  <2>13. CASE Wait(p)
    BY <2>13, WaitKeeps
  <2>14. CASE Script(p)
    BY <2>14, ScriptKeeps
  <2> QED
    BY <1>3, <2>1, <2>2, <2>3, <2>4, <2>5, <2>6, <2>7, <2>8, <2>9, <2>10, <2>11, <2>12, <2>13,
       <2>14 DEF ProcStep
<1>4. CASE UNCHANGED vars
  BY <1>4 DEF vars, ConsoleInv, ConsoleTypes, OneActive, ParentsOk, PhaseOk, Quiet, LineOk,
              Answering, Typing, LineIn, Holds
<1> QED
  BY <1>1, <1>2, <1>3, <1>4 DEF Next

\* The keyboard, the system calls on its buffer and the shell with all its descendants, in
\* whatever order their steps come, keep ConsoleInv.
THEOREM ConsoleInvariant == Spec => []ConsoleInv
  BY ConsoleStarts, ConsoleSteps, PTL DEF Spec

\* The types.
LEMMA TypesFollow == ConsoleInv => TypeOK
<1> SUFFICES ASSUME ConsoleInv PROVE TypeOK
  OBVIOUS
<1>1. bufSize \in 0..keys /\ keys \in 0..MaxKeys
  BY DeviceFacts, ConsoleFacts
<1>2. \A p \in Procs : proc[p].pc \in Places /\ proc[p].child \in 0..MaxProcs
  BY Fields
<1> QED
  BY <1>1, <1>2, DeviceFacts DEF TypeOK, Places

\* However many shells wait for a child that never exits, at most one process polls, clears or
\* reads buf (shell.c:190-198).
THEOREM OneReads == Spec => []OneReader
<1> DEFINE readers == {p \in Procs :
             \/ proc[p].pc \in {"poll", "clear", "size", "flag"}
             \/ proc[p].pc \in {"fork", "dispatch", "exec", "copy"} /\ proc[p].text = Live}
<1>1. ASSUME ConsoleInv PROVE OneReader
  <2>1. \A p, q \in readers : p = q
    BY <1>1 DEF ConsoleInv, OneActive
  <2>2. CASE readers = {}
    <3>1. Cardinality(readers) = 0
      BY <2>2, FS_EmptySet
    <3> QED
      BY <1>1, <3>1, TypesFollow DEF OneReader
  <2>3. CASE readers # {}
    <3>1. PICK p : readers = {p}
      BY <2>1, <2>3
    <3>2. Cardinality(readers) = 1
      BY <3>1, FS_Singleton
    <3> QED
      BY <1>1, <3>2, TypesFollow DEF OneReader
  <2> QED
    BY <2>2, <2>3
<1> QED
  BY <1>1, ConsoleInvariant, PTL

\* When nobody has typed since the last line was done and cleared, except this line, what a
\* child dispatches, and what the kernel copies for its program, is the line as typed, though
\* both read buf in place (sys.cc:420-422) and although buf may still hold other letters.
THEOREM LineIsAsTyped == Spec => []LineAsTyped
<1>1. ASSUME ConsoleInv PROVE LineAsTyped
  <2>1. SUFFICES ASSUME ~ahead, NEW p \in Procs, proc[p].pc \in {"dispatch", "exec", "copy"},
                        proc[p].text = Live
                 PROVE  /\ TextOf(Live) = line
                        /\ proc[p].pc \in {"exec", "copy"} => proc[p].cmd = Head(line)
                        /\ proc[p].pc = "copy" => proc[p].length = Len(line)
    BY DEF LineAsTyped
  <2>2. done
    BY <1>1, <2>1 DEF ConsoleInv, PhaseOk
  <2>3. Answering
    BY <1>1, <2>1, <2>2 DEF ConsoleInv, LineOk
  <2>4. \A q \in Procs : proc[q].pc \notin {"clear", "size", "flag"}
    BY <1>1, <2>1 DEF ConsoleInv, OneActive
  <2>5. LineIn
    BY <2>3, <2>4 DEF Answering
  <2>6. TextOf(Live) = line
    BY <1>1, <2>5, TextIsLine DEF ConsoleInv
  <2> QED
    BY <2>1, <2>3, <2>6 DEF Answering
<1> QED
  BY <1>1, ConsoleInvariant, PTL
==============================================================================
