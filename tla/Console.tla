------------------------------- MODULE Console -------------------------------
(***************************************************************************)
(* The keyboard (kernel/keyboard.cc), the three system calls that expose   *)
(* its buffer (kernel/sys.cc, cases 18 to 20) and the shell that polls them*)
(* (t0.dir/sbin/shell.c) with the programs it starts.                      *)
(*                                                                         *)
(* The interrupt handler runs on one core while the shell runs on another; *)
(* nothing orders their accesses to buf, bufSize and done, so each access  *)
(* is a step.  getCommand() returns the address of buf itself: the child of*)
(* the shell reads the letters when it dispatches and again when execl     *)
(* copies the arguments.                                                   *)
(*                                                                         *)
(* A key stands for a word of the command line: one of Commands, the name  *)
(* of another file of /sbin, or any other word.  "prog" is each of cd, cat,*)
(* grep, wc, pwd, echo and ls, "pipe" is `ls | w', which becomes           *)
(* shellHandler with w as its command, "exec" is `exec w', "demo" the      *)
(* built-in script.  Keys without a letter (scanCodeToLetter returns 0)    *)
(* change nothing.                                                         *)
(***************************************************************************)
EXTENDS Naturals, Sequences, FiniteSets

CONSTANTS
  Words,      \* what a user types, besides the newline
  Demo,       \* the lines of the built-in script
  MaxProcs,   \* bound: processes that exist at a time
  MaxKeys     \* bound: keys typed; buf is larger than that (50 bytes)

Commands == {"prog", "pipe", "exec"}
Files    == {"shell", "shellHandler", "init"}   \* what else exec finds in /sbin
Absent   == <<"null">>         \* argv[1] of a program that gets no argument
Nul      == "nul"
Newline  == "newline"
Live     == <<"buf">>          \* the address of buf, not a copy of a line
Procs    == 1..MaxProcs
BufIndex == 0..MaxKeys

ASSUME ConsoleAssumption ==
  /\ {Nul, Newline, "buf", "null", "bar", "listing", "junk"} \cap Words = {}
  /\ Demo \in Seq(Seq(Words))
  /\ \A k \in DOMAIN Demo : Demo[k] # <<>> /\ Head(Demo[k]) \in Commands
  /\ MaxProcs \in Nat \ {0}
  /\ MaxKeys \in Nat

VARIABLES
  buf, bufSize, done,   \* the globals of keyboard.cc
  irq,                  \* the handler: pc, letter, and the bufSize it read
  dir,                  \* fs->current # nullptr
  proc,                 \* the shell and its descendants
  keys,                 \* keys typed so far
  typed, line,          \* letters since the last newline, the line before it (history)
  touched,              \* a key was typed since the line is done (history)
  ahead                 \* a key was typed since, or buf may hold keys of then (history)

vars == <<buf, bufSize, done, irq, dir, proc, keys, typed, line, touched, ahead>>
device == <<irq, keys, typed, line>>
console == <<buf, bufSize, done, device, touched, ahead>>

Idle == [pc |-> "idle", letter |-> Nul, tmp |-> 0]
Free == [pc |-> "free", child |-> 0, text |-> <<>>, length |-> 0, cmd |-> Nul,
         left |-> 0, i |-> 0]

Init ==
  /\ buf = [i \in BufIndex |-> Nul]
  /\ bufSize = 0
  /\ done = FALSE
  /\ irq = Idle
  /\ dir = TRUE
  /\ proc = [p \in Procs |-> IF p = 1 THEN [Free EXCEPT !.pc = "poll"] ELSE Free]
  /\ keys = 0
  /\ typed = <<>>
  /\ line = <<>>
  /\ touched = FALSE
  /\ ahead = FALSE

-----------------------------------------------------------------------------
(* keyBoardHandler *)

\* The interrupt: the letter is read from the port.
Key(k) ==
  /\ irq.pc = "idle"
  /\ keys < MaxKeys
  /\ keys' = keys + 1
  /\ irq' = [Idle EXCEPT !.pc = "store", !.letter = k]
  /\ typed' = IF k = Newline THEN <<>> ELSE Append(typed, k)
  /\ line' = IF k = Newline THEN typed ELSE line
  /\ touched' = (touched \/ done)
  /\ ahead' = (ahead \/ done)
  /\ UNCHANGED <<buf, bufSize, done, dir, proc>>

\* buf[bufSize] = letter, or the end of the string.
StoreLetter ==
  /\ irq.pc = "store"
  /\ buf' = [buf EXCEPT ![bufSize] = IF irq.letter = Newline THEN Nul ELSE irq.letter]
  /\ irq' = [irq EXCEPT !.pc = IF irq.letter = Newline THEN "done" ELSE "load"]
  /\ UNCHANGED <<bufSize, done, dir, proc, keys, typed, line, touched, ahead>>

\* bufSize++ loads and stores: not atomic for the other cores.
LoadSize ==
  /\ irq.pc = "load"
  /\ irq' = [irq EXCEPT !.pc = "inc", !.tmp = bufSize]
  /\ UNCHANGED <<buf, bufSize, done, dir, proc, keys, typed, line, touched, ahead>>

IncSize ==
  /\ irq.pc = "inc"
  /\ bufSize' = irq.tmp + 1
  /\ irq' = Idle
  /\ UNCHANGED <<buf, done, dir, proc, keys, typed, line, touched, ahead>>

SetLineDone ==
  /\ irq.pc = "done"
  /\ done' = TRUE
  /\ irq' = Idle
  /\ UNCHANGED <<buf, bufSize, dir, proc, keys, typed, line, touched, ahead>>

-----------------------------------------------------------------------------
(* The shell's main *)

Step(p, from, to) ==
  /\ proc[p].pc = from
  /\ proc' = [proc EXCEPT ![p].pc = to]
  /\ UNCHANGED <<dir, device>>

\* while (!done()) and the getCommand() after it.
Poll(p) ==
  /\ done
  /\ proc[p].pc = "poll"
  /\ proc' = [proc EXCEPT ![p].pc = "fork", ![p].text = Live]
  /\ UNCHANGED <<console, dir>>

\* setDone(): one byte of the loop, or its end.
ClearByte(p) ==
  /\ proc[p].pc = "clear"
  /\ IF proc[p].i < bufSize
     THEN /\ buf' = [buf EXCEPT ![proc[p].i] = Nul]
          /\ proc' = [proc EXCEPT ![p].i = @ + 1]
     ELSE /\ proc' = [proc EXCEPT ![p].i = 0, ![p].pc = "size"]
          /\ UNCHANGED buf
  /\ UNCHANGED <<bufSize, done, dir, device, touched, ahead>>

\* Faulty: bufSize keeps its value.
KeepSize(p) ==
  /\ Step(p, "size", "flag")
  /\ UNCHANGED <<buf, bufSize, done, touched, ahead>>

ClearSize(p) ==
  /\ Step(p, "size", "flag")
  /\ bufSize' = 0
  /\ UNCHANGED <<buf, done, touched, ahead>>

\* Faulty: done keeps its value.
KeepDone(p) ==
  /\ Step(p, "flag", "poll")
  /\ UNCHANGED <<buf, bufSize, done, touched, ahead>>

\* The next line is typed as a line of its own if nobody typed ahead of this step.
ClearDone(p) ==
  /\ Step(p, "flag", "poll")
  /\ done' = FALSE
  /\ ahead' = touched
  /\ touched' = FALSE
  /\ UNCHANGED <<buf, bufSize>>

-----------------------------------------------------------------------------
(* mainShellHandler, and shellHandler's main, which is the same code without*)
(* the demo                                                                *)

Unused(c) == proc[c].pc = "free" /\ \A q \in Procs : q < c => proc[q].pc # "free"

\* The line at the address text: up to the first Nul.
TextOf(text) ==
  IF text # Live THEN text
  ELSE LET n == CHOOSE n \in 0..(MaxKeys + 1) :
                  /\ \A i \in BufIndex : i < n => buf[i] # Nul
                  /\ n \in BufIndex => buf[n] = Nul
       IN  [k \in 1..n |-> buf[k - 1]]

\* Where a process goes when mainShellHandler returns: to main's setDone(), to
\* the next line of the script, or out of shellHandler.
After(p) == IF proc[p].cmd = "pipe" THEN "exited"
            ELSE IF proc[p].cmd = "demo" THEN "script" ELSE "clear"

\* Faulty: the parent does not wait for the child.
ForkNoWait(p, c) ==
  /\ proc[p].pc = "fork"
  /\ Unused(c)
  /\ proc' = [proc EXCEPT
       ![c] = [Free EXCEPT !.pc = "dispatch", !.text = proc[p].text,
                           !.cmd = IF proc[p].cmd = "pipe" THEN "pipe" ELSE Nul],
       ![p].pc = After(p)]
  /\ UNCHANGED <<console, dir>>

\* fork(): the child has a copy of the pointer; the parent waits for it.
Fork(p, c) ==
  /\ proc[p].pc = "fork"
  /\ Unused(c)
  /\ proc' = [proc EXCEPT
       ![c] = [Free EXCEPT !.pc = "dispatch", !.text = proc[p].text,
                           !.cmd = IF proc[p].cmd = "pipe" THEN "pipe" ELSE Nul],
       ![p].pc = "wait", ![p].child = c]
  /\ UNCHANGED <<console, dir>>

\* The child looks at the first word; a null pointer faults.  With no such command it
\* prints and returns: the child of the shell goes on in main as a shell of its own.  An
\* `ls' of shellHandler gets its argument with the bar.
Dispatch(c) ==
  /\ proc[c].pc = "dispatch"
  /\ LET text == TextOf(proc[c].text)
         word == IF text = <<>> THEN Nul ELSE text[1]
         kept == IF word = "pipe" /\ proc[c].cmd = "pipe"
                 THEN <<"pipe", "bar">> \o Tail(text) ELSE proc[c].text
     IN  proc' = [proc EXCEPT ![c] =
           IF text = Absent THEN [@ EXCEPT !.pc = "panic"]
           ELSE IF word \in Commands THEN [@ EXCEPT !.pc = "exec", !.cmd = word, !.text = kept]
           ELSE IF word = "demo" /\ @.cmd # "pipe"
           THEN [@ EXCEPT !.pc = "script", !.cmd = "demo", !.left = Len(Demo)]
           ELSE [@ EXCEPT !.pc = After(c), !.text = <<>>]]
  /\ UNCHANGED <<console, dir>>

\* execl: the kernel measures the argument where it is, in buf for the shell's child.
Exec(c) ==
  /\ proc[c].pc = "exec"
  /\ proc' = [proc EXCEPT ![c].pc = "copy", ![c].length = Len(TextOf(proc[c].text))]
  /\ UNCHANGED <<console, dir>>

\* What memcpy copies when n letters and a Nul have been measured.  The handler may have
\* replaced the Nul since: then some of what follows is copied too (the size is rounded
\* up), and the string may end in what the new block held before.
Copied(text, n) ==
  IF Len(text) <= n THEN {text}
  ELSE LET cuts == {SubSeq(text, 1, k) : k \in n..Len(text)}
       IN  cuts \cup {Append(cut, "junk") : cut \in cuts}

\* The copy, and the program in place of the memory.
Copy(c) ==
  /\ proc[c].pc = "copy"
  /\ \E text \in Copied(TextOf(proc[c].text), proc[c].length) :
       proc' = [proc EXCEPT ![c].pc = "run", ![c].length = 0,
                            ![c].text = IF text = <<>> THEN <<>> ELSE Tail(text)]
  /\ UNCHANGED <<console, dir>>

\* A program's main ends, and crt0 calls exit.  cd leaves fs->current the directory it
\* found, or null.
RunProg(c) ==
  /\ proc[c].pc = "run" /\ proc[c].cmd = "prog"
  /\ proc' = [proc EXCEPT ![c].pc = "exited"]
  /\ dir' \in BOOLEAN
  /\ UNCHANGED console

\* The kernel follows a bad pointer: fs->current after a cd to nowhere, the slot of an fd
\* that open() did not give, an argument that exec did not pass.
ProgFaults(c) ==
  /\ proc[c].pc = "run" /\ proc[c].cmd = "prog"
  /\ proc' = [proc EXCEPT ![c].pc = "panic"]
  /\ UNCHANGED <<console, dir>>

\* `ls' with an argument lists the current directory, and is execl'ed into shellHandler
\* with the listing behind the argument; shellHandler's main forks.
RunLs(c) ==
  /\ proc[c].pc = "run" /\ proc[c].cmd = "pipe"
  /\ LET text == Append(proc[c].text, "listing")
     IN  proc' = [proc EXCEPT ![c] = IF dir THEN [@ EXCEPT !.pc = "fork", !.text = text]
                                     ELSE [@ EXCEPT !.pc = "panic"]]
  /\ UNCHANGED <<console, dir>>

\* The program that exec becomes: the argument of ls keeps its bar, that of shellHandler
\* is its command, and a shell polls.
Image(r, file, rest) ==
  CASE file \in {"prog", "exec"} -> [r EXCEPT !.cmd = file, !.text = rest]
    [] file = "pipe"         -> [r EXCEPT !.cmd = file, !.text = <<"bar">> \o rest]
    [] file = "shellHandler" -> [r EXCEPT !.pc = "fork", !.cmd = "pipe", !.text = rest]
    [] file = "shell"        -> [r EXCEPT !.pc = "poll", !.cmd = file, !.text = <<>>]
    [] file = "init"         -> [r EXCEPT !.cmd = file, !.text = <<>>]

\* `exec' replaces itself by the file of /sbin that its argument names, with the words
\* after it or none; there is a panic when no program has that name (sys.cc:176-181).
RunExec(c) ==
  /\ proc[c].pc = "run" /\ proc[c].cmd = "exec"
  /\ LET args == proc[c].text
         rest == IF Len(args) > 1 THEN Tail(args)
                 ELSE IF args[1] = "pipe" THEN <<>> ELSE Absent
     IN  proc' = [proc EXCEPT ![c] =
           IF args = <<>> \/ args[1] \notin Commands \cup Files THEN [@ EXCEPT !.pc = "panic"]
           ELSE Image(@, args[1], rest)]
  /\ UNCHANGED <<console, dir>>

\* init reads files, with descriptors it was not given, and starts a shell that it waits
\* for.  The shell never exits: what init does then is not reached.
RunInit(p, c) ==
  /\ proc[p].pc = "run" /\ proc[p].cmd = "init"
  /\ Unused(c)
  /\ \/ proc' = [proc EXCEPT ![c] = [Free EXCEPT !.pc = "poll", !.cmd = "shell"],
                             ![p].pc = "wait", ![p].child = c]
     \/ proc' = [proc EXCEPT ![p].pc = "panic"]
  /\ UNCHANGED <<console, dir>>

\* wait(id) returns when the child has exited.
Wait(p) ==
  /\ proc[p].pc = "wait"
  /\ proc[proc[p].child].pc = "exited"
  /\ proc' = [proc EXCEPT ![proc[p].child] = Free,
                          ![p].pc = After(p), ![p].child = 0, ![p].text = <<>>]
  /\ UNCHANGED <<console, dir>>

\* The child that runs the demo: one line after the other, then back to main.
Script(c) ==
  /\ proc[c].pc = "script"
  /\ proc' = [proc EXCEPT ![c] =
       IF @.left = 0 THEN [@ EXCEPT !.pc = "clear", !.cmd = Nul, !.text = <<>>]
       ELSE [@ EXCEPT !.pc = "fork", !.text = Demo[Len(Demo) + 1 - proc[c].left],
                      !.left = proc[c].left - 1]]
  /\ UNCHANGED <<console, dir>>

\* After a panic nothing runs.
Running == \A p \in Procs : proc[p].pc # "panic"

Handler == Running /\ (StoreLetter \/ LoadSize \/ IncSize \/ SetLineDone)

ProcStep(p) ==
  /\ Running
  /\ \/ Poll(p) \/ ClearByte(p) \/ ClearSize(p) \/ ClearDone(p)
     \/ \E c \in Procs : Fork(p, c) \/ RunInit(p, c)
     \/ Dispatch(p) \/ Exec(p) \/ Copy(p)
     \/ RunProg(p) \/ ProgFaults(p) \/ RunLs(p) \/ RunExec(p)
     \/ Wait(p) \/ Script(p)

Next ==
  \/ Running /\ \E k \in Words \cup {Newline} : Key(k)
  \/ Handler
  \/ \E p \in Procs : ProcStep(p)

Spec == Init /\ [][Next]_vars

\* The handler runs to its end with interrupts off.  At most one process is not waiting for
\* its child, and it gets a core (Scheduler!ReadyRuns): others take none from it.
FairSpec == Spec /\ WF_vars(Handler) /\ \A p \in Procs : WF_vars(ProcStep(p))

-----------------------------------------------------------------------------
(* Properties *)

\* The types of the variables; bufSize never passes the keys typed.
TypeOK ==
  /\ buf \in [BufIndex -> Words \cup {Nul}]
  /\ bufSize \in 0..keys
  /\ done \in BOOLEAN
  /\ irq.pc \in {"idle", "store", "load", "inc", "done"}
  /\ keys \in 0..MaxKeys
  /\ dir \in BOOLEAN
  /\ \A p \in Procs : /\ proc[p].pc \in {"free", "poll", "fork", "wait", "dispatch", "exec", "copy",
                                         "run", "script", "clear", "size", "flag", "exited", "panic"}
                      /\ proc[p].child \in 0..MaxProcs

\* However many shells the invalid commands and the demo left waiting for ever,
\* at most one process is in main's loop or reads the line from buf: two
\* readers would each take a part of what is typed (shell.c:190-198).
OneReader ==
  /\ TypeOK
  /\ Cardinality({p \in Procs :
       \/ proc[p].pc \in {"poll", "clear", "size", "flag"}
       \/ proc[p].pc \in {"fork", "dispatch", "exec", "copy"} /\ proc[p].text = Live}) <= 1

\* When nobody has typed since the last line was done and cleared, except this line, what a
\* child dispatches, and what the kernel measures and copies for its program, is the line as
\* it was typed, and nothing of an earlier line: also of one that was typed while the
\* last was answered, or while setDone() ran (buf read in place: sys.cc:420-422, 481-497;
\* cleared: sys.cc:555-561).
LineAsTyped ==
  ~ahead => \A p \in Procs :
    proc[p].pc \in {"dispatch", "exec", "copy"} /\ proc[p].text = Live =>
      /\ TextOf(Live) = line
      /\ proc[p].pc \in {"exec", "copy"} => proc[p].cmd = Head(line)
      /\ proc[p].pc = "copy" => proc[p].length = Len(line)

\* Every line is answered: the shell, or the child that took its place, gets back to
\* setDone() and polls again (shell.c:192-198, sys.cc:555-561), unless a program made the
\* kernel panic, or `exec' has started a shell on top of the one that reads the line, which
\* takes the same line again, without end.
LineAnswered ==
  done ~> (~done \/ \E p \in Procs : proc[p].pc = "panic" \/ proc[p].cmd = "shell")
=============================================================================
