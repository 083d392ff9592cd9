--------------------------- MODULE SchedulerProofs ---------------------------
(***************************************************************************)
(* Proofs about module Scheduler, for every number of cores and threads:   *)
(* every TCB is in one place at any time (OneHome), the timer preempts the *)
(* thread on whose stack it runs and only outside block() (PreemptionSafe),*)
(* and current() is right outside block() (CurrentIsLoaded).               *)
(*                                                                         *)
(* None of the three is inductive.  The invariant, SchedulerInv, says for  *)
(* every core how far its block() has come (CoresOk), for every idle TCB   *)
(* that it never leaves its core (IdlesOk), that no place holds two TCBs or*)
(* the same TCB twice (Single), and for every TCB that it is in one kind of*)
(* place only, and parked there (PlacesOk).  StoppedOk adds that a thread  *)
(* that has stopped is not in the middle of delete_zombies().              *)
(* A step of core c disturbs no other core (Undisturbed); what is left is  *)
(* core c itself and the one TCB that the step moves: none (QuietStep), or *)
(* one (MoveKeeps, ChooseKeeps, SwitchKeeps).                              *)
(***************************************************************************)
EXTENDS Scheduler, Integers, TLAPS, FiniteSetTheorems

\* TCB t is in queue q; no TCB is in it twice.
Among(q, t) == \E i \in DOMAIN q : q[i] = t
Distinct(q) == \A i, j \in DOMAIN q : q[i] = q[j] => i = j

\* Where block() has chosen the next thread and not yet switched to it.
HasChosen == Inside \ {"remove"}

\* Core c is about to switch to t.
Chooses(c, t) == pc[loaded[c]] \in HasChosen /\ next[loaded[c]] = t

\* The label of thread code that t is at or will return to.
Phase(t) == IF pc[t] \in Code THEN pc[t] ELSE resume[t]

\* What block() has done so far, as the core that executes it sees it.
CoreOk(c) ==
  LET t == loaded[c] IN
  /\ pc[t] \notin {"parked", "free"}
  /\ activeThreads[c] = IF pc[t] = "switch" THEN next[t] ELSE t
  /\ pc[t] \in Inside => core[t] = c /\ noPreempt[activeThreads[c]] /\ reason[t] # "none"
  /\ pc[t] \in HasChosen => next[t] \in TCBs
  /\ pc[t] = "publish" => noPreempt[next[t]]
  /\ pc[t] = "finish" <=> source[c] # NoTCB
  /\ pc[t] = "finish" => ~intr[c] /\ reason[source[c]] # "none"

CoresOk == \A c \in Cores : CoreOk(c)

\* An idle TCB runs on its own core, with interrupts on, and does nothing but stop().
IdleOk(c) ==
  /\ \A d \in Cores : loaded[d] = c \/ source[d] = c \/ Chooses(d, c) => d = c
  /\ pc[c] \in Inside \cup {"run", "finish", "parked"}
  /\ resume[c] = "run" /\ reason[c] \in {"none", "stop"} /\ savedIF[c]
  /\ loaded[c] = c /\ pc[c] # "finish" => intr[c]

IdlesOk == \A c \in Cores : IdleOk(c)

\* Nothing is in two places of the same kind.
Single ==
  /\ \A c, d \in Cores : loaded[c] = loaded[d] => c = d
  /\ \A c, d \in Cores : source[c] = source[d] /\ source[c] # NoTCB => c = d
  /\ \A c, d \in Cores : \A t \in TCBs : Chooses(c, t) /\ Chooses(d, t) => c = d
  /\ Distinct(readyQ) /\ Distinct(zombies)
  /\ \A t, u \in TCBs : zombie[t] = zombie[u] /\ zombie[t] # NoTCB => t = u

\* The kinds of places in which a TCB that does not run can be.
Kinds == {"source", "chosen", "ready", "zombie", "waiting", "deleted"}

\* TCB t is in a place of kind k.
Holds(k, t) ==
  \/ k = "source" /\ \E c \in Cores : source[c] = t
  \/ k = "chosen" /\ \E c \in Cores : Chooses(c, t)
  \/ k = "ready" /\ Among(readyQ, t)
  \/ k = "zombie" /\ Among(zombies, t)
  \/ k = "waiting" /\ t \in waiting
  \/ k = "deleted" /\ \E u \in TCBs : zombie[u] = t

\* A TCB that is not running is parked in one kind of place, a running one is on a core, and
\* `it` of delete_zombies() is set just while the zombie is being deleted.
PlaceOk(t) ==
  /\ \A j, k \in Kinds : Holds(j, t) /\ Holds(k, t) => j = k
  /\ \A k \in Kinds : Holds(k, t) => pc[t] = "parked"
  /\ pc[t] = "parked" /\ t \in Threads => \E k \in Kinds : Holds(k, t)
  /\ pc[t] \notin {"parked", "free"} => \E c \in Cores : loaded[c] = t
  /\ zombie[t] # NoTCB <=> Phase(t) = "delete"
  /\ me[t] = t

PlacesOk == \A t \in TCBs : PlaceOk(t)

\* The inductive invariant.
SchedulerInv == TypeOK /\ CoresOk /\ IdlesOk /\ Single /\ PlacesOk

\* queue.h: what remove() does.
LEMMA TailIs ==
  ASSUME NEW S, NEW q \in Seq(S), q # <<>>, Distinct(q)
  PROVE  /\ Head(q) \in S /\ Among(q, Head(q))
         /\ Tail(q) \in Seq(S) /\ Distinct(Tail(q))
         /\ \A u : Among(Tail(q), u) <=> Among(q, u) /\ u # Head(q)
<1>1. /\ Len(q) \in Nat \ {0} /\ DOMAIN q = 1..Len(q) /\ Head(q) = q[1] /\ q[1] \in S
      /\ Tail(q) \in Seq(S) /\ Len(Tail(q)) = Len(q) - 1
      /\ DOMAIN Tail(q) = 1..(Len(q) - 1)
      /\ \A i \in 1..(Len(q) - 1) : Tail(q)[i] = q[i + 1]
  OBVIOUS
<1> DEFINE r == Tail(q)
           n == Len(q)
<1>2. Distinct(r)
  BY <1>1 DEF Distinct
<1>3. ASSUME NEW u, Among(r, u) PROVE Among(q, u) /\ u # q[1]
  <2>1. PICK i \in 1..(n - 1) : r[i] = u
    BY <1>1, <1>3 DEF Among
  <2>2. q[i + 1] = u /\ i + 1 \in 1..n /\ 1 \in 1..n /\ i + 1 # 1
    BY <1>1, <2>1
  <2> QED
    BY <1>1, <2>2 DEF Among, Distinct
<1>4. ASSUME NEW u, Among(q, u), u # q[1] PROVE Among(r, u)
  <2>1. PICK i \in 1..n : q[i] = u
    BY <1>1, <1>4 DEF Among
  <2>2. i - 1 \in 1..(n - 1) /\ r[i - 1] = u
    BY <1>1, <1>4, <2>1
  <2> QED
    BY <1>1, <2>2 DEF Among
<1>5. Among(q, q[1])
  BY <1>1 DEF Among
<1> QED
  BY <1>1, <1>2, <1>3, <1>4, <1>5

\* queue.h: what add() does.
LEMMA AppendIs ==
  ASSUME NEW S, NEW q \in Seq(S), NEW x \in S
  PROVE  /\ Append(q, x) \in Seq(S)
         /\ ~Among(q, x) /\ Distinct(q) => Distinct(Append(q, x))
         /\ \A u : Among(Append(q, x), u) <=> Among(q, u) \/ u = x
<1>1. /\ Len(q) \in Nat /\ DOMAIN q = 1..Len(q)
      /\ Append(q, x) \in Seq(S) /\ DOMAIN Append(q, x) = 1..(Len(q) + 1)
      /\ \A i \in 1..Len(q) : Append(q, x)[i] = q[i]
      /\ Append(q, x)[Len(q) + 1] = x
  OBVIOUS
<1> DEFINE r == Append(q, x)
           n == Len(q)
<1> HIDE DEF r, n
<1>2. ~Among(q, x) /\ Distinct(q) => Distinct(r)
  BY <1>1 DEF Among, Distinct, r, n
<1>3. ASSUME NEW u, Among(r, u) PROVE Among(q, u) \/ u = x
  BY <1>1, <1>3 DEF Among, r, n
<1>4. ASSUME NEW u, Among(q, u) \/ u = x PROVE Among(r, u)
  <2>1. n \in Nat /\ n + 1 \in 1..(n + 1)
    BY <1>1 DEF n
  <2> QED
    BY <1>1, <1>4, <2>1 DEF Among, r, n
<1> QED
  BY <1>1, <1>2, <1>3, <1>4 DEF r

\* Thread t is on core c and none other; what the other cores use is not t.
LEMMA Elsewhere ==
  ASSUME SchedulerInv, NEW c \in Cores, NEW d \in Cores, d # c
  PROVE  /\ loaded[d] \in TCBs /\ loaded[c] \in TCBs /\ loaded[d] # loaded[c]
         /\ activeThreads[d] \in TCBs /\ activeThreads[d] # loaded[c]
         /\ pc[activeThreads[d]] # "free" /\ pc[loaded[d]] \notin {"parked", "free"}
         /\ pc[loaded[d]] \in HasChosen => /\ next[loaded[d]] # loaded[c]
                                           /\ next[loaded[d]] \in TCBs
                                           /\ pc[next[loaded[d]]] = "parked"
         /\ source[d] # NoTCB => /\ source[d] # loaded[c] /\ source[d] \in TCBs
                                 /\ pc[source[d]] = "parked"
<1> USE DEF SchedulerInv, CoresOk, CoreOk
<1>1. loaded[d] \in TCBs /\ loaded[c] \in TCBs /\ loaded[d] # loaded[c]
  BY DEF TypeOK, Single
<1>2. pc[loaded[c]] \notin {"parked", "free"} /\ pc[loaded[d]] \notin {"parked", "free"}
  OBVIOUS
<1>3. pc[loaded[d]] \in HasChosen => next[loaded[d]] \in TCBs /\ pc[next[loaded[d]]] = "parked"
  <2> SUFFICES ASSUME pc[loaded[d]] \in HasChosen
               PROVE  next[loaded[d]] \in TCBs /\ pc[next[loaded[d]]] = "parked"
    OBVIOUS
  <2>1. next[loaded[d]] \in TCBs
    OBVIOUS
  <2>2. Holds("chosen", next[loaded[d]]) /\ "chosen" \in Kinds
    BY DEF Holds, Chooses, Kinds
  <2> QED
    BY <2>1, <2>2 DEF PlacesOk, PlaceOk
<1>4. source[d] # NoTCB => source[d] \in TCBs /\ pc[source[d]] = "parked"
  <2> SUFFICES ASSUME source[d] # NoTCB PROVE source[d] \in TCBs /\ pc[source[d]] = "parked"
    OBVIOUS
  <2>1. source[d] \in TCBs
    BY DEF TypeOK
  <2>2. Holds("source", source[d]) /\ "source" \in Kinds
    BY DEF Holds, Kinds
  <2> QED
    BY <2>1, <2>2 DEF PlacesOk, PlaceOk
<1>5. activeThreads[d] = loaded[d] \/ (pc[loaded[d]] \in HasChosen /\ activeThreads[d] = next[loaded[d]])
  BY DEF HasChosen, Inside
<1> QED
  BY <1>1, <1>2, <1>3, <1>4, <1>5

\* A step that leaves what core d uses alone.
Undisturbed(d) ==
  LET t == loaded[d] IN
  /\ loaded'[d] = t /\ activeThreads'[d] = activeThreads[d]
  /\ source'[d] = source[d] /\ (intr'[d] <=> intr[d])
  /\ pc'[t] = pc[t] /\ next'[t] = next[t] /\ core'[t] = core[t] /\ reason'[t] = reason[t]
  /\ noPreempt[activeThreads[d]] => noPreempt'[activeThreads[d]]
  /\ pc[t] \in HasChosen /\ noPreempt[next[t]] => noPreempt'[next[t]]
  /\ source[d] # NoTCB => reason'[source[d]] = reason[source[d]]

\* Such a step keeps what block() has done on core d.
LEMMA UndisturbedOk ==
  ASSUME SchedulerInv, NEW d \in Cores, Undisturbed(d)
  PROVE  CoreOk(d)' /\ \A u : Chooses(d, u)' <=> Chooses(d, u)
<1>1. CoreOk(d)
  BY DEF SchedulerInv, CoresOk
<1>2. \A u : Chooses(d, u)' <=> Chooses(d, u)
  BY DEF Undisturbed, Chooses
<1>3. CoreOk(d)'
  BY <1>1 DEF Undisturbed, CoreOk, HasChosen, Inside
<1> QED
  BY <1>2, <1>3

\* The idle TCB of core c, without the places from which it is reached.
IdleCode(c) ==
  /\ pc[c] \in Inside \cup {"run", "finish", "parked"}
  /\ resume[c] = "run" /\ reason[c] \in {"none", "stop"} /\ savedIF[c]
  /\ loaded[c] = c /\ pc[c] # "finish" => intr[c]

\* A step of core c that moves no TCB keeps the invariant if it does so on this core.
LEMMA QuietStep ==
  ASSUME SchedulerInv, NEW c \in Cores, NEW l, TypeOK', CoreOk(c)',
         \A d \in Cores : d # c => Undisturbed(d),
         \A u \in TCBs : Chooses(c, u)' <=> Chooses(c, u),
         pc' = [pc EXCEPT ![loaded[c]] = l], pc[loaded[c]] \notin {"parked", "free"},
         l \notin {"parked", "free"},
         UNCHANGED <<loaded, source, readyQ, zombies, waiting, zombie, me>>,
         \A u \in TCBs : u # loaded[c] => resume'[u] = resume[u] /\ reason'[u] = reason[u]
                                          /\ (savedIF'[u] <=> savedIF[u]),
         Phase(loaded[c])' = "delete" <=> Phase(loaded[c]) = "delete",
         loaded[c] = c => IdleCode(c)'
  PROVE  SchedulerInv'
<1> DEFINE t == loaded[c]
<1>0. t \in TCBs /\ pc \in [TCBs -> Labels] /\ Cores \subseteq TCBs
  BY DEF SchedulerInv, TypeOK, TCBs
<1>1. CoresOk'
  BY UndisturbedOk DEF CoresOk
<1>2. ASSUME NEW d \in Cores, NEW u \in TCBs PROVE Chooses(d, u)' <=> Chooses(d, u)
  <2>1. CASE d = c
    BY <2>1
  <2>2. CASE d # c
    BY <2>2, UndisturbedOk
  <2> QED
    BY <2>1, <2>2
<1>3. \A u \in TCBs : \A k \in Kinds : Holds(k, u)' <=> Holds(k, u)
  BY <1>2 DEF Holds
<1>4. Single'
  BY <1>2 DEF SchedulerInv, Single
<1>5. IdlesOk'
  <2> SUFFICES ASSUME NEW d \in Cores PROVE IdleOk(d)'
    BY DEF IdlesOk
  <2>1. \A e \in Cores : (loaded[e] = d \/ source[e] = d \/ Chooses(e, d))' => e = d
    BY <1>0, <1>2 DEF SchedulerInv, IdlesOk, IdleOk
  <2>2. IdleCode(d)'
    <3>1. CASE d = t
      BY <3>1, <1>0 DEF SchedulerInv, IdlesOk, IdleOk
    <3>2. CASE d # t
      <4>1. pc'[d] = pc[d] /\ resume'[d] = resume[d] /\ reason'[d] = reason[d]
            /\ (savedIF'[d] <=> savedIF[d]) /\ IdleCode(d)
        BY <3>2, <1>0 DEF SchedulerInv, IdlesOk, IdleOk, IdleCode
      <4>2. loaded[d] = d => d # c
        BY <3>2
      <4>3. loaded[d] = d => (intr'[d] <=> intr[d])
        BY <4>2 DEF Undisturbed
      <4> QED
        BY <4>1, <4>3 DEF IdleCode
    <3> QED
      BY <3>1, <3>2
  <2> QED
    BY <2>1, <2>2 DEF IdleOk, IdleCode
<1>6. PlacesOk'
  <2> SUFFICES ASSUME NEW u \in TCBs PROVE PlaceOk(u)'
    BY DEF PlacesOk
  <2>1. PlaceOk(u)
    BY DEF SchedulerInv, PlacesOk
  <2>2. pc'[u] = "parked" <=> pc[u] = "parked"
    BY <1>0
  <2>3. pc'[u] \notin {"parked", "free"} => \E d \in Cores : loaded'[d] = u
    BY <1>0, <2>1 DEF PlaceOk
  <2>4. zombie'[u] # NoTCB <=> Phase(u)' = "delete"
    <3>1. CASE u = t
      BY <3>1, <2>1 DEF PlaceOk
    <3>2. CASE u # t
      BY <3>2, <1>0, <2>1 DEF PlaceOk, Phase
    <3> QED
      BY <3>1, <3>2
  <2>5. /\ \A j, k \in Kinds : Holds(j, u)' /\ Holds(k, u)' => j = k
        /\ \A k \in Kinds : Holds(k, u)' => pc'[u] = "parked"
        /\ pc'[u] = "parked" /\ u \in Threads => \E k \in Kinds : Holds(k, u)'
    BY <1>3, <2>1, <2>2 DEF PlaceOk
  <2> QED
    BY <2>1, <2>3, <2>4, <2>5 DEF PlaceOk
<1> QED
  BY <1>1, <1>4, <1>5, <1>6 DEF SchedulerInv

\* block(), up to the first look at the ready queue, whoever calls it.
LEMMA BlockKeeps ==
  ASSUME SchedulerInv, NEW c \in Cores, NEW why \in {"yield", "preempt", "stop", "wait"},
         Block(c, why), pc[loaded[c]] \in Code, zombies' = zombies,
         loaded[c] \in Cores => why = "stop" /\ pc[loaded[c]] = "run",
         why = "yield" => pc[loaded[c]] # "delete",
         intr' = intr \/ (intr' = [intr EXCEPT ![c] = FALSE] /\ loaded[c] \notin Cores)
  PROVE  SchedulerInv'
<1> DEFINE t == loaded[c]
<1>1. /\ t \in TCBs /\ activeThreads[c] = t /\ me[t] = t /\ source[c] = NoTCB
      /\ t \in Cores => t = c
      /\ loaded[c] = t /\ pc[t] \in Code
  BY DEF SchedulerInv, TypeOK, CoresOk, CoreOk, PlacesOk, PlaceOk, IdlesOk, IdleOk, Code
<1>2. /\ reason' = [reason EXCEPT ![t] = why] /\ core' = [core EXCEPT ![t] = c]
      /\ resume' = [resume EXCEPT ![t] = IF why = "yield" THEN "reap" ELSE pc[t]]
      /\ me' = [me EXCEPT ![t] = t] /\ noPreempt' = [noPreempt EXCEPT ![t] = TRUE]
      /\ pc' = [pc EXCEPT ![t] = "remove"]
      /\ UNCHANGED <<readyQ, zombies, waiting, activeThreads, loaded, savedIF, next, source, zombie>>
  BY <1>1 DEF Block, Goto
<1> HIDE DEF t
<1>3. TypeOK'
  BY <1>1, <1>2 DEF SchedulerInv, TypeOK, Labels, Code, Inside
<1>4. CoreOk(c)'
  BY <1>1, <1>2 DEF SchedulerInv, TypeOK, CoreOk, HasChosen, Inside
<1>5. \A d \in Cores : d # c => Undisturbed(d)
  BY <1>1, <1>2, Elsewhere DEF t, Undisturbed, SchedulerInv, TypeOK
<1>6. \A u \in TCBs : Chooses(c, u)' <=> Chooses(c, u)
  BY <1>1, <1>2, <1>3 DEF t, Chooses, HasChosen, Inside, Code, SchedulerInv, TypeOK
<1>7. me' = me
  BY <1>1, <1>2 DEF SchedulerInv, TypeOK
<1>8. Phase(t)' = "delete" <=> Phase(t) = "delete"
  BY <1>1, <1>2 DEF t, Phase, Code, SchedulerInv, TypeOK
<1>9. t = c => IdleCode(c)'
  BY <1>1, <1>2 DEF t, IdleCode, SchedulerInv, TypeOK, IdlesOk, IdleOk, Inside, Code
<1>10. \A u \in TCBs : u # t => resume'[u] = resume[u] /\ reason'[u] = reason[u]
                                /\ (savedIF'[u] <=> savedIF[u])
  BY <1>1, <1>2 DEF SchedulerInv, TypeOK
<1>11. pc[t] \notin {"parked", "free"} /\ "remove" \notin {"parked", "free"}
       /\ pc' = [pc EXCEPT ![t] = "remove"]
  BY <1>1, <1>2 DEF Code
<1>12. UNCHANGED <<loaded, source, readyQ, zombies, waiting, zombie, me>>
  BY <1>2, <1>7
<1> USE DEF t
<1> QED
  BY ONLY SchedulerInv, c \in Cores, <1>3, <1>4, <1>5, <1>6, <1>8, <1>9, <1>10, <1>11, <1>12, QuietStep

\* What a core inside block() knows.
LEMMA InsideOk ==
  ASSUME SchedulerInv, NEW c \in Cores
  PROVE  /\ loaded[c] \in TCBs /\ me[loaded[c]] = loaded[c]
         /\ pc[loaded[c]] \in Inside => core[loaded[c]] = c /\ source[c] = NoTCB
                                        /\ noPreempt[activeThreads[c]] /\ reason[loaded[c]] # "none"
         /\ pc[loaded[c]] \in Inside \ {"switch"} => activeThreads[c] = loaded[c]
         /\ pc[loaded[c]] \in HasChosen =>
              /\ next[loaded[c]] \in TCBs /\ pc[next[loaded[c]]] = "parked"
              /\ next[loaded[c]] # loaded[c]
         /\ loaded[c] \in Cores => loaded[c] = c
<1> USE DEF SchedulerInv
<1>1. loaded[c] \in TCBs /\ me[loaded[c]] = loaded[c]
  BY DEF TypeOK, PlacesOk, PlaceOk
<1>2. CoreOk(c)
  BY DEF CoresOk
<1>3. /\ pc[loaded[c]] \in Inside => core[loaded[c]] = c /\ source[c] = NoTCB
                                     /\ noPreempt[activeThreads[c]] /\ reason[loaded[c]] # "none"
      /\ pc[loaded[c]] \in Inside \ {"switch"} => activeThreads[c] = loaded[c]
      /\ pc[loaded[c]] # "parked"
  BY <1>2 DEF CoreOk, Inside
<1>4. ASSUME pc[loaded[c]] \in HasChosen
      PROVE  next[loaded[c]] \in TCBs /\ pc[next[loaded[c]]] = "parked"
  <2>1. next[loaded[c]] \in TCBs
    BY <1>2, <1>4 DEF CoreOk
  <2>2. Holds("chosen", next[loaded[c]]) /\ "chosen" \in Kinds
    BY <1>4 DEF Holds, Chooses, Kinds
  <2> QED
    BY <2>1, <2>2 DEF PlacesOk, PlaceOk
<1>5. loaded[c] \in Cores => loaded[c] = c
  BY DEF IdlesOk, IdleOk
<1> QED
  BY <1>1, <1>3, <1>4, <1>5

\* Nothing is ready: yield() returns from block().
LEMMA RemoveReturnKeeps ==
  ASSUME SchedulerInv, NEW c \in Cores, RemoveReturn(c)
  PROVE  SchedulerInv'
<1> DEFINE t == loaded[c]
<1>1. /\ t \in TCBs /\ pc[t] = "remove" /\ reason[t] \in {"yield", "preempt"}
      /\ activeThreads[c] = t /\ source[c] = NoTCB /\ loaded[c] = t
      /\ intr \in [Cores -> BOOLEAN] /\ resume[t] \in Code
  BY InsideOk DEF RemoveReturn, CanReturn, Inside, SchedulerInv, TypeOK
<1>2. t \notin Cores
  BY <1>1 DEF SchedulerInv, IdlesOk, IdleOk
<1>3. /\ pc' = [pc EXCEPT ![t] = resume[t]] /\ reason' = [reason EXCEPT ![t] = "none"]
      /\ resume' = [resume EXCEPT ![t] = "run"] /\ core' = [core EXCEPT ![t] = NoTCB]
      /\ next' = [next EXCEPT ![t] = NoTCB]
      /\ UNCHANGED <<readyQ, zombies, waiting, activeThreads, loaded, noPreempt, savedIF,
                     source, zombie, me>>
  BY DEF RemoveReturn, Return, Goto
<1>4. intr' \in [Cores -> BOOLEAN] /\ \A d \in Cores : d # c => (intr'[d] <=> intr[d])
  <2>1. intr' = [intr EXCEPT ![c] = intr[c] \/ reason[t] = "preempt"]
    BY DEF RemoveReturn
  <2> QED
    BY ONLY <1>1, <2>1
<1> HIDE DEF t
<1>5. TypeOK'
  BY <1>1, <1>3, <1>4 DEF SchedulerInv, TypeOK, Labels, Code
<1>6. CoreOk(c)'
  BY <1>1, <1>3 DEF SchedulerInv, TypeOK, CoreOk, HasChosen, Inside, Code
<1>7. \A d \in Cores : d # c => Undisturbed(d)
  BY <1>1, <1>3, <1>4, Elsewhere DEF t, Undisturbed, SchedulerInv, TypeOK
<1>8. \A u \in TCBs : Chooses(c, u)' <=> Chooses(c, u)
  BY <1>1, <1>3 DEF t, Chooses, HasChosen, Inside, Code, SchedulerInv, TypeOK
<1>9. Phase(t)' = "delete" <=> Phase(t) = "delete"
  BY <1>1, <1>3 DEF t, Phase, Code, SchedulerInv, TypeOK
<1>10. \A u \in TCBs : u # t => resume'[u] = resume[u] /\ reason'[u] = reason[u]
                                /\ (savedIF'[u] <=> savedIF[u])
  BY <1>1, <1>3 DEF SchedulerInv, TypeOK
<1>11. pc[t] \notin {"parked", "free"} /\ resume[t] \notin {"parked", "free"}
       /\ pc' = [pc EXCEPT ![t] = resume[t]] /\ (t = c => IdleCode(c)')
  BY <1>1, <1>2, <1>3 DEF Code
<1>12. UNCHANGED <<loaded, source, readyQ, zombies, waiting, zombie, me>>
  BY <1>3
<1> USE DEF t
<1> QED
  BY ONLY SchedulerInv, c \in Cores, <1>5, <1>6, <1>7, <1>8, <1>9, <1>10, <1>11, <1>12, QuietStep

\* next_tcb->saveArea.no_preempt = 1
LEMMA ClaimKeeps ==
  ASSUME SchedulerInv, NEW c \in Cores, Claim(c)
  PROVE  SchedulerInv'
<1> DEFINE t == loaded[c]
<1>1. /\ t \in TCBs /\ pc[t] = "claim" /\ next[t] \in TCBs /\ pc[next[t]] = "parked"
      /\ activeThreads[c] = t /\ source[c] = NoTCB /\ loaded[c] = t /\ next[t] # t
      /\ core[t] = c /\ noPreempt[t] /\ reason[t] # "none"
  BY InsideOk DEF Claim, Inside, HasChosen
<1>2. /\ pc' = [pc EXCEPT ![t] = "publish"] /\ noPreempt' = [noPreempt EXCEPT ![next[t]] = TRUE]
      /\ UNCHANGED <<readyQ, zombies, waiting, activeThreads, loaded, intr, savedIF,
                     reason, resume, me, core, next, source, zombie>>
  BY DEF Claim, Goto, blockVars
<1> HIDE DEF t
<1>3. TypeOK'
  BY <1>1, <1>2 DEF SchedulerInv, TypeOK, Labels, Inside
<1>4. CoreOk(c)'
  BY <1>1, <1>2 DEF SchedulerInv, TypeOK, CoreOk, HasChosen, Inside
<1>5. \A d \in Cores : d # c => Undisturbed(d)
  BY <1>1, <1>2, Elsewhere DEF t, Undisturbed, SchedulerInv, TypeOK
<1>6. \A u \in TCBs : Chooses(c, u)' <=> Chooses(c, u)
  BY <1>1, <1>2 DEF t, Chooses, HasChosen, Inside, SchedulerInv, TypeOK
<1>7. Phase(t)' = "delete" <=> Phase(t) = "delete"
  BY <1>1, <1>2 DEF t, Phase, Code, SchedulerInv, TypeOK
<1>8. t = c => IdleCode(c)'
  BY <1>1, <1>2 DEF IdleCode, SchedulerInv, TypeOK, IdlesOk, IdleOk, Inside
<1>9. \A u \in TCBs : u # t => resume'[u] = resume[u] /\ reason'[u] = reason[u]
                               /\ (savedIF'[u] <=> savedIF[u])
  BY <1>2
<1>10. pc[t] \notin {"parked", "free"} /\ "publish" \notin {"parked", "free"}
       /\ pc' = [pc EXCEPT ![t] = "publish"]
  BY <1>1, <1>2
<1>11. UNCHANGED <<loaded, source, readyQ, zombies, waiting, zombie, me>>
  BY <1>2
<1> USE DEF t
<1> QED
  BY ONLY SchedulerInv, c \in Cores, <1>3, <1>4, <1>5, <1>6, <1>7, <1>8, <1>9, <1>10, <1>11, QuietStep

\* activeThreads[core_id] = next_tcb
LEMMA PublishKeeps ==
  ASSUME SchedulerInv, NEW c \in Cores, Publish(c)
  PROVE  SchedulerInv'
<1> DEFINE t == loaded[c]
<1>1. /\ t \in TCBs /\ pc[t] = "publish" /\ next[t] \in TCBs
      /\ source[c] = NoTCB /\ loaded[c] = t /\ core[t] = c /\ reason[t] # "none"
      /\ noPreempt[next[t]]
  BY InsideOk DEF Publish, Inside, HasChosen, SchedulerInv, CoresOk, CoreOk
<1>2. /\ pc' = [pc EXCEPT ![t] = "switch"]
      /\ activeThreads' = [activeThreads EXCEPT ![c] = next[t]]
      /\ UNCHANGED <<readyQ, zombies, waiting, loaded, intr, noPreempt, savedIF,
                     reason, resume, me, core, next, source, zombie>>
  BY <1>1 DEF Publish, Goto, blockVars
<1> HIDE DEF t
<1>3. TypeOK'
  BY <1>1, <1>2 DEF SchedulerInv, TypeOK, Labels, Inside
<1>4. CoreOk(c)'
  BY <1>1, <1>2 DEF SchedulerInv, TypeOK, CoreOk, HasChosen, Inside
<1>5. \A d \in Cores : d # c => Undisturbed(d)
  BY <1>1, <1>2, Elsewhere DEF t, Undisturbed, SchedulerInv, TypeOK
<1>6. \A u \in TCBs : Chooses(c, u)' <=> Chooses(c, u)
  BY <1>1, <1>2 DEF t, Chooses, HasChosen, Inside, SchedulerInv, TypeOK
<1>7. Phase(t)' = "delete" <=> Phase(t) = "delete"
  BY <1>1, <1>2 DEF t, Phase, Code, SchedulerInv, TypeOK
<1>8. t = c => IdleCode(c)'
  BY <1>1, <1>2 DEF IdleCode, SchedulerInv, TypeOK, IdlesOk, IdleOk, Inside
<1>9. \A u \in TCBs : u # t => resume'[u] = resume[u] /\ reason'[u] = reason[u]
                               /\ (savedIF'[u] <=> savedIF[u])
  BY <1>2
<1>10. pc[t] \notin {"parked", "free"} /\ "switch" \notin {"parked", "free"}
       /\ pc' = [pc EXCEPT ![t] = "switch"]
  BY <1>1, <1>2
<1>11. UNCHANGED <<loaded, source, readyQ, zombies, waiting, zombie, me>>
  BY <1>2
<1> USE DEF t
<1> QED
  BY ONLY SchedulerInv, c \in Cores, <1>3, <1>4, <1>5, <1>6, <1>7, <1>8, <1>9, <1>10, <1>11, QuietStep

\* thread() begins with delete_zombies().
LEMMA CallThreadKeeps ==
  ASSUME SchedulerInv, NEW c \in Cores, CallThread(c)
  PROVE  SchedulerInv'
<1> DEFINE t == loaded[c]
<1>1. t \in Threads /\ t \in TCBs /\ t \notin Cores /\ pc[t] = "run" /\ loaded[c] = t
  BY SchedulerAssumption DEF CallThread, TCBs
<1>2. /\ pc' = [pc EXCEPT ![t] = "reap"]
      /\ UNCHANGED <<readyQ, zombies, waiting, activeThreads, loaded, intr, noPreempt, savedIF,
                     reason, resume, me, core, next, source, zombie>>
  BY DEF CallThread, Goto, blockVars
<1> HIDE DEF t
<1>3. TypeOK'
  BY <1>1, <1>2 DEF SchedulerInv, TypeOK, Labels, Code
<1>4. CoreOk(c)'
  BY <1>1, <1>2 DEF SchedulerInv, TypeOK, CoresOk, CoreOk, HasChosen, Inside
<1>5. \A d \in Cores : d # c => Undisturbed(d)
  BY <1>1, <1>2, Elsewhere DEF t, Undisturbed, SchedulerInv, TypeOK
<1>6. \A u \in TCBs : Chooses(c, u)' <=> Chooses(c, u)
  BY <1>1, <1>2 DEF Chooses, HasChosen, Inside, SchedulerInv, TypeOK
<1>7. Phase(t)' = "delete" <=> Phase(t) = "delete"
  BY <1>1, <1>2 DEF t, Phase, Code, SchedulerInv, TypeOK
<1>8. \A u \in TCBs : u # t => resume'[u] = resume[u] /\ reason'[u] = reason[u]
                               /\ (savedIF'[u] <=> savedIF[u])
  BY <1>2
<1>9. pc[t] \notin {"parked", "free"} /\ "reap" \notin {"parked", "free"}
      /\ pc' = [pc EXCEPT ![t] = "reap"] /\ (t = c => IdleCode(c)')
  BY <1>1, <1>2
<1>10. UNCHANGED <<loaded, source, readyQ, zombies, waiting, zombie, me>>
  BY <1>2
<1> USE DEF t
<1> QED
  BY ONLY SchedulerInv, c \in Cores, <1>3, <1>4, <1>5, <1>6, <1>7, <1>8, <1>9, <1>10, QuietStep

\* What a TCB that does not run can be found from, after a step that moves x only.
LEMMA PlacesMove ==
  ASSUME SchedulerInv, NEW c \in Cores, NEW x \in TCBs, TypeOK', UNCHANGED <<loaded, me>>,
         x # loaded[c], pc[x] \in {"parked", "free"}, pc'[x] \in {"parked", "free"},
         pc[loaded[c]] \notin {"parked", "free"}, pc'[loaded[c]] \notin {"parked", "free"},
         \A u \in TCBs : u # x /\ u # loaded[c] => pc'[u] = pc[u],
         \A u \in TCBs : u # x => \A k \in Kinds : Holds(k, u)' <=> Holds(k, u),
         \A j, k \in Kinds : Holds(j, x)' /\ Holds(k, x)' => j = k,
         \A k \in Kinds : Holds(k, x)' => pc'[x] = "parked",
         pc'[x] = "parked" /\ x \in Threads => \E k \in Kinds : Holds(k, x)',
         \A u \in TCBs : zombie'[u] # NoTCB <=> Phase(u)' = "delete"
  PROVE  PlacesOk'
<1> SUFFICES ASSUME NEW u \in TCBs PROVE PlaceOk(u)'
  BY DEF PlacesOk
<1>1. PlaceOk(u)
  BY DEF SchedulerInv, PlacesOk
<1>2. pc'[u] \notin {"parked", "free"} => \E d \in Cores : loaded'[d] = u
  BY <1>1 DEF PlaceOk
<1>3. CASE u = x
  BY <1>1, <1>2, <1>3 DEF PlaceOk
<1>4. CASE u # x
  <2>1. pc'[u] = "parked" <=> pc[u] = "parked"
    BY <1>4
  <2>2. /\ \A j, k \in Kinds : Holds(j, u)' /\ Holds(k, u)' => j = k
        /\ \A k \in Kinds : Holds(k, u)' => pc'[u] = "parked"
        /\ pc'[u] = "parked" /\ u \in Threads => \E k \in Kinds : Holds(k, u)'
    BY <1>1, <1>4, <2>1 DEF PlaceOk
  <2> QED
    BY <1>1, <1>2, <2>2 DEF PlaceOk
<1> QED
  BY <1>3, <1>4

\* The idle TCBs stay at home in a step of core c.
LEMMA IdlesMove ==
  ASSUME SchedulerInv, NEW c \in Cores, UNCHANGED loaded,
         \A d \in Cores : d # c => Undisturbed(d),
         \A d, e \in Cores : (source[e] = d \/ Chooses(e, d))' => e = d,
         \A d \in Cores : d # loaded[c] =>
           pc'[d] = pc[d] /\ resume'[d] = resume[d] /\ reason'[d] = reason[d]
           /\ (savedIF'[d] <=> savedIF[d]),
         loaded[c] = c => IdleCode(c)'
  PROVE  IdlesOk'
<1> SUFFICES ASSUME NEW d \in Cores PROVE IdleOk(d)'
  BY DEF IdlesOk
<1>1. \A e \in Cores : (loaded[e] = d \/ source[e] = d \/ Chooses(e, d))' => e = d
  BY DEF SchedulerInv, IdlesOk, IdleOk
<1>2. IdleCode(d)'
  <2>1. CASE d = loaded[c]
    BY <2>1 DEF SchedulerInv, IdlesOk, IdleOk
  <2>2. CASE d # loaded[c]
    <3>1. IdleCode(d)
      BY DEF SchedulerInv, IdlesOk, IdleOk, IdleCode
    <3>2. loaded[d] = d => (intr'[d] <=> intr[d])
      BY <2>2 DEF Undisturbed
    <3> QED
      BY <2>2, <3>1, <3>2 DEF IdleCode
  <2> QED
    BY <2>1, <2>2
<1> QED
  BY <1>1, <1>2 DEF IdleOk, IdleCode

\* block() chooses TCB x, which was ready or is the idle TCB of this core.
LEMMA ChooseKeeps ==
  ASSUME SchedulerInv, NEW c \in Cores, NEW x \in TCBs, pc[loaded[c]] = "remove",
         pc[x] = "parked", x \in Cores => x = c, \A k \in Kinds : Holds(k, x) => k = "ready",
         next' = [next EXCEPT ![loaded[c]] = x], pc' = [pc EXCEPT ![loaded[c]] = "claim"],
         readyQ' \in Seq(Threads), Distinct(readyQ'),
         \A u \in TCBs : Among(readyQ', u) <=> Among(readyQ, u) /\ u # x,
         UNCHANGED <<zombies, waiting, activeThreads, loaded, intr, noPreempt, savedIF,
                     reason, resume, me, core, source, zombie>>
  PROVE  SchedulerInv'
<1> DEFINE t == loaded[c]
<1>1. /\ t \in TCBs /\ pc[t] = "remove" /\ activeThreads[c] = t /\ source[c] = NoTCB
      /\ loaded[c] = t /\ core[t] = c /\ noPreempt[t] /\ reason[t] # "none" /\ x # t
  BY InsideOk DEF Inside
<1>2. /\ next' = [next EXCEPT ![t] = x] /\ pc' = [pc EXCEPT ![t] = "claim"]
      /\ UNCHANGED <<zombies, waiting, activeThreads, loaded, intr, noPreempt, savedIF,
                     reason, resume, me, core, source, zombie>>
  OBVIOUS
<1>3. \A d \in Cores : d # c => Undisturbed(d)
  BY Elsewhere DEF Undisturbed, SchedulerInv, TypeOK
<1> HIDE DEF t
<1>4. TypeOK'
  BY <1>1, <1>2 DEF SchedulerInv, TypeOK, Labels, Inside
<1>5. CoreOk(c)'
  BY <1>1, <1>2 DEF SchedulerInv, TypeOK, CoreOk, HasChosen, Inside
<1>6. CoresOk'
  BY <1>3, <1>5, UndisturbedOk DEF CoresOk
<1>7. \A u \in TCBs : (Chooses(c, u)' <=> u = x) /\ ~Chooses(c, u)
  BY <1>1, <1>2 DEF Chooses, HasChosen, Inside, SchedulerInv, TypeOK
<1>8. \A d \in Cores : d # c => \A u \in TCBs : Chooses(d, u)' <=> Chooses(d, u)
  BY <1>3, UndisturbedOk
<1>9. \A d \in Cores : ~Chooses(d, x)
  BY DEF Holds, Kinds
<1>10. Single'
  <2>1. \A d, e \in Cores : \A u \in TCBs : Chooses(d, u)' /\ Chooses(e, u)' => d = e
    BY <1>7, <1>8, <1>9 DEF SchedulerInv, Single
  <2> QED
    BY <1>2, <2>1 DEF SchedulerInv, Single
<1>11. IdlesOk'
  <2>1. \A d, e \in Cores : (source[e] = d \/ Chooses(e, d))' => e = d
    BY <1>2, <1>7, <1>8 DEF SchedulerInv, IdlesOk, IdleOk, TCBs
  <2>2. \A d \in Cores : d # t => pc'[d] = pc[d] /\ resume'[d] = resume[d]
          /\ reason'[d] = reason[d] /\ (savedIF'[d] <=> savedIF[d])
    BY <1>1, <1>2 DEF SchedulerInv, TypeOK, TCBs
  <2>3. t = c => IdleCode(c)'
    BY <1>1, <1>2 DEF IdleCode, SchedulerInv, TypeOK, IdlesOk, IdleOk, Inside
  <2>4. UNCHANGED loaded
    BY <1>2
  <2> USE DEF t
  <2> QED
    BY ONLY SchedulerInv, c \in Cores, <1>3, <2>1, <2>2, <2>3, <2>4, IdlesMove
<1>12. PlacesOk'
  <2>1. \A u \in TCBs : u # x => \A k \in Kinds : Holds(k, u)' <=> Holds(k, u)
    <3> SUFFICES ASSUME NEW u \in TCBs, u # x, NEW k \in Kinds PROVE Holds(k, u)' <=> Holds(k, u)
      OBVIOUS
    <3>1. (\E d \in Cores : Chooses(d, u)') <=> (\E d \in Cores : Chooses(d, u))
      BY <1>7, <1>8
    <3>2. Among(readyQ', u) <=> Among(readyQ, u)
      OBVIOUS
    <3> QED
      BY <1>2, <3>1, <3>2 DEF Holds
  <2>2. \A k \in Kinds : Holds(k, x)' <=> k = "chosen"
    <3> SUFFICES ASSUME NEW k \in Kinds PROVE Holds(k, x)' <=> k = "chosen"
      OBVIOUS
    <3>1. CASE k = "chosen"
      BY <3>1, <1>7 DEF Holds
    <3>2. CASE k = "ready"
      BY <3>2 DEF Holds
    <3>3. CASE k \notin {"chosen", "ready"}
      <4>1. ~Holds(k, x)
        BY <3>3
      <4> QED
        BY <3>3, <4>1, <1>2 DEF Holds
    <3> QED
      BY <3>1, <3>2, <3>3
  <2>3. \A u \in TCBs : zombie'[u] # NoTCB <=> Phase(u)' = "delete"
    BY <1>1, <1>2 DEF SchedulerInv, PlacesOk, PlaceOk, Phase, TypeOK, Code
  <2>4. /\ pc'[x] = "parked" /\ pc'[t] \notin {"parked", "free"} /\ "chosen" \in Kinds
        /\ pc[t] \notin {"parked", "free"}
        /\ \A u \in TCBs : u # x /\ u # t => pc'[u] = pc[u]
    BY <1>1, <1>2 DEF SchedulerInv, TypeOK, Kinds
  <2> QED
    BY <1>1, <1>2, <1>4, <2>1, <2>2, <2>3, <2>4, PlacesMove
<1> QED
  BY <1>4, <1>6, <1>10, <1>11, <1>12 DEF SchedulerInv

\* readyQ.remove() returns a thread.
LEMMA RemoveReadyKeeps ==
  ASSUME SchedulerInv, NEW c \in Cores, RemoveReady(c)
  PROVE  SchedulerInv'
<1> DEFINE x == Head(readyQ)
<1>1. readyQ \in Seq(Threads) /\ readyQ # <<>> /\ Distinct(readyQ)
  BY DEF RemoveReady, SchedulerInv, TypeOK, Single
<1>2. /\ x \in Threads /\ Among(readyQ, x) /\ Tail(readyQ) \in Seq(Threads)
      /\ Distinct(Tail(readyQ)) /\ \A u : Among(Tail(readyQ), u) <=> Among(readyQ, u) /\ u # x
  BY ONLY <1>1, TailIs
<1> HIDE DEF x
<1>3. x \in TCBs /\ x \notin Cores
  BY <1>2, SchedulerAssumption DEF TCBs
<1>4. Holds("ready", x) /\ "ready" \in Kinds
  BY <1>2 DEF Holds, Kinds
<1>5. pc[x] = "parked" /\ \A k \in Kinds : Holds(k, x) => k = "ready"
  BY <1>3, <1>4 DEF SchedulerInv, PlacesOk, PlaceOk
<1>6. /\ pc[loaded[c]] = "remove" /\ next' = [next EXCEPT ![loaded[c]] = x]
      /\ pc' = [pc EXCEPT ![loaded[c]] = "claim"] /\ readyQ' = Tail(readyQ)
      /\ UNCHANGED <<zombies, waiting, activeThreads, loaded, intr, noPreempt, savedIF,
                     reason, resume, me, core, source, zombie>>
  BY DEF RemoveReady, Goto, x
<1> QED
  BY ONLY SchedulerInv, c \in Cores, <1>2, <1>3, <1>5, <1>6, ChooseKeeps

\* Nothing is ready: the idle TCB of this core is next.
LEMMA RemoveIdleKeeps ==
  ASSUME SchedulerInv, NEW c \in Cores, RemoveIdle(c)
  PROVE  SchedulerInv'
<1>1. /\ pc[loaded[c]] = "remove" /\ core[loaded[c]] = c /\ loaded[c] # c /\ c \in TCBs
      /\ source[c] = NoTCB
  BY InsideOk DEF RemoveIdle, Inside, TCBs
<1>2. /\ readyQ \in Seq(Threads) /\ Distinct(readyQ) /\ c \notin Threads /\ c # NoTCB
      /\ ~Chooses(c, c)
  BY <1>1, SchedulerAssumption DEF SchedulerInv, TypeOK, Single, Chooses, HasChosen
<1>3. \A d \in Cores : loaded[d] # c /\ source[d] # c /\ ~Chooses(d, c)
  BY <1>1, <1>2 DEF SchedulerInv, IdlesOk, IdleOk
<1>4. pc[c] = "parked"
  BY <1>1, <1>3 DEF SchedulerInv, IdlesOk, IdleOk, PlacesOk, PlaceOk, Inside
<1>5. ~Among(readyQ, c) /\ ~Among(zombies, c) /\ c \notin waiting
      /\ \A u \in TCBs : zombie[u] # c
  BY <1>2 DEF Among, SchedulerInv, TypeOK
<1>6. \A k \in Kinds : ~Holds(k, c)
  BY <1>3, <1>5 DEF Holds
<1>7. /\ next' = [next EXCEPT ![loaded[c]] = c]
      /\ pc' = [pc EXCEPT ![loaded[c]] = "claim"] /\ readyQ' = readyQ
      /\ UNCHANGED <<zombies, waiting, activeThreads, loaded, intr, noPreempt, savedIF,
                     reason, resume, me, core, source, zombie>>
  BY <1>1 DEF RemoveIdle, Goto
<1>8. /\ readyQ' \in Seq(Threads) /\ Distinct(readyQ') /\ (c \in Cores => c = c)
      /\ \A u \in TCBs : Among(readyQ', u) <=> Among(readyQ, u) /\ u # c
      /\ \A k \in Kinds : Holds(k, c) => k = "ready"
  BY <1>2, <1>5, <1>6, <1>7
<1> QED
  BY ONLY SchedulerInv, c \in Cores, <1>1, <1>4, <1>7, <1>8, ChooseKeeps

\* A TCB that a core has chosen is used by no other core.
LEMMA ChosenAlone ==
  ASSUME SchedulerInv, NEW c \in Cores, NEW d \in Cores, d # c, pc[loaded[c]] \in HasChosen
  PROVE  /\ loaded[d] # next[loaded[c]] /\ activeThreads[d] # next[loaded[c]]
         /\ source[d] # next[loaded[c]]
         /\ pc[loaded[d]] \in HasChosen => next[loaded[d]] # next[loaded[c]]
<1> DEFINE x == next[loaded[c]]
<1>1. x \in TCBs /\ pc[x] = "parked" /\ Chooses(c, x)
  BY InsideOk DEF Chooses
<1> HIDE DEF x
<1>2. Holds("chosen", x) /\ "chosen" \in Kinds /\ "source" \in Kinds
  BY <1>1 DEF Holds, Kinds
<1>3. ~Holds("source", x)
  BY <1>1, <1>2 DEF SchedulerInv, PlacesOk, PlaceOk
<1>4. source[d] # x
  BY <1>3 DEF Holds
<1>5. ~Chooses(d, x)
  BY <1>1 DEF SchedulerInv, Single
<1>6. loaded[d] # x
  BY <1>1, Elsewhere
<1>7. activeThreads[d] = loaded[d] \/ (pc[loaded[d]] \in HasChosen /\ activeThreads[d] = next[loaded[d]])
  BY DEF SchedulerInv, CoresOk, CoreOk, HasChosen, Inside
<1> QED
  BY <1>4, <1>5, <1>6, <1>7 DEF x, Chooses

\* gheith_contextSwitch: the chosen TCB is loaded, the other one is given to the handler.
LEMMA SwitchKeeps ==
  ASSUME SchedulerInv, NEW c \in Cores, Switch(c)
  PROVE  SchedulerInv'
<1> DEFINE t == loaded[c]
           x == next[t]
<1>1. /\ t \in TCBs /\ pc[t] = "switch" /\ source[c] = NoTCB /\ loaded[c] = t /\ next[t] = x
      /\ x \in TCBs /\ pc[x] = "parked" /\ x # t /\ reason[t] # "none" /\ me[t] = t
      /\ activeThreads[c] = x /\ Chooses(c, x) /\ t # NoTCB
  BY InsideOk, SchedulerAssumption
     DEF Switch, Inside, HasChosen, SchedulerInv, CoresOk, CoreOk, Chooses, TCBs
<1>2. /\ savedIF' = [savedIF EXCEPT ![t] = intr[c]] /\ intr' = [intr EXCEPT ![c] = FALSE]
      /\ next' = [next EXCEPT ![t] = NoTCB] /\ core' = [core EXCEPT ![t] = NoTCB]
      /\ noPreempt' = [noPreempt EXCEPT ![t] = FALSE, ![x] = FALSE]
      /\ loaded' = [loaded EXCEPT ![c] = x] /\ source' = [source EXCEPT ![c] = t]
      /\ pc' = [pc EXCEPT ![t] = "parked", ![x] = "finish"]
      /\ UNCHANGED <<readyQ, zombies, waiting, activeThreads, reason, resume, me, zombie>>
  BY <1>1 DEF Switch
<1>3. \A d \in Cores : d # c => Undisturbed(d)
  <2> SUFFICES ASSUME NEW d \in Cores, d # c PROVE Undisturbed(d)
    OBVIOUS
  <2>1. /\ loaded[d] \in TCBs /\ loaded[d] \notin {t, x}
        /\ activeThreads[d] \in TCBs /\ activeThreads[d] \notin {t, x}
        /\ pc[loaded[d]] \in HasChosen => next[loaded[d]] \in TCBs /\ next[loaded[d]] \notin {t, x}
    BY <1>1, Elsewhere, ChosenAlone DEF HasChosen, Inside
  <2> HIDE DEF t, x
  <2> QED
    BY <1>1, <1>2, <2>1 DEF Undisturbed, SchedulerInv, TypeOK
<1> HIDE DEF t, x
<1>4. TypeOK'
  BY <1>1, <1>2 DEF SchedulerInv, TypeOK, Labels, TCBs
<1>5. pc'[t] = "parked" /\ pc'[x] = "finish" /\ \A u \in TCBs : u \notin {t, x} => pc'[u] = pc[u]
  BY <1>1, <1>2 DEF SchedulerInv, TypeOK
<1>6. CoreOk(c)'
  <2>1. loaded'[c] = x /\ source'[c] = t /\ ~intr'[c]
    BY <1>1, <1>2 DEF SchedulerInv, TypeOK
  <2> QED
    BY <1>1, <1>2, <1>5, <2>1 DEF CoreOk, HasChosen, Inside
<1>7. CoresOk'
  BY <1>3, <1>6, UndisturbedOk DEF CoresOk
<1>8. \A d \in Cores : \A u \in TCBs : Chooses(d, u)' <=> Chooses(d, u) /\ d # c
  <2> SUFFICES ASSUME NEW d \in Cores, NEW u \in TCBs
               PROVE  Chooses(d, u)' <=> Chooses(d, u) /\ d # c
    OBVIOUS
  <2>1. CASE d = c
    <3>1. loaded'[c] = x
      BY <1>1, <1>2 DEF SchedulerInv, TypeOK
    <3> QED
      BY <2>1, <3>1, <1>5 DEF Chooses, HasChosen, Inside
  <2>2. CASE d # c
    BY <2>2, <1>3, UndisturbedOk
  <2> QED
    BY <2>1, <2>2
<1>9. \A k \in Kinds : ~Holds(k, t)
  BY <1>1 DEF SchedulerInv, PlacesOk, PlaceOk
<1>10. \A k \in Kinds : Holds(k, x) => k = "chosen"
  <2>1. Holds("chosen", x) /\ "chosen" \in Kinds
    BY <1>1 DEF Holds, Kinds
  <2> QED
    BY <1>1, <2>1 DEF SchedulerInv, PlacesOk, PlaceOk
<1>11. Single'
  <2>1. \A d, e \in Cores : loaded'[d] = loaded'[e] => d = e
    <3>1. \A d \in Cores : d # c => loaded[d] # x
      BY <1>1, ChosenAlone DEF HasChosen, Inside
    <3> QED
      BY <1>2, <3>1 DEF SchedulerInv, TypeOK, Single
  <2>2. \A d, e \in Cores : source'[d] = source'[e] /\ source'[d] # NoTCB => d = e
    <3>1. \A d \in Cores : source[d] # t
      BY <1>9 DEF Holds, Kinds
    <3> QED
      BY <1>2, <3>1 DEF SchedulerInv, TypeOK, Single
  <2>3. \A d, e \in Cores : \A u \in TCBs : Chooses(d, u)' /\ Chooses(e, u)' => d = e
    BY <1>8 DEF SchedulerInv, Single
  <2> QED
    BY <1>2, <2>1, <2>2, <2>3 DEF SchedulerInv, Single
<1>12. IdlesOk'
  <2> SUFFICES ASSUME NEW d \in Cores PROVE IdleOk(d)'
    BY DEF IdlesOk
  <2>0. d \in TCBs /\ IdleOk(d)
    BY DEF TCBs, SchedulerInv, IdlesOk
  <2>1. (t = d => d = c) /\ (x = d => d = c)
    BY <1>1, <2>0 DEF IdleOk
  <2>2. \A e \in Cores : (loaded[e] = d \/ source[e] = d \/ Chooses(e, d))' => e = d
    <3> SUFFICES ASSUME NEW e \in Cores, loaded'[e] = d \/ source'[e] = d \/ Chooses(e, d)'
                 PROVE  e = d
      OBVIOUS
    <3>1. CASE e = c
      BY <3>1, <1>1, <1>2, <1>8, <2>0, <2>1 DEF SchedulerInv, TypeOK
    <3>2. CASE e # c
      <4>1. loaded'[e] = loaded[e] /\ source'[e] = source[e] /\ (Chooses(e, d)' => Chooses(e, d))
        BY <3>2, <1>2, <1>8, <2>0 DEF SchedulerInv, TypeOK
      <4> QED
        BY <4>1, <2>0 DEF IdleOk
    <3> QED
      BY <3>1, <3>2
  <2>3. pc'[d] \in Inside \cup {"run", "finish", "parked"}
    BY <1>5, <2>0 DEF IdleOk
  <2>4. savedIF'[d]
    <3>1. CASE d = t
      <4>1. intr[c]
        BY <3>1, <1>1, <2>0, <2>1 DEF IdleOk
      <4> QED
        BY <3>1, <4>1, <1>1, <1>2 DEF SchedulerInv, TypeOK
    <3>2. CASE d # t
      BY <3>2, <1>2, <2>0 DEF SchedulerInv, TypeOK, IdleOk
    <3> QED
      BY <3>1, <3>2
  <2>5. loaded'[d] = d /\ pc'[d] # "finish" => intr'[d]
    <3>1. loaded'[d] = d /\ pc'[d] # "finish" => d # c /\ loaded[d] = d /\ pc'[d] = pc[d]
      BY <1>1, <1>2, <1>5, <2>0, <2>1 DEF SchedulerInv, TypeOK
    <3> QED
      BY <3>1, <1>2, <2>0 DEF SchedulerInv, TypeOK, IdleOk
  <2> QED
    BY <1>2, <2>0, <2>2, <2>3, <2>4, <2>5 DEF IdleOk
<1>13. PlacesOk'
  <2> SUFFICES ASSUME NEW u \in TCBs PROVE PlaceOk(u)'
    BY DEF PlacesOk
  <2>1. PlaceOk(u)
    BY DEF SchedulerInv, PlacesOk
  <2>2. zombie'[u] # NoTCB <=> Phase(u)' = "delete"
    BY <1>1, <1>2, <1>5, <2>1 DEF PlaceOk, Phase, Code
  <2>3. (\E d \in Cores : source'[d] = u) <=> (\E d \in Cores : source[d] = u) \/ u = t
    <3>1. source'[c] = t /\ source[c] # u /\ \A d \in Cores : d # c => source'[d] = source[d]
      BY <1>1, <1>2, SchedulerAssumption DEF SchedulerInv, TypeOK, TCBs
    <3> QED
      BY <3>1
  <2>4. (\E d \in Cores : Chooses(d, u)') <=> (\E d \in Cores : Chooses(d, u)) /\ u # x
    <3>1. Chooses(c, u) <=> u = x
      BY <1>1 DEF Chooses
    <3>2. \A d \in Cores : d # c => ~Chooses(d, x)
      BY <1>1 DEF SchedulerInv, Single
    <3> QED
      BY <1>8, <3>1, <3>2
  <2>5. CASE u = t
    <3>1. \A k \in Kinds : Holds(k, u)' <=> k = "source"
      BY <1>1, <1>2, <1>9, <2>3, <2>4, <2>5 DEF Holds, Kinds
    <3>2. "source" \in Kinds
      BY DEF Kinds
    <3> QED
      BY <1>2, <1>5, <2>1, <2>2, <2>5, <3>1, <3>2 DEF PlaceOk
  <2>6. CASE u = x
    <3>1. \A k \in Kinds : ~Holds(k, u)'
      BY <1>1, <1>2, <1>10, <2>3, <2>4, <2>6 DEF Holds, Kinds
    <3>2. loaded'[c] = u
      BY <1>1, <1>2, <2>6 DEF SchedulerInv, TypeOK
    <3> QED
      BY <1>2, <1>5, <2>1, <2>2, <2>6, <3>1, <3>2 DEF PlaceOk
  <2>7. CASE u \notin {t, x}
    <3>1. \A k \in Kinds : Holds(k, u)' <=> Holds(k, u)
      BY <1>2, <2>3, <2>4, <2>7 DEF Holds
    <3>2. pc'[u] = pc[u]
      BY <1>5, <2>7
    <3>3. \A d \in Cores : loaded[d] = u => loaded'[d] = u
      BY <1>1, <1>2, <2>7 DEF SchedulerInv, TypeOK
    <3> QED
      BY <1>2, <2>1, <2>2, <3>1, <3>2, <3>3 DEF PlaceOk
  <2> QED
    BY <2>5, <2>6, <2>7
<1> QED
  BY <1>4, <1>7, <1>11, <1>12, <1>13 DEF SchedulerInv

\* A step of core c that moves TCB x, which no core is about to switch to, from one
\* place to another.
LEMMA MoveKeeps ==
  ASSUME SchedulerInv, NEW c \in Cores, NEW x \in TCBs, TypeOK', CoreOk(c)',
         UNCHANGED <<loaded, me>>,
         \A d \in Cores : d # c => Undisturbed(d),
         \A u \in TCBs : Chooses(c, u)' <=> Chooses(c, u),
         x # loaded[c], pc[x] \in {"parked", "free"}, pc'[x] \in {"parked", "free"},
         pc[loaded[c]] \notin {"parked", "free"}, pc'[loaded[c]] \notin {"parked", "free"},
         \A u \in TCBs : u # x /\ u # loaded[c] => pc'[u] = pc[u],
         Distinct(readyQ'), Distinct(zombies'),
         \A d \in Cores : source'[d] = source[d] \/ source'[d] = NoTCB,
         \A u, v \in TCBs : zombie'[u] = zombie'[v] /\ zombie'[u] # NoTCB => u = v,
         \A u \in TCBs : u # x => \A k \in Kinds : Holds(k, u)' <=> Holds(k, u),
         \A j, k \in Kinds : Holds(j, x)' /\ Holds(k, x)' => j = k,
         \A k \in Kinds : Holds(k, x)' => pc'[x] = "parked",
         pc'[x] = "parked" /\ x \in Threads => \E k \in Kinds : Holds(k, x)',
         \A u \in TCBs : zombie'[u] # NoTCB <=> Phase(u)' = "delete",
         \A d \in Cores : d # loaded[c] =>
           pc'[d] = pc[d] /\ resume'[d] = resume[d] /\ reason'[d] = reason[d]
           /\ (savedIF'[d] <=> savedIF[d]),
         loaded[c] = c => IdleCode(c)'
  PROVE  SchedulerInv'
<1>1. CoresOk'
  BY UndisturbedOk DEF CoresOk
<1>2. ASSUME NEW d \in Cores, NEW u \in TCBs PROVE Chooses(d, u)' <=> Chooses(d, u)
  <2>1. CASE d # c
    BY <2>1, UndisturbedOk
  <2> QED
    BY <2>1
<1>3. Single'
  <2>1. \A d, e \in Cores : \A u \in TCBs : Chooses(d, u)' /\ Chooses(e, u)' => d = e
    BY <1>2 DEF SchedulerInv, Single
  <2>2. \A d, e \in Cores : source'[d] = source'[e] /\ source'[d] # NoTCB => d = e
    BY DEF SchedulerInv, Single
  <2> QED
    BY <2>1, <2>2 DEF SchedulerInv, Single
<1>4. IdlesOk'
  <2>1. \A d, e \in Cores : (source[e] = d \/ Chooses(e, d))' => e = d
    BY <1>2, SchedulerAssumption DEF SchedulerInv, IdlesOk, IdleOk, TCBs
  <2> QED
    BY <2>1, IdlesMove
<1>5. PlacesOk'
  BY PlacesMove
<1> QED
  BY <1>1, <1>3, <1>4, <1>5 DEF SchedulerInv

\* Semaphore::up() schedules a thread that waits.
LEMMA WakeKeeps ==
  ASSUME SchedulerInv, NEW c \in Cores, NEW w \in Threads, Wake(c, w)
  PROVE  SchedulerInv'
<1>1. /\ w \in TCBs /\ w \notin Cores /\ w \in waiting /\ pc[loaded[c]] \in Code /\ loaded[c] \in TCBs
      /\ loaded[c] \notin Cores
  BY SchedulerAssumption DEF Wake, Code, TCBs
<1>2. Holds("waiting", w) /\ "waiting" \in Kinds /\ "ready" \in Kinds
  BY <1>1 DEF Holds, Kinds
<1>3. /\ pc[w] = "parked" /\ w # loaded[c] /\ \A k \in Kinds : Holds(k, w) => k = "waiting"
  BY <1>1, <1>2 DEF SchedulerInv, PlacesOk, PlaceOk, Code
<1>4. ~Among(readyQ, w)
  BY <1>2, <1>3 DEF Holds
<1>5. readyQ \in Seq(Threads) /\ Distinct(readyQ)
  BY DEF SchedulerInv, TypeOK, Single
<1>6. /\ Append(readyQ, w) \in Seq(Threads) /\ Distinct(Append(readyQ, w))
      /\ \A u : Among(Append(readyQ, w), u) <=> Among(readyQ, u) \/ u = w
  BY ONLY <1>4, <1>5, w \in Threads, AppendIs
<1>7. /\ readyQ' = Append(readyQ, w) /\ waiting' = waiting \ {w}
      /\ UNCHANGED <<zombies, activeThreads, loaded, intr, noPreempt, savedIF, pc,
                     reason, resume, me, core, next, source, zombie>>
  BY DEF Wake, blockVars
<1>8. TypeOK'
  BY <1>6, <1>7 DEF SchedulerInv, TypeOK
<1>9. \A d \in Cores : Undisturbed(d)
  BY <1>7 DEF Undisturbed
<1>10. CoreOk(c)' /\ \A u \in TCBs : Chooses(c, u)' <=> Chooses(c, u)
  BY <1>9, UndisturbedOk
<1>11. \A u \in TCBs : u # w => \A k \in Kinds : Holds(k, u)' <=> Holds(k, u)
  BY <1>6, <1>7 DEF Holds, Chooses
<1>12. \A k \in Kinds : Holds(k, w)' <=> k = "ready"
  <2> SUFFICES ASSUME NEW k \in Kinds PROVE Holds(k, w)' <=> k = "ready"
    OBVIOUS
  <2>1. CASE k = "ready"
    BY <2>1, <1>6, <1>7 DEF Holds
  <2>2. CASE k = "waiting"
    BY <2>2, <1>7 DEF Holds
  <2>3. CASE k \notin {"ready", "waiting"}
    <3>1. ~Holds(k, w)
      BY <2>3, <1>3
    <3> QED
      BY <2>3, <3>1, <1>7 DEF Holds, Chooses
  <2> QED
    BY <2>1, <2>2, <2>3
<1>13. \A u \in TCBs : zombie'[u] # NoTCB <=> Phase(u)' = "delete"
  BY <1>7 DEF SchedulerInv, PlacesOk, PlaceOk, Phase
<1>14. /\ \A d \in Cores : d # c => Undisturbed(d)
       /\ UNCHANGED <<loaded, me>> /\ pc[w] \in {"parked", "free"} /\ pc'[w] \in {"parked", "free"}
       /\ pc[loaded[c]] \notin {"parked", "free"} /\ pc'[loaded[c]] \notin {"parked", "free"}
       /\ \A u \in TCBs : u # w /\ u # loaded[c] => pc'[u] = pc[u]
       /\ Distinct(readyQ') /\ Distinct(zombies')
       /\ \A d \in Cores : source'[d] = source[d] \/ source'[d] = NoTCB
       /\ \A u, v \in TCBs : zombie'[u] = zombie'[v] /\ zombie'[u] # NoTCB => u = v
  BY <1>1, <1>3, <1>6, <1>7, <1>9 DEF Code, SchedulerInv, Single
<1>15. /\ \A d \in Cores : d # loaded[c] =>
            pc'[d] = pc[d] /\ resume'[d] = resume[d] /\ reason'[d] = reason[d]
            /\ (savedIF'[d] <=> savedIF[d])
       /\ loaded[c] = c => IdleCode(c)'
  BY <1>1, <1>7
<1>16. /\ \A j, k \in Kinds : Holds(j, w)' /\ Holds(k, w)' => j = k
       /\ \A k \in Kinds : Holds(k, w)' => pc'[w] = "parked"
       /\ pc'[w] = "parked" /\ w \in Threads => \E k \in Kinds : Holds(k, w)'
  BY <1>2, <1>3, <1>7, <1>12
<1> QED
  BY ONLY SchedulerInv, c \in Cores, <1>1, <1>3, <1>8, <1>10, <1>11, <1>13, <1>14, <1>15, <1>16, MoveKeeps

\* delete_zombies() takes a zombie.
LEMMA ReapKeeps ==
  ASSUME SchedulerInv, NEW c \in Cores, Reap(c)
  PROVE  SchedulerInv'
<1> DEFINE t == loaded[c]
<1>1. /\ t \in TCBs /\ pc[t] = "reap" /\ loaded[c] = t /\ t \notin Cores
  BY InsideOk DEF Reap, SchedulerInv, IdlesOk, IdleOk, Inside
<1>2. /\ zombies \in Seq(Threads) /\ Distinct(zombies) /\ zombie[t] = NoTCB /\ source[c] = NoTCB
      /\ activeThreads[c] = t
  BY <1>1 DEF SchedulerInv, TypeOK, Single, CoresOk, CoreOk, PlacesOk, PlaceOk, Phase, Code
<1>3. CASE zombies = <<>>
  <2> DEFINE l == IF t = Reaper THEN "yield" ELSE "create"
  <2>1. /\ pc' = [pc EXCEPT ![t] = l]
        /\ UNCHANGED <<readyQ, zombies, waiting, activeThreads, loaded, intr, noPreempt, savedIF,
                       reason, resume, me, core, next, source, zombie>>
    BY <1>3 DEF Reap, Goto, blockVars
  <2>2. l \in {"yield", "create"}
    OBVIOUS
  <2> HIDE DEF t, l
  <2>3. TypeOK'
    BY <1>1, <2>1, <2>2 DEF SchedulerInv, TypeOK, Labels, Code
  <2>4. CoreOk(c)'
    BY <1>1, <1>2, <2>1, <2>2 DEF SchedulerInv, TypeOK, CoreOk, HasChosen, Inside
  <2>5. \A d \in Cores : d # c => Undisturbed(d)
    BY <1>1, <2>1, Elsewhere DEF t, Undisturbed, SchedulerInv, TypeOK
  <2>6. \A u \in TCBs : Chooses(c, u)' <=> Chooses(c, u)
    BY <1>1, <2>1, <2>2 DEF Chooses, HasChosen, Inside, SchedulerInv, TypeOK
  <2>7. Phase(t)' = "delete" <=> Phase(t) = "delete"
    BY <1>1, <2>1, <2>2 DEF t, Phase, Code, SchedulerInv, TypeOK
  <2>8. \A u \in TCBs : u # t => resume'[u] = resume[u] /\ reason'[u] = reason[u]
                                 /\ (savedIF'[u] <=> savedIF[u])
    BY <2>1
  <2>9. pc[t] \notin {"parked", "free"} /\ l \notin {"parked", "free"}
        /\ pc' = [pc EXCEPT ![t] = l] /\ (t = c => IdleCode(c)')
    BY <1>1, <2>1, <2>2
  <2>10. UNCHANGED <<loaded, source, readyQ, zombies, waiting, zombie, me>>
    BY <2>1
  <2> USE DEF t
  <2> QED
    BY ONLY SchedulerInv, c \in Cores, <2>3, <2>4, <2>5, <2>6, <2>7, <2>8, <2>9, <2>10, QuietStep
<1>4. CASE zombies # <<>>
  <2>0. Head(zombies) \in Threads
    BY ONLY <1>2, <1>4, TailIs
  <2>a. PICK x \in Threads : x = Head(zombies)
    BY <2>0
  <2>1. /\ x \in Threads /\ Among(zombies, x) /\ Tail(zombies) \in Seq(Threads)
        /\ Distinct(Tail(zombies)) /\ \A u : Among(Tail(zombies), u) <=> Among(zombies, u) /\ u # x
    BY ONLY <1>2, <1>4, <2>a, TailIs
  <2>2. /\ zombie' = [zombie EXCEPT ![t] = x] /\ zombies' = Tail(zombies)
        /\ pc' = [pc EXCEPT ![t] = "delete"]
        /\ UNCHANGED <<readyQ, waiting, activeThreads, loaded, intr, noPreempt, savedIF,
                       reason, resume, me, core, next, source>>
    BY <1>4, <2>a DEF Reap, Goto, blockVars
  <2>3. \A d \in Cores : d # c => Undisturbed(d)
    BY <1>1, <2>2, Elsewhere DEF Undisturbed, SchedulerInv, TypeOK
  <2> HIDE DEF t
  <2>4. x \in TCBs /\ x \notin Cores /\ x # NoTCB
    BY <2>1, SchedulerAssumption DEF TCBs
  <2>5. Holds("zombie", x) /\ "zombie" \in Kinds /\ "deleted" \in Kinds
    BY <2>1 DEF Holds, Kinds
  <2>6. pc[x] = "parked" /\ x # t /\ \A k \in Kinds : Holds(k, x) => k = "zombie"
    BY <1>1, <2>4, <2>5 DEF SchedulerInv, PlacesOk, PlaceOk
  <2>7. TypeOK'
    BY <1>1, <2>1, <2>2 DEF SchedulerInv, TypeOK, Labels, Code
  <2>8. CoreOk(c)'
    BY <1>1, <1>2, <2>2 DEF SchedulerInv, TypeOK, CoreOk, HasChosen, Inside
  <2>9. \A u \in TCBs : Chooses(c, u)' <=> Chooses(c, u)
    BY <1>1, <2>2 DEF Chooses, HasChosen, Inside, SchedulerInv, TypeOK
  <2>10. \A d \in Cores, u \in TCBs : Chooses(d, u)' <=> Chooses(d, u)
    BY <2>3, <2>9, UndisturbedOk
  <2>11. \A u \in TCBs : (\E v \in TCBs : zombie'[v] = u) <=> (\E v \in TCBs : zombie[v] = u) \/ u = x
    <3>1. zombie'[t] = x /\ \A v \in TCBs : v # t => zombie'[v] = zombie[v]
      BY <1>1, <2>2 DEF SchedulerInv, TypeOK
    <3>2. NoTCB \notin TCBs
      BY SchedulerAssumption DEF TCBs
    <3> QED
      BY <1>1, <1>2, <3>1, <3>2
  <2>12. \A u \in TCBs : u # x => \A k \in Kinds : Holds(k, u)' <=> Holds(k, u)
    BY <2>1, <2>2, <2>10, <2>11 DEF Holds
  <2>13. \A k \in Kinds : Holds(k, x)' <=> k = "deleted"
    <3> SUFFICES ASSUME NEW k \in Kinds PROVE Holds(k, x)' <=> k = "deleted"
      OBVIOUS
    <3>1. CASE k = "deleted"
      BY <3>1, <2>4, <2>11 DEF Holds
    <3>2. CASE k = "zombie"
      BY <3>2, <2>1, <2>2 DEF Holds
    <3>3. CASE k \notin {"zombie", "deleted"}
      <4>1. ~Holds(k, x)
        BY <3>3, <2>6
      <4> QED
        BY <3>3, <4>1, <2>2, <2>4, <2>10 DEF Holds
    <3> QED
      BY <3>1, <3>2, <3>3
  <2>14. \A u \in TCBs : zombie'[u] # NoTCB <=> Phase(u)' = "delete"
    BY <1>1, <2>2, <2>4 DEF SchedulerInv, PlacesOk, PlaceOk, Phase, TypeOK, Code
  <2>15. \A u, v \in TCBs : zombie'[u] = zombie'[v] /\ zombie'[u] # NoTCB => u = v
    <3>1. \A v \in TCBs : zombie[v] # x
      BY <2>4, <2>5, <2>6 DEF Holds
    <3> QED
      BY <1>1, <2>2, <3>1 DEF SchedulerInv, TypeOK, Single
  <2>16. /\ UNCHANGED <<loaded, me>> /\ pc[x] \in {"parked", "free"} /\ pc'[x] \in {"parked", "free"}
         /\ pc[t] \notin {"parked", "free"} /\ pc'[t] \notin {"parked", "free"}
         /\ \A u \in TCBs : u # x /\ u # t => pc'[u] = pc[u]
         /\ Distinct(readyQ') /\ Distinct(zombies')
         /\ \A d \in Cores : source'[d] = source[d] \/ source'[d] = NoTCB
    BY <1>1, <2>1, <2>2, <2>4, <2>6 DEF SchedulerInv, TypeOK, Single
  <2>17. /\ \A d \in Cores : d # t =>
              pc'[d] = pc[d] /\ resume'[d] = resume[d] /\ reason'[d] = reason[d]
              /\ (savedIF'[d] <=> savedIF[d])
         /\ t = c => IdleCode(c)'
    BY <1>1, <2>2 DEF SchedulerInv, TypeOK, TCBs
  <2>18. /\ \A j, k \in Kinds : Holds(j, x)' /\ Holds(k, x)' => j = k
         /\ \A k \in Kinds : Holds(k, x)' => pc'[x] = "parked"
         /\ pc'[x] = "parked" /\ x \in Threads => \E k \in Kinds : Holds(k, x)'
    BY <1>1, <2>2, <2>4, <2>5, <2>6, <2>13 DEF SchedulerInv, TypeOK
  <2> USE DEF t
  <2> QED
    BY ONLY SchedulerInv, c \in Cores, <2>3, <2>4, <2>6, <2>7, <2>8, <2>9, <2>12, <2>14, <2>15, <2>16,
            <2>17, <2>18, MoveKeeps
<1> QED
  BY <1>3, <1>4

\* delete_zombies() deletes the zombie it has taken.
LEMMA DeleteKeeps ==
  ASSUME SchedulerInv, NEW c \in Cores, Delete(c)
  PROVE  SchedulerInv'
<1> DEFINE t == loaded[c]
<1>1. /\ t \in TCBs /\ pc[t] = "delete" /\ loaded[c] = t /\ t \notin Cores
  BY InsideOk DEF Delete, SchedulerInv, IdlesOk, IdleOk, Inside
<1>2. /\ zombie[t] \in Threads /\ zombie[t] # NoTCB /\ source[c] = NoTCB /\ activeThreads[c] = t
  BY <1>1 DEF SchedulerInv, TypeOK, CoresOk, CoreOk, PlacesOk, PlaceOk, Phase, Code
<1>a. PICK x \in Threads : x = zombie[t]
  BY <1>2
<1>3. /\ x \in TCBs /\ x \notin Cores /\ x # NoTCB
  BY SchedulerAssumption DEF TCBs
<1>4. Holds("deleted", x) /\ "deleted" \in Kinds
  BY <1>1, <1>a DEF Holds, Kinds
<1>5. /\ pc[x] = "parked" /\ x # t /\ \A k \in Kinds : Holds(k, x) => k = "deleted"
  BY <1>1, <1>3, <1>4 DEF SchedulerInv, PlacesOk, PlaceOk
<1>6. /\ pc' = [pc EXCEPT ![x] = "free", ![t] = "reap"] /\ zombie' = [zombie EXCEPT ![t] = NoTCB]
      /\ UNCHANGED <<readyQ, zombies, waiting, activeThreads, loaded, intr, noPreempt, savedIF,
                     reason, resume, me, core, next, source>>
  BY <1>a DEF Delete, blockVars
<1>7. /\ pc'[x] = "free" /\ pc'[t] = "reap" /\ \A u \in TCBs : u # x /\ u # t => pc'[u] = pc[u]
      /\ zombie'[t] = NoTCB /\ \A u \in TCBs : u # t => zombie'[u] = zombie[u]
  BY <1>1, <1>3, <1>5, <1>6 DEF SchedulerInv, TypeOK
<1>8. \A d \in Cores : d # c => Undisturbed(d)
  <2> SUFFICES ASSUME NEW d \in Cores, d # c PROVE Undisturbed(d)
    OBVIOUS
  <2>1. loaded[d] \in TCBs /\ loaded[d] # t /\ loaded[d] # x
    BY <1>5, Elsewhere
  <2> QED
    BY <1>6, <1>7, <2>1 DEF Undisturbed
<1> HIDE DEF t
<1>9. TypeOK'
  BY <1>1, <1>3, <1>6 DEF SchedulerInv, TypeOK, Labels, Code
<1>10. CoreOk(c)'
  BY <1>1, <1>2, <1>6, <1>7 DEF SchedulerInv, TypeOK, CoreOk, HasChosen, Inside
<1>11. \A u \in TCBs : Chooses(c, u)' <=> Chooses(c, u)
  BY <1>1, <1>6, <1>7 DEF Chooses, HasChosen, Inside
<1>12. \A d \in Cores, u \in TCBs : Chooses(d, u)' <=> Chooses(d, u)
  BY <1>8, <1>11, UndisturbedOk
<1>13. \A u \in TCBs : (\E v \in TCBs : zombie'[v] = u) <=> (\E v \in TCBs : zombie[v] = u) /\ u # x
  <2>1. NoTCB \notin TCBs
    BY SchedulerAssumption DEF TCBs
  <2>2. \A v \in TCBs : zombie[v] = x => v = t
    BY <1>1, <1>a, <1>3 DEF SchedulerInv, Single, t
  <2> QED
    BY <1>1, <1>a, <1>7, <2>1, <2>2 DEF t
<1>14. \A u \in TCBs : u # x => \A k \in Kinds : Holds(k, u)' <=> Holds(k, u)
  BY <1>6, <1>12, <1>13 DEF Holds
<1>15. \A k \in Kinds : ~Holds(k, x)'
  <2> SUFFICES ASSUME NEW k \in Kinds PROVE ~Holds(k, x)'
    OBVIOUS
  <2>1. CASE k = "deleted"
    BY <2>1, <1>3, <1>13 DEF Holds
  <2>2. CASE k # "deleted"
    <3>1. ~Holds(k, x)
      BY <2>2, <1>5
    <3> QED
      BY <2>2, <3>1, <1>3, <1>6, <1>12 DEF Holds
  <2> QED
    BY <2>1, <2>2
<1>16. \A u \in TCBs : zombie'[u] # NoTCB <=> Phase(u)' = "delete"
  <2> SUFFICES ASSUME NEW u \in TCBs PROVE zombie'[u] # NoTCB <=> Phase(u)' = "delete"
    OBVIOUS
  <2>1. zombie[u] # NoTCB <=> Phase(u) = "delete"
    BY DEF SchedulerInv, PlacesOk, PlaceOk
  <2>2. CASE u = t
    BY <2>2, <1>7 DEF Phase, Code
  <2>3. CASE u # t /\ u # x
    BY <2>1, <2>3, <1>6, <1>7 DEF Phase
  <2>4. CASE u = x
    BY <2>1, <2>4, <1>5, <1>6, <1>7 DEF Phase, Code
  <2> QED
    BY <2>2, <2>3, <2>4
<1>17. \A u, v \in TCBs : zombie'[u] = zombie'[v] /\ zombie'[u] # NoTCB => u = v
  BY <1>7 DEF SchedulerInv, Single
<1>18. /\ UNCHANGED <<loaded, me>> /\ pc[x] \in {"parked", "free"} /\ pc'[x] \in {"parked", "free"}
       /\ pc[t] \notin {"parked", "free"} /\ pc'[t] \notin {"parked", "free"}
       /\ \A u \in TCBs : u # x /\ u # t => pc'[u] = pc[u]
       /\ Distinct(readyQ') /\ Distinct(zombies')
       /\ \A d \in Cores : source'[d] = source[d] \/ source'[d] = NoTCB
  BY <1>1, <1>5, <1>6, <1>7 DEF SchedulerInv, Single
<1>19. /\ \A d \in Cores : d # t =>
            pc'[d] = pc[d] /\ resume'[d] = resume[d] /\ reason'[d] = reason[d]
            /\ (savedIF'[d] <=> savedIF[d])
       /\ t = c => IdleCode(c)'
  BY <1>1, <1>3, <1>6, <1>7 DEF TCBs
<1>20. /\ \A j, k \in Kinds : Holds(j, x)' /\ Holds(k, x)' => j = k
       /\ \A k \in Kinds : Holds(k, x)' => pc'[x] = "parked"
       /\ pc'[x] = "parked" /\ x \in Threads => \E k \in Kinds : Holds(k, x)'
  BY <1>7, <1>15
<1> USE DEF t
<1> QED
  BY ONLY SchedulerInv, c \in Cores, <1>3, <1>5, <1>8, <1>9, <1>10, <1>11, <1>14, <1>16, <1>17, <1>18,
          <1>19, <1>20, MoveKeeps

\* thread() makes a TCB and schedules it.
LEMMA CreateKeeps ==
  ASSUME SchedulerInv, NEW c \in Cores, NEW n \in Threads, Create(c, n), resume[n] = "run"
  PROVE  SchedulerInv'
<1> DEFINE t == loaded[c]
<1>1. /\ t \in TCBs /\ pc[t] = "create" /\ loaded[c] = t /\ t \notin Cores
  BY InsideOk DEF Create, SchedulerInv, IdlesOk, IdleOk, Inside
<1>2. /\ zombie[t] = NoTCB /\ source[c] = NoTCB /\ activeThreads[c] = t
  BY <1>1 DEF SchedulerInv, TypeOK, CoresOk, CoreOk, PlacesOk, PlaceOk, Phase, Code
<1>3. /\ n \in TCBs /\ n \notin Cores /\ n # NoTCB /\ pc[n] = "free" /\ n # t
  BY <1>1, SchedulerAssumption DEF TCBs, Create
<1>4. \A k \in Kinds : ~Holds(k, n)
  BY <1>3 DEF SchedulerInv, PlacesOk, PlaceOk
<1>5. ~Among(readyQ, n) /\ "ready" \in Kinds /\ readyQ \in Seq(Threads) /\ Distinct(readyQ)
  BY <1>4 DEF Holds, Kinds, SchedulerInv, TypeOK, Single
<1>6. /\ Append(readyQ, n) \in Seq(Threads) /\ Distinct(Append(readyQ, n))
      /\ \A u : Among(Append(readyQ, n), u) <=> Among(readyQ, u) \/ u = n
  BY ONLY <1>5, n \in Threads, AppendIs
<1>7. /\ pc' = [pc EXCEPT ![n] = "parked", ![t] = "run"] /\ readyQ' = Append(readyQ, n)
      /\ reason' = [reason EXCEPT ![n] = "none"] /\ resume' = [resume EXCEPT ![n] = "run"]
      /\ savedIF' = [savedIF EXCEPT ![n] = TRUE] /\ noPreempt' = [noPreempt EXCEPT ![n] = FALSE]
      /\ UNCHANGED <<zombies, waiting, activeThreads, loaded, intr, me, core, next, source, zombie>>
  BY DEF Create
<1>8. /\ pc'[n] = "parked" /\ pc'[t] = "run" /\ \A u \in TCBs : u # n /\ u # t => pc'[u] = pc[u]
      /\ resume'[n] = "run" /\ \A u \in TCBs : u # n => /\ reason'[u] = reason[u] /\ resume'[u] = resume[u]
                                  /\ savedIF'[u] = savedIF[u] /\ noPreempt'[u] = noPreempt[u]
  BY <1>1, <1>3, <1>7 DEF SchedulerInv, TypeOK
<1>9. \A d \in Cores : d # c => Undisturbed(d)
  <2> SUFFICES ASSUME NEW d \in Cores, d # c PROVE Undisturbed(d)
    OBVIOUS
  <2>1. loaded[d] \in TCBs /\ loaded[d] # t /\ loaded[d] # n
        /\ activeThreads[d] \in TCBs /\ activeThreads[d] # n
    BY <1>3, Elsewhere
  <2>2. pc[loaded[d]] \in HasChosen => next[loaded[d]] \in TCBs /\ next[loaded[d]] # n
    BY <1>3, Elsewhere
  <2>3. source[d] # NoTCB => source[d] \in TCBs /\ source[d] # n
    BY <1>3, Elsewhere
  <2> QED
    BY <1>7, <1>8, <2>1, <2>2, <2>3 DEF Undisturbed
<1> HIDE DEF t
<1>10. TypeOK'
  BY <1>1, <1>3, <1>6, <1>7 DEF SchedulerInv, TypeOK, Labels, Code
<1>11. CoreOk(c)'
  BY <1>1, <1>2, <1>7, <1>8 DEF CoreOk, HasChosen, Inside
<1>12. \A u \in TCBs : Chooses(c, u)' <=> Chooses(c, u)
  BY <1>1, <1>7, <1>8 DEF Chooses, HasChosen, Inside
<1>13. \A d \in Cores, u \in TCBs : Chooses(d, u)' <=> Chooses(d, u)
  BY <1>9, <1>12, UndisturbedOk
<1>14. \A u \in TCBs : u # n => \A k \in Kinds : Holds(k, u)' <=> Holds(k, u)
  BY <1>6, <1>7, <1>13 DEF Holds
<1>15. \A k \in Kinds : Holds(k, n)' <=> k = "ready"
  <2> SUFFICES ASSUME NEW k \in Kinds PROVE Holds(k, n)' <=> k = "ready"
    OBVIOUS
  <2>1. CASE k = "ready"
    BY <2>1, <1>6, <1>7 DEF Holds
  <2>2. CASE k # "ready"
    <3>1. ~Holds(k, n)
      BY <1>4
    <3> QED
      BY <2>2, <3>1, <1>3, <1>7, <1>13 DEF Holds
  <2> QED
    BY <2>1, <2>2
<1>16. \A u \in TCBs : zombie'[u] # NoTCB <=> Phase(u)' = "delete"
  <2> SUFFICES ASSUME NEW u \in TCBs PROVE zombie'[u] # NoTCB <=> Phase(u)' = "delete"
    OBVIOUS
  <2>1. zombie[u] # NoTCB <=> Phase(u) = "delete"
    BY DEF SchedulerInv, PlacesOk, PlaceOk
  <2>2. CASE u = t
    BY <2>2, <1>2, <1>7, <1>8 DEF Phase, Code
  <2>3. CASE u # t /\ u # n
    BY <2>1, <2>3, <1>7, <1>8 DEF Phase
  <2>4. CASE u = n
    BY <2>1, <2>4, <1>3, <1>7, <1>8 DEF Phase, Code
  <2> QED
    BY <2>2, <2>3, <2>4
<1>17. /\ UNCHANGED <<loaded, me>> /\ pc[n] \in {"parked", "free"} /\ pc'[n] \in {"parked", "free"}
       /\ pc[t] \notin {"parked", "free"} /\ pc'[t] \notin {"parked", "free"}
       /\ \A u \in TCBs : u # n /\ u # t => pc'[u] = pc[u]
       /\ Distinct(readyQ') /\ Distinct(zombies')
       /\ \A d \in Cores : source'[d] = source[d] \/ source'[d] = NoTCB
       /\ \A u, v \in TCBs : zombie'[u] = zombie'[v] /\ zombie'[u] # NoTCB => u = v
  BY <1>1, <1>3, <1>6, <1>7, <1>8 DEF SchedulerInv, Single
<1>18. /\ \A d \in Cores : d # t =>
            pc'[d] = pc[d] /\ resume'[d] = resume[d] /\ reason'[d] = reason[d]
            /\ (savedIF'[d] <=> savedIF[d])
       /\ t = c => IdleCode(c)'
  BY <1>1, <1>3, <1>8 DEF TCBs
<1>19. /\ \A j, k \in Kinds : Holds(j, n)' /\ Holds(k, n)' => j = k
       /\ \A k \in Kinds : Holds(k, n)' => pc'[n] = "parked"
       /\ pc'[n] = "parked" /\ n \in Threads => \E k \in Kinds : Holds(k, n)'
  BY <1>5, <1>8, <1>15
<1> USE DEF t
<1> QED
  BY ONLY SchedulerInv, c \in Cores, <1>3, <1>9, <1>10, <1>11, <1>12, <1>14, <1>16, <1>17,
          <1>18, <1>19, MoveKeeps

\* The switch handler puts away the TCB that block() left, and block() returns.
LEMMA FinishKeeps ==
  ASSUME SchedulerInv, NEW c \in Cores, Finish(c)
  PROVE  SchedulerInv'
<1> DEFINE t == loaded[c]
<1>1. /\ t \in TCBs /\ pc[t] = "finish" /\ loaded[c] = t
      /\ t \in Cores => t = c
  BY InsideOk DEF Finish
<1>2. /\ source[c] \in TCBs /\ source[c] # NoTCB /\ activeThreads[c] = t /\ ~intr[c]
      /\ reason[source[c]] # "none"
  BY <1>1, SchedulerAssumption DEF SchedulerInv, TypeOK, CoresOk, CoreOk
<1>a. PICK s \in TCBs : s = source[c]
  BY <1>2
<1>3. Holds("source", s) /\ Kinds = {"source", "chosen", "ready", "zombie", "waiting", "deleted"}
  BY <1>a DEF Holds, Kinds
<1>4. /\ pc[s] = "parked" /\ s # t /\ \A k \in Kinds : Holds(k, s) => k = "source"
  BY <1>1, <1>3 DEF SchedulerInv, PlacesOk, PlaceOk
<1>5. reason[s] \in {"yield", "preempt", "stop", "wait"} /\ s # NoTCB
  BY <1>a, <1>2 DEF SchedulerInv, TypeOK
<1>6. ~Among(readyQ, s) /\ ~Among(zombies, s) /\ s \notin waiting
  BY <1>3, <1>4 DEF Holds
<1>7. readyQ \in Seq(Threads) /\ Distinct(readyQ) /\ zombies \in Seq(Threads) /\ Distinct(zombies)
  BY DEF SchedulerInv, TypeOK, Single
<1> DEFINE put(why) == s \in Threads /\ reason[s] \in why
<1>8. /\ readyQ' \in Seq(Threads) /\ Distinct(readyQ')
      /\ \A u : Among(readyQ', u) <=> Among(readyQ, u) \/ (u = s /\ put({"yield", "preempt"}))
  <2>1. readyQ' = IF put({"yield", "preempt"}) THEN Append(readyQ, s) ELSE readyQ
    BY <1>a DEF Finish, Handler
  <2>2. CASE put({"yield", "preempt"})
    <3>1. s \in Threads /\ readyQ' = Append(readyQ, s)
      BY <2>1, <2>2
    <3>2. readyQ' \in Seq(Threads) /\ Distinct(readyQ')
          /\ \A u : Among(readyQ', u) <=> Among(readyQ, u) \/ u = s
      BY ONLY <1>6, <1>7, <3>1, AppendIs
    <3> QED
      BY <2>2, <3>2
  <2> QED
    BY <1>7, <2>1, <2>2
<1>9. /\ zombies' \in Seq(Threads) /\ Distinct(zombies')
      /\ \A u : Among(zombies', u) <=> Among(zombies, u) \/ (u = s /\ put({"stop"}))
  <2>1. zombies' = IF put({"stop"}) THEN Append(zombies, s) ELSE zombies
    BY <1>a DEF Finish, Handler
  <2>2. CASE put({"stop"})
    <3>1. s \in Threads /\ zombies' = Append(zombies, s)
      BY <2>1, <2>2
    <3>2. zombies' \in Seq(Threads) /\ Distinct(zombies')
          /\ \A u : Among(zombies', u) <=> Among(zombies, u) \/ u = s
      BY ONLY <1>6, <1>7, <3>1, AppendIs
    <3> QED
      BY <2>2, <3>2
  <2> QED
    BY <1>7, <2>1, <2>2
<1>10. /\ waiting' \subseteq Threads /\ \A u : u \in waiting' <=> u \in waiting \/ (u = s /\ put({"wait"}))
  <2>1. waiting' = IF put({"wait"}) THEN waiting \cup {s} ELSE waiting
    BY <1>a DEF Finish, Handler
  <2>2. waiting \subseteq Threads
    BY DEF SchedulerInv, TypeOK
  <2> QED
    BY <2>1, <2>2
<1>11. /\ source' = [source EXCEPT ![c] = NoTCB] /\ pc' = [pc EXCEPT ![t] = resume[t]]
       /\ reason' = [reason EXCEPT ![t] = "none"] /\ resume' = [resume EXCEPT ![t] = "run"]
       /\ core' = [core EXCEPT ![t] = NoTCB] /\ next' = [next EXCEPT ![t] = NoTCB]
       /\ UNCHANGED <<me, activeThreads, loaded, noPreempt, savedIF, zombie>>
  BY DEF Finish, Return, Goto
<1>12. /\ intr' \in [Cores -> BOOLEAN] /\ \A d \in Cores : d # c => (intr'[d] <=> intr[d])
       /\ savedIF[t] => intr'[c]
  <2>1. intr' = [intr EXCEPT ![c] = savedIF[t] \/ reason[t] \in {"preempt", "wait"}]
    BY DEF Finish
  <2>2. intr \in [Cores -> BOOLEAN]
    BY DEF SchedulerInv, TypeOK
  <2> QED
    BY ONLY <2>1, <2>2
<1>13. /\ pc'[t] = resume[t] /\ resume[t] \in Code /\ \A u \in TCBs : u # t => pc'[u] = pc[u]
       /\ resume'[t] = "run" /\ reason'[t] = "none"
       /\ \A u \in TCBs : u # t => reason'[u] = reason[u] /\ resume'[u] = resume[u]
       /\ source'[c] = NoTCB /\ \A d \in Cores : d # c => source'[d] = source[d]
  BY <1>1, <1>11 DEF SchedulerInv, TypeOK
<1>14. \A d \in Cores : d # c => Undisturbed(d)
  BY <1>1, <1>11, <1>12, Elsewhere DEF Undisturbed, SchedulerInv, TypeOK
<1> HIDE DEF t, put
<1>15. TypeOK'
  BY <1>1, <1>8, <1>9, <1>10, <1>11, <1>12, <1>13 DEF SchedulerInv, TypeOK, Labels, Code
<1>16. CoreOk(c)'
  BY <1>1, <1>2, <1>11, <1>13 DEF CoreOk, HasChosen, Inside, Code
<1>17. \A u \in TCBs : Chooses(c, u)' <=> Chooses(c, u)
  BY <1>1, <1>11, <1>13 DEF Chooses, HasChosen, Inside, Code
<1>18. \A d \in Cores, u \in TCBs : Chooses(d, u)' <=> Chooses(d, u)
  BY <1>14, <1>17, UndisturbedOk
<1>19. \A u \in TCBs : (\E d \in Cores : source'[d] = u) <=> (\E d \in Cores : source[d] = u) /\ u # s
  <2>1. NoTCB \notin TCBs
    BY SchedulerAssumption DEF TCBs
  <2>2. \A d \in Cores : source[d] = s => d = c
    BY <1>a, <1>5 DEF SchedulerInv, Single
  <2> QED
    BY <1>a, <1>13, <2>1, <2>2
<1>20. \A u \in TCBs : u # s => \A k \in Kinds : Holds(k, u)' <=> Holds(k, u)
  BY <1>8, <1>9, <1>10, <1>11, <1>18, <1>19 DEF Holds
<1>21. /\ Holds("ready", s)' <=> put({"yield", "preempt"})
       /\ Holds("zombie", s)' <=> put({"stop"})
       /\ Holds("waiting", s)' <=> put({"wait"})
       /\ ~Holds("source", s)'
  BY <1>6, <1>8, <1>9, <1>10, <1>19 DEF Holds
<1>22. ~Holds("chosen", s)' /\ ~Holds("deleted", s)'
  <2>1. ~Holds("chosen", s) /\ ~Holds("deleted", s)
    BY <1>3, <1>4
  <2> QED
    BY <2>1, <1>11, <1>18 DEF Holds
<1>23. /\ \A j, k \in Kinds : Holds(j, s)' /\ Holds(k, s)' => j = k
       /\ \A k \in Kinds : Holds(k, s)' => pc'[s] = "parked"
       /\ pc'[s] = "parked" /\ s \in Threads => \E k \in Kinds : Holds(k, s)'
  <2>1. pc'[s] = "parked"
    BY <1>4, <1>13
  <2>2. \A j, k \in Kinds : Holds(j, s)' /\ Holds(k, s)' => j = k
    BY <1>3, <1>21, <1>22 DEF put
  <2>3. s \in Threads => \E k \in Kinds : Holds(k, s)'
    BY <1>3, <1>5, <1>21 DEF put
  <2> QED
    BY <2>1, <2>2, <2>3
<1>24. \A u \in TCBs : zombie'[u] # NoTCB <=> Phase(u)' = "delete"
  <2> SUFFICES ASSUME NEW u \in TCBs PROVE zombie'[u] # NoTCB <=> Phase(u)' = "delete"
    OBVIOUS
  <2>1. zombie[u] # NoTCB <=> Phase(u) = "delete"
    BY DEF SchedulerInv, PlacesOk, PlaceOk
  <2>2. CASE u = t
    BY <2>1, <2>2, <1>1, <1>11, <1>13 DEF Phase, Code
  <2>3. CASE u # t
    BY <2>1, <2>3, <1>11, <1>13 DEF Phase
  <2> QED
    BY <2>2, <2>3
<1>25. /\ UNCHANGED <<loaded, me>> /\ pc[s] \in {"parked", "free"} /\ pc'[s] \in {"parked", "free"}
       /\ pc[t] \notin {"parked", "free"} /\ pc'[t] \notin {"parked", "free"}
       /\ \A u \in TCBs : u # s /\ u # t => pc'[u] = pc[u]
       /\ \A d \in Cores : source'[d] = source[d] \/ source'[d] = NoTCB
       /\ \A u, v \in TCBs : zombie'[u] = zombie'[v] /\ zombie'[u] # NoTCB => u = v
  BY <1>1, <1>4, <1>11, <1>13 DEF SchedulerInv, Single, Code
<1>26. \A d \in Cores : d # t =>
            pc'[d] = pc[d] /\ resume'[d] = resume[d] /\ reason'[d] = reason[d]
            /\ (savedIF'[d] <=> savedIF[d])
  BY <1>11, <1>13 DEF TCBs
<1>27. t = c => IdleCode(c)'
  <2>1. resume[c] = "run" /\ savedIF[c]
    BY DEF SchedulerInv, IdlesOk, IdleOk
  <2> QED
    BY <2>1, <1>11, <1>12, <1>13 DEF IdleCode, Inside
<1> USE DEF t
<1> QED
  BY ONLY SchedulerInv, c \in Cores, s \in TCBs, <1>4, <1>8, <1>9, <1>14, <1>15, <1>16, <1>17, <1>20,
          <1>23, <1>24, <1>25, <1>26, <1>27, MoveKeeps

\* A thread that has stopped has no zombie in hand: it called stop() in its own work, and
\* thread() gives its TCB to a thread that starts there too.
StoppedOk ==
  \A t \in TCBs :
    /\ reason[t] = "stop" \/ pc[t] = "free" => resume[t] = "run"
    /\ Among(zombies, t) \/ (\E u \in TCBs : zombie[u] = t) => reason[t] = "stop"

\* StoppedOk is kept by a step that is quiet about it.
LEMMA StoppedQuiet ==
  ASSUME SchedulerInv, StoppedOk, NEW c \in Cores, pc[loaded[c]] \notin {"parked", "free"},
         \A u \in TCBs : u # loaded[c] => /\ reason'[u] = reason[u] /\ resume'[u] = resume[u]
                                          /\ pc'[u] = "free" => pc[u] = "free" \/ reason[u] = "stop",
         reason'[loaded[c]] = "stop" \/ pc'[loaded[c]] = "free" => resume'[loaded[c]] = "run",
         \A u \in TCBs : Among(zombies', u) => Among(zombies, u)
                                               \/ (u # loaded[c] /\ reason[u] = "stop"),
         \A u \in TCBs : (\E v \in TCBs : zombie'[v] = u) => (\E v \in TCBs : zombie[v] = u)
                                                             \/ Among(zombies, u)
  PROVE  StoppedOk'
<1> SUFFICES ASSUME NEW u \in TCBs
             PROVE  /\ reason'[u] = "stop" \/ pc'[u] = "free" => resume'[u] = "run"
                    /\ Among(zombies', u) \/ (\E v \in TCBs : zombie'[v] = u) => reason'[u] = "stop"
  BY DEF StoppedOk, Among
<1>1. /\ reason[u] = "stop" \/ pc[u] = "free" => resume[u] = "run"
      /\ Among(zombies, u) \/ (\E v \in TCBs : zombie[v] = u) => reason[u] = "stop"
  BY DEF StoppedOk
<1>2. Among(zombies, u) \/ (\E v \in TCBs : zombie[v] = u) => u # loaded[c]
  <2>1. "zombie" \in Kinds /\ "deleted" \in Kinds
    BY DEF Kinds
  <2>2. Among(zombies, u) \/ (\E v \in TCBs : zombie[v] = u) => pc[u] = "parked"
    BY <2>1 DEF SchedulerInv, PlacesOk, PlaceOk, Holds
  <2> QED
    BY <2>2
<1>3. CASE u = loaded[c]
  BY <1>2, <1>3
<1>4. CASE u # loaded[c]
  BY <1>1, <1>4
<1> QED
  BY <1>3, <1>4

\* Every step but the creation of a thread keeps StoppedOk.
LEMMA StoppedStep ==
  ASSUME SchedulerInv, StoppedOk, NEW c \in Cores,
         \/ Dispatch(c) \/ Reap(c) \/ Delete(c) \/ Yield(c) \/ CallThread(c) \/ Timer(c)
         \/ Stop(c) \/ Wait(c) \/ \E w \in Threads : Wake(c, w)
  PROVE  StoppedOk'
<1> DEFINE t == loaded[c]
<1>1. /\ t \in TCBs /\ pc[t] \notin {"parked", "free"} /\ TypeOK /\ t = loaded[c]
      /\ reason[t] = "stop" => resume[t] = "run"
  BY DEF SchedulerInv, TypeOK, CoresOk, CoreOk, StoppedOk
<1>2. ASSUME NEW why, Block(c, why), zombies' = zombies, why = "stop" => pc[t] = "run"
      PROVE  StoppedOk'
  <2>1. /\ reason' = [reason EXCEPT ![t] = why] /\ pc' = [pc EXCEPT ![t] = "remove"]
        /\ resume' = [resume EXCEPT ![t] = IF why = "yield" THEN "reap" ELSE pc[t]]
        /\ UNCHANGED <<zombies, zombie>>
    BY <1>2 DEF Block, Goto
  <2> HIDE DEF t
  <2>2. /\ reason'[t] = "stop" \/ pc'[t] = "free" => resume'[t] = "run"
        /\ \A u \in TCBs : u # t => pc'[u] = pc[u] /\ reason'[u] = reason[u] /\ resume'[u] = resume[u]
    BY <1>1, <1>2, <2>1 DEF TypeOK
  <2> QED
    BY <1>1, <2>1, <2>2, StoppedQuiet DEF t
<1>3. ASSUME UNCHANGED <<zombies, zombie, reason, resume>>,
             \A u \in TCBs : pc'[u] = "free" => pc[u] = "free"
      PROVE  StoppedOk'
  BY <1>1, <1>3, StoppedQuiet
<1>4. ASSUME Return(t),
             \A u \in TCBs : Among(zombies', u) => Among(zombies, u) \/ (u # t /\ reason[u] = "stop"),
             UNCHANGED zombie
      PROVE  StoppedOk'
  <2>1. /\ reason' = [reason EXCEPT ![t] = "none"] /\ resume' = [resume EXCEPT ![t] = "run"]
        /\ pc' = [pc EXCEPT ![t] = resume[t]]
    BY <1>4 DEF Return, Goto
  <2> HIDE DEF t
  <2>2. /\ reason'[t] = "none" /\ resume'[t] = "run"
        /\ \A u \in TCBs : u # t => pc'[u] = pc[u] /\ reason'[u] = reason[u] /\ resume'[u] = resume[u]
    BY <1>1, <2>1 DEF TypeOK
  <2> QED
    BY <1>1, <1>4, <2>2, StoppedQuiet DEF t
<1>5. CASE RemoveReady(c) \/ RemoveIdle(c)
  BY <1>1, <1>3, <1>5 DEF RemoveReady, RemoveIdle, Goto, TypeOK
<1>6. CASE RemoveReturn(c)
  BY <1>4, <1>6 DEF RemoveReturn
<1>7. CASE Claim(c) \/ Publish(c) \/ CallThread(c)
  BY <1>1, <1>3, <1>7 DEF Claim, Publish, CallThread, Goto, blockVars, TypeOK
<1>8. CASE Switch(c)
  BY <1>1, <1>3, <1>8 DEF Switch, TypeOK
<1>9. CASE Finish(c)
  <2>1. pc[t] = "finish" /\ Handler(source[c]) /\ Return(t) /\ UNCHANGED zombie
    BY <1>9 DEF Finish
  <2>2. source[c] \in TCBs /\ source[c] # NoTCB /\ Holds("source", source[c]) /\ "source" \in Kinds
    BY <1>1, <2>1 DEF SchedulerInv, CoresOk, CoreOk, TypeOK, Holds, Kinds
  <2>3. source[c] # t
    BY <1>1, <2>2 DEF SchedulerInv, PlacesOk, PlaceOk
  <2>4. \A u \in TCBs : Among(zombies', u) => Among(zombies, u) \/ (u # t /\ reason[u] = "stop")
    <3>1. CASE source[c] \in Threads /\ reason[source[c]] = "stop"
      <4>1. zombies \in Seq(Threads) /\ zombies' = Append(zombies, source[c])
        BY <2>1, <3>1 DEF Handler, SchedulerInv, TypeOK
      <4>2. \A u : Among(zombies', u) <=> Among(zombies, u) \/ u = source[c]
        BY ONLY <3>1, <4>1, AppendIs
      <4> QED
        BY <2>3, <3>1, <4>2
    <3>2. CASE ~(source[c] \in Threads /\ reason[source[c]] = "stop")
      BY <2>1, <3>2 DEF Handler
    <3> QED
      BY <3>1, <3>2
  <2> QED
    BY <1>4, <2>1, <2>4
<1>10. CASE Reap(c)
  <2>1. CASE zombies = <<>>
    BY <1>1, <1>3, <1>10, <2>1 DEF Reap, Goto, blockVars, TypeOK
  <2>2. CASE zombies # <<>>
    <3>1. /\ zombie' = [zombie EXCEPT ![t] = Head(zombies)] /\ zombies' = Tail(zombies)
          /\ pc' = [pc EXCEPT ![t] = "delete"] /\ UNCHANGED <<reason, resume>>
      BY <1>10, <2>2 DEF Reap, Goto, blockVars
    <3>2. zombies \in Seq(Threads) /\ Distinct(zombies)
      BY DEF SchedulerInv, TypeOK, Single
    <3>3. Among(zombies, Head(zombies)) /\ \A u : Among(zombies', u) => Among(zombies, u)
      BY ONLY <2>2, <3>1, <3>2, TailIs
    <3>4. \A u \in TCBs : pc'[u] = "free" => pc[u] = "free"
      BY <1>1, <3>1 DEF TypeOK
    <3>5. \A u \in TCBs : (\E v \in TCBs : zombie'[v] = u) => (\E v \in TCBs : zombie[v] = u)
                                                              \/ Among(zombies, u)
      BY <1>1, <3>1, <3>3 DEF TypeOK
    <3> QED
      BY <1>1, <3>1, <3>3, <3>4, <3>5, StoppedQuiet
  <2> QED
    BY <2>1, <2>2
<1>11. CASE Delete(c)
  <2>1. /\ pc' = [pc EXCEPT ![zombie[t]] = "free", ![t] = "reap"]
        /\ zombie' = [zombie EXCEPT ![t] = NoTCB] /\ UNCHANGED <<zombies, reason, resume>>
    BY <1>11 DEF Delete, blockVars
  <2>2. zombie[t] \in TCBs => reason[zombie[t]] = "stop"
    BY <1>1 DEF StoppedOk
  <2>3. \A u \in TCBs : pc'[u] = "free" => pc[u] = "free" \/ reason[u] = "stop"
    BY <1>1, <2>1, <2>2 DEF TypeOK
  <2>4. pc'[t] = "reap"
    BY <1>1, <2>1 DEF TypeOK
  <2>5. \A u \in TCBs : (\E v \in TCBs : zombie'[v] = u) => (\E v \in TCBs : zombie[v] = u)
    <3>1. NoTCB \notin TCBs
      BY SchedulerAssumption DEF TCBs
    <3> QED
      BY <1>1, <2>1, <3>1 DEF TypeOK
  <2> QED
    BY <1>1, <2>1, <2>3, <2>4, <2>5, StoppedQuiet
<1>12. CASE Yield(c)
  BY <1>2, <1>12 DEF Yield
<1>13. CASE Timer(c)
  BY <1>2, <1>13 DEF Timer
<1>14. CASE Stop(c)
  BY <1>2, <1>14 DEF Stop
<1>15. CASE Wait(c)
  BY <1>2, <1>15 DEF Wait
<1>16. CASE \E w \in Threads : Wake(c, w)
  BY <1>3, <1>16 DEF Wake, blockVars
<1> QED
  BY <1>5, <1>6, <1>7, <1>8, <1>9, <1>10, <1>11, <1>12, <1>13, <1>14, <1>15, <1>16 DEF Dispatch

\* thread() reuses the TCB of a deleted thread, and the new thread has not stopped.
LEMMA StoppedCreate ==
  ASSUME SchedulerInv, StoppedOk, NEW c \in Cores, NEW n \in Threads, Create(c, n)
  PROVE  StoppedOk'
<1> DEFINE t == loaded[c]
<1>1. /\ t \in TCBs /\ pc[t] = "create" /\ pc[n] = "free" /\ n \in TCBs /\ n # t /\ TypeOK
  BY DEF SchedulerInv, TypeOK, Create, TCBs
<1>2. /\ pc' = [pc EXCEPT ![n] = "parked", ![t] = "run"]
      /\ reason' = [reason EXCEPT ![n] = "none"] /\ resume' = [resume EXCEPT ![n] = "run"]
      /\ UNCHANGED <<zombies, zombie>>
  BY DEF Create
<1>3. ~Among(zombies, n) /\ ~\E u \in TCBs : zombie[u] = n
  <2>1. "zombie" \in Kinds /\ "deleted" \in Kinds
    BY DEF Kinds
  <2> QED
    BY <1>1, <2>1 DEF SchedulerInv, PlacesOk, PlaceOk, Holds
<1> HIDE DEF t
<1> SUFFICES ASSUME NEW u \in TCBs
             PROVE  /\ reason'[u] = "stop" \/ pc'[u] = "free" => resume'[u] = "run"
                    /\ Among(zombies', u) \/ (\E v \in TCBs : zombie'[v] = u) => reason'[u] = "stop"
  BY DEF StoppedOk, Among
<1>4. /\ pc'[n] = "parked" /\ reason'[n] = "none" /\ resume'[n] = "run"
      /\ \A v \in TCBs : v # n => reason'[v] = reason[v] /\ resume'[v] = resume[v]
                                  /\ (pc'[v] = "free" => pc[v] = "free")
  BY <1>1, <1>2 DEF TypeOK
<1>5. CASE u = n
  BY <1>2, <1>3, <1>4, <1>5
<1>6. CASE u # n
  <2>1. /\ reason[u] = "stop" \/ pc[u] = "free" => resume[u] = "run"
        /\ Among(zombies, u) \/ (\E v \in TCBs : zombie[v] = u) => reason[u] = "stop"
    BY DEF StoppedOk
  <2>2. zombies' = zombies /\ zombie' = zombie
    BY <1>2
  <2> QED
    BY <1>4, <1>6, <2>1, <2>2
<1> QED
  BY <1>5, <1>6

\* The timer only ever preempts thread code, and looks at the thread it interrupts.
LEMMA PreemptsCode ==
  ASSUME SchedulerInv, NEW c \in Cores, Preempts(c)
  PROVE  activeThreads[c] = loaded[c] /\ pc[loaded[c]] \in Code
<1>1. CoreOk(c) /\ loaded[c] \in TCBs /\ pc[loaded[c]] \in Labels
  BY DEF SchedulerInv, CoresOk, TypeOK
<1>2. pc[loaded[c]] \notin Inside /\ pc[loaded[c]] # "finish"
  BY <1>1 DEF CoreOk, Preempts
<1> QED
  BY <1>1, <1>2 DEF CoreOk, Labels, Inside

\* threadsInit() and kernelInit() leave the scheduler in a state that satisfies it.
LEMMA InitKeeps == Init => SchedulerInv /\ StoppedOk
<1> SUFFICES ASSUME Init PROVE SchedulerInv /\ StoppedOk
  OBVIOUS
<1>0. /\ Reaper \in Threads /\ Main \in Threads /\ Main # Reaper /\ NoTCB \notin TCBs
      /\ \A c \in Cores : c \in TCBs /\ c \notin Threads
      /\ \A t \in Threads : t \in TCBs /\ t \notin Cores
  BY SchedulerAssumption DEF TCBs
<1>1. /\ readyQ \in Seq(Threads) /\ DOMAIN readyQ = {1, 2} /\ readyQ[1] = Reaper /\ readyQ[2] = Main
      /\ zombies \in Seq(Threads) /\ DOMAIN zombies = {}
  BY <1>0 DEF Init
<1>2. /\ \A u : Among(readyQ, u) <=> u \in {Reaper, Main}
      /\ Distinct(readyQ) /\ Distinct(zombies) /\ \A u : ~Among(zombies, u)
  BY <1>0, <1>1 DEF Among, Distinct
<1>3. TypeOK
  <2>1. pc \in [TCBs -> Labels]
    BY DEF Init, Labels, Code
  <2>2. resume \in [TCBs -> Code]
    BY DEF Init, Code
  <2> QED
    BY <1>0, <1>1, <2>1, <2>2 DEF Init, TypeOK
<1>4. \A c \in Cores : loaded[c] = c /\ pc[c] = "run" /\ source[c] = NoTCB
  BY <1>0 DEF Init
<1>5. CoresOk
  BY <1>0, <1>4 DEF Init, CoresOk, CoreOk, HasChosen, Inside
<1>6. \A c \in Cores, u \in TCBs : ~Chooses(c, u)
  BY <1>4 DEF Chooses, HasChosen, Inside
<1>7. IdlesOk
  BY <1>0, <1>4, <1>6 DEF Init, IdlesOk, IdleOk, Inside
<1>8. \A t \in TCBs : zombie[t] = NoTCB
  BY DEF Init
<1>9. Single
  BY <1>2, <1>4, <1>6, <1>8 DEF Single
<1>10. \A t \in TCBs : \A k \in Kinds : Holds(k, t) <=> k = "ready" /\ t \in {Reaper, Main}
  BY <1>0, <1>2, <1>4, <1>6, <1>8 DEF Holds, Init
<1>11. PlacesOk
  <2> SUFFICES ASSUME NEW t \in TCBs PROVE PlaceOk(t)
    BY DEF PlacesOk
  <2>1. t \in {Reaper, Main} <=> pc[t] = "parked"
    BY <1>0 DEF Init
  <2>2. \A j, k \in Kinds : Holds(j, t) /\ Holds(k, t) => j = k
    BY <1>10
  <2>3. \A k \in Kinds : Holds(k, t) => pc[t] = "parked"
    BY <1>10, <2>1
  <2>4. pc[t] = "parked" /\ t \in Threads => \E k \in Kinds : Holds(k, t)
    BY <1>10, <2>1 DEF Kinds
  <2>5. pc[t] \notin {"parked", "free"} => t \in Cores
    BY DEF Init
  <2>6. Phase(t) # "delete" /\ me[t] = t
    BY DEF Init, Phase
  <2> QED
    BY <1>4, <1>8, <2>2, <2>3, <2>4, <2>5, <2>6 DEF PlaceOk
<1>12. StoppedOk
  BY <1>0, <1>2, <1>8 DEF Init, StoppedOk
<1> QED
  BY <1>3, <1>5, <1>7, <1>9, <1>11, <1>12 DEF SchedulerInv

\* Every step keeps the invariant.
LEMMA NextKeeps == SchedulerInv /\ StoppedOk /\ [Next]_vars => SchedulerInv' /\ StoppedOk'
<1> SUFFICES ASSUME SchedulerInv, StoppedOk, [Next]_vars PROVE SchedulerInv' /\ StoppedOk'
  OBVIOUS
<1>1. CASE UNCHANGED vars
  <2> USE <1>1 DEF vars, blockVars
  <2>1. TypeOK' /\ Single' /\ IdlesOk'
    BY DEF SchedulerInv, TypeOK, Single, Chooses, Distinct, IdlesOk, IdleOk
  <2>2. CoresOk' /\ PlacesOk'
    BY DEF SchedulerInv, CoresOk, CoreOk, PlacesOk, PlaceOk, Holds, Chooses, Among, Phase
  <2>3. StoppedOk'
    BY DEF StoppedOk, Among
  <2> QED
    BY <2>1, <2>2, <2>3 DEF SchedulerInv
<1>2. CASE Next
  <2>1. PICK c \in Cores :
          \/ Dispatch(c) \/ ThreadCode(c) \/ CallThread(c) \/ Timer(c) \/ Stop(c) \/ Wait(c)
          \/ \E w \in Threads : Wake(c, w)
    BY <1>2 DEF Next
  <2>2. loaded[c] \in Cores => pc[loaded[c]] \in Inside \cup {"run", "finish"}
    BY DEF SchedulerInv, CoresOk, CoreOk, IdlesOk, IdleOk
  <2>3. CASE Dispatch(c)
    <3>1. SchedulerInv'
      BY <2>3, RemoveReadyKeeps, RemoveReturnKeeps, RemoveIdleKeeps, ClaimKeeps, PublishKeeps,
         SwitchKeeps, FinishKeeps DEF Dispatch
    <3> QED
      BY <2>3, <3>1, StoppedStep
  <2>4. CASE \E n \in Threads : Create(c, n)
    <3>1. PICK n \in Threads : Create(c, n)
      BY <2>4
    <3>2. resume[n] = "run"
      BY <3>1 DEF Create, StoppedOk, TCBs
    <3> QED
      BY <3>1, <3>2, CreateKeeps, StoppedCreate
  <2>5. CASE Reap(c) \/ Delete(c) \/ CallThread(c)
    BY <2>5, ReapKeeps, DeleteKeeps, CallThreadKeeps, StoppedStep
  <2>6. CASE Yield(c)
    <3>1. /\ pc[loaded[c]] \in Code /\ zombies' = zombies /\ intr' = intr /\ Block(c, "yield")
          /\ loaded[c] \notin Cores /\ pc[loaded[c]] # "delete"
      BY <2>2, <2>6 DEF Yield, Code, Inside
    <3>2. SchedulerInv'
      BY <3>1, BlockKeeps
    <3> QED
      BY <2>6, <3>2, StoppedStep
  <2>7. CASE Timer(c)
    <3>1. /\ pc[loaded[c]] \in Code /\ zombies' = zombies /\ intr' = [intr EXCEPT ![c] = FALSE]
          /\ Block(c, "preempt") /\ loaded[c] \notin Cores
      BY <2>7, PreemptsCode DEF Timer, Preempts
    <3>2. SchedulerInv'
      BY <3>1, BlockKeeps
    <3> QED
      BY <2>7, <3>2, StoppedStep
  <2>8. CASE Stop(c)
    <3>1. /\ pc[loaded[c]] \in Code /\ pc[loaded[c]] = "run" /\ zombies' = zombies /\ intr' = intr
          /\ Block(c, "stop")
      BY <2>8 DEF Stop, Code
    <3>2. SchedulerInv'
      BY <3>1, BlockKeeps
    <3> QED
      BY <2>8, <3>2, StoppedStep
  <2>9. CASE Wait(c)
    <3>1. /\ pc[loaded[c]] \in Code /\ zombies' = zombies /\ intr' = [intr EXCEPT ![c] = FALSE]
          /\ Block(c, "wait") /\ loaded[c] \notin Cores
      BY <2>9, SchedulerAssumption DEF Wait, Code
    <3>2. SchedulerInv'
      BY <3>1, BlockKeeps
    <3> QED
      BY <2>9, <3>2, StoppedStep
  <2>10. CASE \E w \in Threads : Wake(c, w)
    BY <2>10, WakeKeeps, StoppedStep
  <2> QED
    BY <2>1, <2>3, <2>4, <2>5, <2>6, <2>7, <2>8, <2>9, <2>10 DEF ThreadCode
<1> QED
  BY <1>1, <1>2

\* In every state the scheduler reaches, each core, each idle TCB and each thread is as
\* block(), its switch handlers, thread() and delete_zombies() leave it.
THEOREM SchedulerInvariant == Spec => [](SchedulerInv /\ StoppedOk)
<1>1. Init => SchedulerInv /\ StoppedOk
  BY InitKeeps
<1>2. (SchedulerInv /\ StoppedOk) /\ [Next]_vars => (SchedulerInv /\ StoppedOk)'
  BY NextKeeps
<1> QED
  BY <1>1, <1>2, PTL DEF Spec

\* apitHandler() never preempts inside block() or its switch handler, whatever core and
\* whatever thread: no_preempt and the interrupt flag together cover the whole of it.
THEOREM TimerIsSafe == Spec => []PreemptionSafe
<1>1. SchedulerInv => PreemptionSafe
  BY PreemptsCode DEF PreemptionSafe
<1> QED
  BY <1>1, SchedulerInvariant, PTL

\* current() names the thread that asks, and the assertions of the idle loop of block()
\* hold: an idle TCB is on its own core, with interrupts on.
THEOREM CurrentIsTrue == Spec => []CurrentIsLoaded
<1>1. ASSUME SchedulerInv PROVE CurrentIsLoaded
  <2>1. \A c \in Cores : pc[loaded[c]] \in Code => activeThreads[c] = loaded[c]
    BY <1>1 DEF SchedulerInv, CoresOk, CoreOk, Code
  <2>2. IdleStays
    <3> SUFFICES ASSUME NEW c \in Cores, NEW d \in Cores, loaded[c] = d, pc[d] = "remove"
                 PROVE  core[d] = c /\ intr[c] /\ me[d] = c /\ activeThreads[c] = d
      BY DEF IdleStays
    <3>1. c = d
      BY <1>1 DEF SchedulerInv, IdlesOk, IdleOk
    <3>2. intr[c]
      BY <1>1, <3>1 DEF SchedulerInv, IdlesOk, IdleOk
    <3>3. core[d] = c /\ me[d] = d /\ activeThreads[c] = d
      BY <1>1, InsideOk DEF Inside
    <3> QED
      BY <3>1, <3>2, <3>3
  <2> QED
    BY <2>1, <2>2 DEF CurrentIsLoaded
<1> QED
  BY <1>1, SchedulerInvariant, PTL

\* The kinds of homes, as pairs of a kind and a place.
LEMMA HomeIs ==
  ASSUME SchedulerInv, NEW t \in TCBs, NEW h \in Homes(t)
  PROVE  /\ h = <<h[1], h[2]>>
         /\ \/ h[1] = "loaded" /\ h[2] \in Cores /\ loaded[h[2]] = t
            \/ h[1] = "heap" /\ h[2] = t /\ pc[t] = "free"
            \/ h[1] = "source" /\ h[2] \in Cores /\ source[h[2]] = t
            \/ h[1] = "chosen" /\ h[2] \in Cores /\ Chooses(h[2], t)
            \/ h[1] = "ready" /\ h[2] \in DOMAIN readyQ /\ readyQ[h[2]] = t
            \/ h[1] = "zombie" /\ h[2] \in DOMAIN zombies /\ zombies[h[2]] = t
            \/ h[1] = "waiting" /\ h[2] = t /\ t \in waiting
            \/ h[1] = "deleted" /\ h[2] \in TCBs /\ zombie[h[2]] = t
  BY DEF Homes, ChosenBy, Chooses, HasChosen

\* Two homes of a TCB are the same.
LEMMA HomesAgree ==
  ASSUME SchedulerInv, NEW t \in TCBs, NEW g \in Homes(t), NEW h \in Homes(t)
  PROVE  g = h
<1>1. ASSUME NEW k \in Homes(t)
      PROVE  /\ k[1] = "loaded" => pc[t] \notin {"parked", "free"}
             /\ k[1] = "heap" => pc[t] = "free"
             /\ k[1] \notin {"loaded", "heap"} => pc[t] = "parked" /\ k[1] \in Kinds /\ Holds(k[1], t)
  <2>1. CASE k[1] = "loaded"
    BY <2>1, HomeIs DEF SchedulerInv, CoresOk, CoreOk
  <2>2. CASE k[1] = "heap"
    BY <2>2, HomeIs
  <2>3. CASE k[1] \notin {"loaded", "heap"}
    <3>1. k[1] \in Kinds
      BY <2>3, HomeIs DEF Kinds
    <3>2. Holds(k[1], t)
      BY <2>3, HomeIs DEF Holds, Among
    <3>3. pc[t] = "parked"
      BY <3>1, <3>2 DEF SchedulerInv, PlacesOk, PlaceOk
    <3> QED
      BY <2>3, <3>1, <3>2, <3>3
  <2> QED
    BY <2>1, <2>2, <2>3
<1>2. g[1] = h[1]
  <2>1. CASE pc[t] = "parked"
    <3>1. g[1] \in Kinds /\ Holds(g[1], t) /\ h[1] \in Kinds /\ Holds(h[1], t)
      BY <1>1, <2>1
    <3> QED
      BY <3>1 DEF SchedulerInv, PlacesOk, PlaceOk
  <2>2. CASE pc[t] # "parked"
    BY <1>1, <2>2
  <2> QED
    BY <2>1, <2>2
<1>3. /\ Single /\ t # NoTCB
  BY SchedulerAssumption DEF SchedulerInv, TCBs
<1>4. g = <<g[1], g[2]>> /\ h = <<h[1], h[2]>>
  BY HomeIs
<1>5. g[2] = h[2]
  <2>1. CASE g[1] = "loaded"
    <3>1. g[2] \in Cores /\ loaded[g[2]] = t
      BY <2>1, HomeIs
    <3>2. h[2] \in Cores /\ loaded[h[2]] = t
      BY <1>2, <2>1, HomeIs
    <3> QED
      BY <1>3, <3>1, <3>2 DEF Single
  <2>2. CASE g[1] \in {"heap", "waiting"}
    BY <1>2, <2>2, HomeIs
  <2>3. CASE g[1] = "source"
    <3>1. g[2] \in Cores /\ source[g[2]] = t
      BY <2>3, HomeIs
    <3>2. h[2] \in Cores /\ source[h[2]] = t
      BY <1>2, <2>3, HomeIs
    <3> QED
      BY <1>3, <3>1, <3>2 DEF Single
  <2>4. CASE g[1] = "chosen"
    <3>1. g[2] \in Cores /\ Chooses(g[2], t)
      BY <2>4, HomeIs
    <3>2. h[2] \in Cores /\ Chooses(h[2], t)
      BY <1>2, <2>4, HomeIs
    <3> QED
      BY <1>3, <3>1, <3>2 DEF Single
  <2>5. CASE g[1] = "ready"
    <3>1. g[2] \in DOMAIN readyQ /\ readyQ[g[2]] = t
      BY <2>5, HomeIs
    <3>2. h[2] \in DOMAIN readyQ /\ readyQ[h[2]] = t
      BY <1>2, <2>5, HomeIs
    <3> QED
      BY <1>3, <3>1, <3>2 DEF Single, Distinct
  <2>6. CASE g[1] = "zombie"
    <3>1. g[2] \in DOMAIN zombies /\ zombies[g[2]] = t
      BY <2>6, HomeIs
    <3>2. h[2] \in DOMAIN zombies /\ zombies[h[2]] = t
      BY <1>2, <2>6, HomeIs
    <3> QED
      BY <1>3, <3>1, <3>2 DEF Single, Distinct
  <2>7. CASE g[1] = "deleted"
    <3>1. g[2] \in TCBs /\ zombie[g[2]] = t
      BY <2>7, HomeIs
    <3>2. h[2] \in TCBs /\ zombie[h[2]] = t
      BY <1>2, <2>7, HomeIs
    <3> QED
      BY <1>3, <3>1, <3>2 DEF Single
  <2> QED
    BY <2>1, <2>2, <2>3, <2>4, <2>5, <2>6, <2>7, HomeIs
<1> QED
  BY <1>2, <1>4, <1>5

\* A thread has a home.
LEMMA HomeExists ==
  ASSUME SchedulerInv, NEW t \in Threads
  PROVE  \E h : h \in Homes(t)
<1>1. t \in TCBs /\ PlaceOk(t)
  BY DEF SchedulerInv, PlacesOk, TCBs
<1>2. CASE pc[t] = "free"
  <2>1. <<"heap", t>> \in Homes(t)
    BY <1>2 DEF Homes
  <2> QED
    BY <2>1
<1>3. CASE pc[t] \notin {"parked", "free"}
  <2>1. PICK c \in Cores : loaded[c] = t
    BY <1>1, <1>3 DEF PlaceOk
  <2>2. <<"loaded", c>> \in Homes(t)
    BY <2>1 DEF Homes
  <2> QED
    BY <2>2
<1>4. CASE pc[t] = "parked"
  <2>1. PICK k \in Kinds : Holds(k, t)
    BY <1>1, <1>4 DEF PlaceOk
  <2>2. CASE \E c \in Cores : source[c] = t
    <3>1. PICK c \in Cores : source[c] = t
      BY <2>2
    <3>2. <<"source", c>> \in Homes(t)
      BY <3>1 DEF Homes
    <3> QED
      BY <3>2
  <2>3. CASE \E c \in Cores : Chooses(c, t)
    <3>1. PICK c \in Cores : Chooses(c, t)
      BY <2>3
    <3>2. <<"chosen", c>> \in Homes(t)
      BY <3>1 DEF Homes, ChosenBy, Chooses, HasChosen
    <3> QED
      BY <3>2
  <2>4. CASE Among(readyQ, t)
    <3>1. PICK i \in DOMAIN readyQ : readyQ[i] = t
      BY <2>4 DEF Among
    <3>2. <<"ready", i>> \in Homes(t)
      BY <3>1 DEF Homes
    <3> QED
      BY <3>2
  <2>5. CASE Among(zombies, t)
    <3>1. PICK i \in DOMAIN zombies : zombies[i] = t
      BY <2>5 DEF Among
    <3>2. <<"zombie", i>> \in Homes(t)
      BY <3>1 DEF Homes
    <3> QED
      BY <3>2
  <2>6. CASE t \in waiting
    <3>1. <<"waiting", t>> \in Homes(t)
      BY <2>6 DEF Homes
    <3> QED
      BY <3>1
  <2>7. CASE \E u \in TCBs : zombie[u] = t
    <3>1. PICK u \in TCBs : zombie[u] = t
      BY <2>7
    <3>2. <<"deleted", u>> \in Homes(t)
      BY <3>1 DEF Homes
    <3> QED
      BY <3>2
  <2> QED
    BY <2>1, <2>2, <2>3, <2>4, <2>5, <2>6, <2>7 DEF Holds
<1> QED
  BY <1>2, <1>3, <1>4

\* A thread is always in exactly one place: loaded on one core, in the hands of one switch
\* handler, chosen by one block(), in one queue once, or deleted; an idle TCB in at most one.
THEOREM EveryTCBHasOneHome == Spec => []OneHome
<1>1. ASSUME SchedulerInv PROVE OneHome
  <2>1. TypeOK
    BY <1>1 DEF SchedulerInv
  <2>2. ASSUME NEW t \in Threads PROVE Cardinality(Homes(t)) = 1
    <3>1. PICK h : h \in Homes(t)
      BY <1>1, HomeExists
    <3>2. Homes(t) = {h}
      BY <1>1, <3>1, HomesAgree DEF TCBs
    <3> QED
      BY <3>2, FS_Singleton
  <2>3. ASSUME NEW c \in Cores PROVE Cardinality(Homes(c)) <= 1
    <3>1. CASE Homes(c) = {}
      BY <3>1, FS_EmptySet
    <3>2. CASE Homes(c) # {}
      <4>1. PICK h : h \in Homes(c)
        BY <3>2
      <4>2. Homes(c) = {h}
        BY <1>1, <4>1, HomesAgree DEF TCBs
      <4>3. Cardinality(Homes(c)) = 1
        BY <4>2, FS_Singleton
      <4> QED
        BY <4>3
    <3> QED
      BY <3>1, <3>2
  <2> QED
    BY <2>1, <2>2, <2>3 DEF OneHome
<1> QED
  BY <1>1, SchedulerInvariant, PTL
=============================================================================
