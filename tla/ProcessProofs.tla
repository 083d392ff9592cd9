---------------------------- MODULE ProcessProofs ----------------------------
(***************************************************************************)
(* Proofs about module Process, for every number of processes, semaphores  *)
(* and slots: the reference counts of PCBs and semaphores are exact, so    *)
(* nothing a process has is deleted under it (RefsExact), and wait returns *)
(* the exit code of the child it was called for (WaitSeesExitCode).        *)
(*                                                                         *)
(* Neither is inductive.  ProcessInv adds that the slots that are counted  *)
(* are finitely many, although the processes need not be; that a child is  *)
(* in one slot (OneSlot); that nobody refers to what does not exist yet    *)
(* (UnbornOk, MadeOk); that a process sleeps in the semaphore of its slot  *)
(* (SleepersOk); and what the Future of a child says at each step of exit  *)
(* and wait (FuturesOk).                                                   *)
(*                                                                         *)
(* A count is the cardinality of a set of slots.  RefsRow and RefsSlot say *)
(* what the change of one table, or of one slot, does to it; every call is *)
(* then a matter of adding and subtracting ones.                           *)
(***************************************************************************)
EXTENDS Process, Integers, TLAPS, FiniteSetTheorems

\* What a slot can hold.
Things == Procs \cup Sems \cup {None}
\* The tables of all processes, cp or sp.
Tables == [Procs -> [Slots -> Things]]

\* The slots that refer to x.
Holders(tables, x) == {e \in Procs \X Slots : tables[e[1]][e[2]] = x}

\* p is in queue w.
Among(w, p) == \E k \in DOMAIN w : w[k] = p
\* Nobody is in queue w twice.
Distinct(w) == \A j, k \in DOMAIN w : w[j] = w[k] => j = k

\* Inside wait.
Waits == {"waitDown", "waitSleep", "waitUp", "waitCollect"}
\* Inside wait, and told by the Future that the child has exited.
Past == {"waitUp", "waitCollect"}

\* The references to a PCB that are in no table.
Others(p) == One(pc[p] \notin {"unborn", "deleted"}) + One(pc[p] \in Holding) + leaked[p]

\* The count of every PCB is exact, and finite.
PcbsCounted ==
  \A p \in Procs : IsFiniteSet(Holders(cp, p)) /\ pcbRef[p] = Refs(cp, p) + Others(p)
\* The count of every semaphore is exact, and finite.
SemsCounted ==
  \A s \in Sems : IsFiniteSet(Holders(sp, s)) /\ semRef[s] = Refs(sp, s)

\* No two slots have the same child, and nobody is its own child.
OneSlot ==
  \A p, q \in Procs : \A i, j \in Slots :
    /\ cp[p][i] = cp[q][j] /\ cp[p][i] # None => p = q /\ i = j
    /\ cp[p][i] # p

\* Nobody has a PCB that does not exist.
UnbornOk ==
  \A q \in Procs : pc[q] = "unborn" =>
    /\ leaked[q] = 0 /\ sp[q] = EmptyTable
    /\ \A p \in Procs : \A i \in Slots : cp[p][i] # q
\* Nobody has a semaphore that was never made.
MadeOk == \A p \in Procs : \A i \in Slots : sp[p][i] # None => sp[p][i] \in made

\* A process sleeps in the semaphore it called down for, and is in its queue once.
SleepersOk ==
  \A s \in Sems :
    /\ Distinct(waiting[s])
    /\ \A p \in Procs : Among(waiting[s], p) <=> pc[p] = "downSleep" /\ sp[p][slot[p]] = s

\* What the Future of p says, and what a process that waits for it has been told.
FutureOk(p) ==
  /\ t[p] = exitCode[p]
  /\ pc[p] \in {"exitReady", "exitUp"} \/ isReady[p] \/ go[p] > 0 => exitCode[p] # None
  /\ pc[p] = "downSleep" => sp[p][slot[p]] # None
  /\ pc[p] \in Waits => cp[p][slot[p]] # None
  /\ pc[p] \in Past => exitCode[cp[p][slot[p]]] # None
\* Every Future and every wait.
FuturesOk == \A p \in Procs : FutureOk(p)

\* The inductive invariant.
ProcessInv ==
  /\ TypeOK /\ PcbsCounted /\ SemsCounted /\ OneSlot /\ UnbornOk /\ MadeOk /\ SleepersOk
  /\ FuturesOk

\* A table is finite, and what is in no slot of it occurs zero times.
LEMMA OccurrencesAre ==
  ASSUME NEW row, DOMAIN row = Slots, NEW x
  PROVE  /\ IsFiniteSet({i \in DOMAIN row : row[i] = x}) /\ Occurrences(row, x) \in Nat
         /\ (\A i \in Slots : row[i] # x) => Occurrences(row, x) = 0
<1> DEFINE S == {i \in DOMAIN row : row[i] = x}
<1>1. IsFiniteSet(Slots)
  BY ProcessAssumption, FS_Interval DEF Slots
<1>2. IsFiniteSet(S)
  BY <1>1, FS_Subset
<1>3. Cardinality(S) \in Nat
  BY <1>2, FS_CardinalityType
<1>4. (\A i \in Slots : row[i] # x) => S = {}
  OBVIOUS
<1> QED
  BY <1>2, <1>3, <1>4, FS_EmptySet DEF Occurrences

\* What a write to one slot does to the count of x in the table.
LEMMA OccurrencesChange ==
  ASSUME NEW row, NEW new, DOMAIN row = Slots, DOMAIN new = Slots, NEW i \in Slots, NEW v, NEW x,
         new[i] = v, \A k \in Slots : k # i => new[k] = row[k]
  PROVE  Occurrences(new, x) = Occurrences(row, x) - One(row[i] = x) + One(v = x)
<1> DEFINE S == {k \in DOMAIN row : row[k] = x}
           T == {k \in DOMAIN new : new[k] = x}
<1>1. DOMAIN new = Slots /\ new[i] = v /\ \A k \in Slots : k # i => new[k] = row[k]
  OBVIOUS
<1>2. IsFiniteSet(S) /\ Cardinality(S) \in Nat
  BY OccurrencesAre DEF Occurrences
<1>3. IsFiniteSet(S \ {i}) /\ Cardinality(S \ {i}) = Cardinality(S) - One(row[i] = x)
  BY <1>2, FS_RemoveElement DEF One
<1>4. CASE v = x
  <2>1. T = (S \ {i}) \cup {i} /\ i \notin S \ {i}
    BY <1>1, <1>4
  <2>2. Cardinality(T) = Cardinality(S \ {i}) + 1
    BY <1>3, <2>1, FS_AddElement
  <2> QED
    BY <1>3, <1>4, <2>2 DEF Occurrences, One
<1>5. CASE v # x
  <2>1. T = S \ {i}
    BY <1>1, <1>5
  <2> QED
    BY <1>2, <1>3, <1>5, <2>1 DEF Occurrences, One
<1> QED
  BY <1>4, <1>5

\* What a change of the table of one process does to the references to x.
LEMMA RefsRow ==
  ASSUME NEW old \in Tables, NEW new \in Tables,
         NEW p \in Procs, NEW x,
         \A q \in Procs : q # p => new[q] = old[q], IsFiniteSet(Holders(old, x))
  PROVE  /\ IsFiniteSet(Holders(new, x)) /\ Refs(new, x) \in Nat /\ Refs(old, x) \in Nat
         /\ Refs(new, x) = Refs(old, x) - Occurrences(old[p], x) + Occurrences(new[p], x)
<1> DEFINE rest == {e \in Holders(old, x) : e[1] # p}
           row(tb) == {p} \X {i \in DOMAIN tb[p] : tb[p][i] = x}
<1>1. IsFiniteSet(rest) /\ Cardinality(rest) \in Nat
  BY FS_Subset, FS_CardinalityType
<1>2. ASSUME NEW tb \in Tables, \A q \in Procs : q # p => tb[q] = old[q]
      PROVE  /\ IsFiniteSet(Holders(tb, x))
             /\ Cardinality(Holders(tb, x)) = Cardinality(rest) + Occurrences(tb[p], x)
  <2>1. /\ IsFiniteSet({p}) /\ Cardinality({p}) = 1
        /\ IsFiniteSet({i \in DOMAIN tb[p] : tb[p][i] = x}) /\ Occurrences(tb[p], x) \in Nat
    <3>1. IsFiniteSet({p}) /\ Cardinality({p}) = 1
      BY FS_Singleton
    <3>2. IsFiniteSet({i \in DOMAIN tb[p] : tb[p][i] = x}) /\ Occurrences(tb[p], x) \in Nat
      <4>1. DOMAIN tb[p] = Slots
        BY DEF Tables
      <4> QED
        BY ONLY <4>1, OccurrencesAre
    <3> QED
      BY <3>1, <3>2
  <2>2. IsFiniteSet(row(tb)) /\ Cardinality(row(tb)) = 1 * Occurrences(tb[p], x)
    BY <2>1, FS_Product DEF Occurrences
  <2>3. Cardinality(row(tb)) = Occurrences(tb[p], x)
    BY <2>1, <2>2
  <2>4. Holders(tb, x) = rest \cup row(tb)
    BY <1>2 DEF Holders, Tables
  <2>5. rest \cap row(tb) = {}
    OBVIOUS
  <2>6. Cardinality(rest \cap row(tb)) = 0
    BY <2>5, FS_EmptySet
  <2> DEFINE R == row(tb)
  <2>7. /\ IsFiniteSet(R) /\ Cardinality(R) = Occurrences(tb[p], x) /\ Cardinality(rest \cap R) = 0
        /\ Holders(tb, x) = rest \cup R
    BY <2>2, <2>3, <2>4, <2>6
  <2> HIDE DEF rest, row, R
  <2>8. IsFiniteSet(rest \cup R)
        /\ Cardinality(rest \cup R) = Cardinality(rest) + Cardinality(R) - Cardinality(rest \cap R)
    BY ONLY <1>1, <2>7, FS_Union
  <2> QED
    BY ONLY <1>1, <2>1, <2>7, <2>8
<1>3. Refs(new, x) = Cardinality(Holders(new, x)) /\ Refs(old, x) = Cardinality(Holders(old, x))
  BY DEF Refs, Holders
<1>4. Occurrences(old[p], x) \in Nat /\ Occurrences(new[p], x) \in Nat
  <2>1. DOMAIN old[p] = Slots /\ DOMAIN new[p] = Slots
    BY DEF Tables
  <2> QED
    BY ONLY <2>1, OccurrencesAre
<1> HIDE DEF rest
<1>5. /\ IsFiniteSet(Holders(new, x))
      /\ Refs(new, x) = Cardinality(rest) + Occurrences(new[p], x)
      /\ Refs(old, x) = Cardinality(rest) + Occurrences(old[p], x)
  BY <1>2, <1>3
<1> QED
  BY ONLY <1>1, <1>4, <1>5

\* What a write to one slot does to the references to x.
LEMMA RefsSlot ==
  ASSUME NEW old \in Tables, NEW new \in Tables, NEW p \in Procs, NEW i \in Slots, NEW x,
         \A q \in Procs : q # p => new[q] = old[q],
         \A k \in Slots : k # i => new[p][k] = old[p][k], IsFiniteSet(Holders(old, x))
  PROVE  /\ IsFiniteSet(Holders(new, x)) /\ Refs(new, x) \in Nat /\ Refs(old, x) \in Nat
         /\ Refs(new, x) = Refs(old, x) - One(old[p][i] = x) + One(new[p][i] = x)
<1>1. /\ DOMAIN old[p] = Slots /\ DOMAIN new[p] = Slots
      /\ \A k \in Slots : k # i => new[p][k] = old[p][k]
  BY DEF Tables
<1>2. /\ Occurrences(new[p], x) = Occurrences(old[p], x) - One(old[p][i] = x) + One(new[p][i] = x)
      /\ Occurrences(old[p], x) \in Nat
  <2>1. Occurrences(new[p], x) = Occurrences(old[p], x) - One(old[p][i] = x) + One(new[p][i] = x)
    BY ONLY <1>1, i \in Slots, OccurrencesChange
  <2>2. Occurrences(old[p], x) \in Nat
    BY ONLY <1>1, OccurrencesAre
  <2> QED
    BY <2>1, <2>2
<1>3. /\ IsFiniteSet(Holders(new, x)) /\ Refs(new, x) \in Nat /\ Refs(old, x) \in Nat
      /\ Refs(new, x) = Refs(old, x) - Occurrences(old[p], x) + Occurrences(new[p], x)
  BY RefsRow
<1> QED
  BY <1>2, <1>3 DEF One

\* An object that some slot refers to has a count above zero.
LEMMA RefsPositive ==
  ASSUME NEW tb, NEW p \in Procs, NEW i \in Slots, NEW x, IsFiniteSet(Holders(tb, x)),
         tb[p][i] = x
  PROVE  Refs(tb, x) \in Nat /\ Refs(tb, x) > 0
<1>1. <<p, i>> \in Holders(tb, x)
  BY DEF Holders
<1>2. Cardinality(Holders(tb, x)) \in Nat /\ Cardinality(Holders(tb, x)) # 0
  BY <1>1, FS_CardinalityType, FS_EmptySet
<1> QED
  BY <1>2 DEF Refs, Holders

\* queue.h: what remove() does.
LEMMA TailIs ==
  ASSUME NEW S, NEW q \in Seq(S), q # <<>>, Distinct(q)
  PROVE  /\ Head(q) \in S /\ Among(q, Head(q))
         /\ Tail(q) \in Seq(S) /\ Distinct(Tail(q))
         /\ \A u : Among(Tail(q), u) <=> Among(q, u) /\ u # Head(q)
<1>1. /\ Len(q) \in Nat \ {0} /\ DOMAIN q = 1..Len(q) /\ Head(q) = q[1] /\ q[1] \in S
      /\ Tail(q) \in Seq(S) /\ Len(Tail(q)) = Len(q) - 1
      /\ DOMAIN Tail(q) = 1..(Len(q) - 1)
      /\ \A i \in 1..(Len(q) - 1) : Tail(q)[i] = q[i + 1]
  OBVIOUS
<1> DEFINE r == Tail(q)
           n == Len(q)
<1>2. Distinct(r)
  BY <1>1 DEF Distinct
<1>3. ASSUME NEW u, Among(r, u) PROVE Among(q, u) /\ u # q[1]
  <2>1. PICK i \in 1..(n - 1) : r[i] = u
    BY <1>1, <1>3 DEF Among
  <2>2. q[i + 1] = u /\ i + 1 \in 1..n /\ 1 \in 1..n /\ i + 1 # 1
    BY <1>1, <2>1
  <2> QED
    BY <1>1, <2>2 DEF Among, Distinct
<1>4. ASSUME NEW u, Among(q, u), u # q[1] PROVE Among(r, u)
  <2>1. PICK i \in 1..n : q[i] = u
    BY <1>1, <1>4 DEF Among
  <2>2. i - 1 \in 1..(n - 1) /\ r[i - 1] = u
    BY <1>1, <1>4, <2>1
  <2> QED
    BY <1>1, <2>2 DEF Among
<1>5. Among(q, q[1])
  BY <1>1 DEF Among
<1> QED
  BY <1>1, <1>2, <1>3, <1>4, <1>5

\* queue.h: what add() does.
LEMMA AppendIs ==
  ASSUME NEW S, NEW q \in Seq(S), NEW x \in S
  PROVE  /\ Append(q, x) \in Seq(S)
         /\ ~Among(q, x) /\ Distinct(q) => Distinct(Append(q, x))
         /\ \A u : Among(Append(q, x), u) <=> Among(q, u) \/ u = x
<1>1. /\ Len(q) \in Nat /\ DOMAIN q = 1..Len(q)
      /\ Append(q, x) \in Seq(S) /\ DOMAIN Append(q, x) = 1..(Len(q) + 1)
      /\ \A i \in 1..Len(q) : Append(q, x)[i] = q[i]
      /\ Append(q, x)[Len(q) + 1] = x
  OBVIOUS
<1> DEFINE r == Append(q, x)
           n == Len(q)
<1> HIDE DEF r, n
<1>2. ~Among(q, x) /\ Distinct(q) => Distinct(r)
  BY <1>1 DEF Among, Distinct, r, n
<1>3. ASSUME NEW u, Among(r, u) PROVE Among(q, u) \/ u = x
  BY <1>1, <1>3 DEF Among, r, n
<1>4. ASSUME NEW u, Among(q, u) \/ u = x PROVE Among(r, u)
  <2>1. n \in Nat /\ n + 1 \in 1..(n + 1)
    BY <1>1 DEF n
  <2> QED
    BY <1>1, <1>4, <2>1 DEF Among, r, n
<1> QED
  BY <1>1, <1>2, <1>3, <1>4 DEF r

\* The references outside the tables.
LEMMA OthersNat ==
  ASSUME NEW p \in Procs, pc \in [Procs -> Labels], leaked \in [Procs -> Nat]
  PROVE  Others(p) \in Nat
  BY DEF Others, One

\* An exact count is not negative.
LEMMA CountNat ==
  ASSUME NEW tb, NEW x, IsFiniteSet(Holders(tb, x))
  PROVE  Refs(tb, x) \in Nat
  BY FS_CardinalityType DEF Refs, Holders

\* A step that leaves the tables alone.
LEMMA TablesStay ==
  ASSUME ProcessInv, UNCHANGED <<cp, sp, semRef, made>>,
         count' \in [Sems -> Nat], waiting' \in [Sems -> Seq(Procs)], SleepersOk',
         pc' \in [Procs -> Labels], slot' \in [Procs -> Slots], leaked' \in [Procs -> Nat],
         pcbRef' \in [Procs -> Int], isReady' \in [Procs -> BOOLEAN],
         t' \in [Procs -> Codes \cup {None}], go' \in [Procs -> Nat],
         exitCode' \in [Procs -> Codes \cup {None}],
         \A p \in Procs : pcbRef'[p] = pcbRef[p] + Others(p)' - Others(p),
         \A p \in Procs : pc'[p] = "unborn" => pc[p] = "unborn" /\ leaked'[p] = leaked[p],
         FuturesOk'
  PROVE  ProcessInv'
<1> USE DEF ProcessInv
<1>1. PcbsCounted'
  <2> SUFFICES ASSUME NEW p \in Procs
               PROVE  IsFiniteSet(Holders(cp, p)) /\ pcbRef'[p] = Refs(cp, p) + Others(p)'
    BY DEF PcbsCounted, Holders, Refs
  <2>1. IsFiniteSet(Holders(cp, p)) /\ pcbRef[p] = Refs(cp, p) + Others(p)
    BY DEF PcbsCounted
  <2>2. Refs(cp, p) \in Nat
    BY <2>1, CountNat
  <2>3. Others(p) \in Nat
    BY OthersNat DEF TypeOK
  <2>4. Others(p)' \in Nat
    BY DEF Others, One
  <2>5. pcbRef'[p] = pcbRef[p] + Others(p)' - Others(p)
    OBVIOUS
  <2>6. pcbRef'[p] = Refs(cp, p) + Others(p)'
    BY ONLY <2>1, <2>2, <2>3, <2>4, <2>5
  <2> QED
    BY <2>1, <2>6
<1>2. SemsCounted' /\ OneSlot' /\ MadeOk'
  <2>1. SemsCounted'
    BY DEF SemsCounted, Holders, Refs
  <2>2. OneSlot'
    BY DEF OneSlot
  <2>3. MadeOk'
    BY DEF MadeOk
  <2> QED
    BY <2>1, <2>2, <2>3
<1>3. UnbornOk'
  BY DEF UnbornOk
<1>5. TypeOK'
  <2>1. pcbRef' \in [Procs -> Nat]
    <3>1. ASSUME NEW p \in Procs PROVE pcbRef'[p] \in Nat
      <4>1. IsFiniteSet(Holders(cp, p)) /\ pcbRef'[p] = Refs(cp, p) + Others(p)'
        BY <1>1 DEF PcbsCounted, Holders, Refs
      <4>2. Refs(cp, p) \in Nat
        BY <4>1, CountNat
      <4>3. Others(p)' \in Nat
        BY DEF Others, One
      <4> QED
        BY ONLY <4>1, <4>2, <4>3
    <3> QED
      BY <3>1
  <2> QED
    BY <2>1 DEF TypeOK
<1> QED
  BY <1>1, <1>2, <1>3, <1>5

\* A step that leaves the tables and the semaphores alone.
LEMMA TablesQuiet ==
  ASSUME ProcessInv, UNCHANGED <<cp, semVars>>,
         pc' \in [Procs -> Labels], slot' \in [Procs -> Slots], leaked' \in [Procs -> Nat],
         pcbRef' \in [Procs -> Int], isReady' \in [Procs -> BOOLEAN],
         t' \in [Procs -> Codes \cup {None}], go' \in [Procs -> Nat],
         exitCode' \in [Procs -> Codes \cup {None}],
         \A p \in Procs : pcbRef'[p] = pcbRef[p] + Others(p)' - Others(p),
         \A p \in Procs : pc'[p] = "unborn" => pc[p] = "unborn" /\ leaked'[p] = leaked[p],
         \A p \in Procs : /\ pc'[p] = "downSleep" <=> pc[p] = "downSleep"
                          /\ pc[p] = "downSleep" => slot'[p] = slot[p],
         FuturesOk'
  PROVE  ProcessInv'
<1>1. SleepersOk'
  BY DEF ProcessInv, semVars, SleepersOk, Distinct, Among
<1>2. /\ UNCHANGED <<cp, sp, semRef, made>>
      /\ count' \in [Sems -> Nat] /\ waiting' \in [Sems -> Seq(Procs)]
  BY DEF ProcessInv, TypeOK, semVars
<1> QED
  BY <1>1, <1>2, TablesStay

\* A system call that stops the kernel changes nothing else.
LEMMA FailureKeeps ==
  ASSUME ProcessInv, UNCHANGED <<pc, slot, pcbVars, semVars, futureVars>>
  PROVE  ProcessInv'
<1> USE DEF ProcessInv, pcbVars, semVars, futureVars
<1>1. TypeOK' /\ MadeOk' /\ UnbornOk'
  BY DEF TypeOK, MadeOk, UnbornOk
<1>2. PcbsCounted' /\ SemsCounted' /\ OneSlot'
  <2>1. PcbsCounted'
    BY DEF PcbsCounted, Holders, Refs, Others
  <2>2. SemsCounted'
    BY DEF SemsCounted, Holders, Refs
  <2>3. OneSlot'
    BY DEF OneSlot
  <2> QED
    BY <2>1, <2>2, <2>3
<1>3. SleepersOk' /\ FuturesOk'
  BY DEF SleepersOk, FuturesOk, FutureOk, Distinct, Among
<1> QED
  BY <1>1, <1>2, <1>3

\* exit() sets the value of the Future.
LEMMA ExitKeeps ==
  ASSUME ProcessInv, NEW p \in Procs, NEW rc \in Codes, Exit(p, rc)
  PROVE  ProcessInv'
<1>0. TypeOK /\ FuturesOk /\ \A x \in Procs : Others(x) \in Nat
  BY OthersNat DEF ProcessInv, TypeOK
<1>1. /\ pc[p] = "user" /\ pc' = [pc EXCEPT ![p] = "exitReady"]
      /\ t' = [t EXCEPT ![p] = rc] /\ exitCode' = [exitCode EXCEPT ![p] = rc]
      /\ pcbRef' = [pcbRef EXCEPT ![p] = @ + 1] /\ leaked' = [leaked EXCEPT ![p] = @ + 1]
      /\ UNCHANGED <<slot, cp, semVars, isReady, go>>
  BY DEF Exit, At
<1>2. /\ pc' \in [Procs -> Labels] /\ slot' \in [Procs -> Slots] /\ leaked' \in [Procs -> Nat]
      /\ pcbRef' \in [Procs -> Int] /\ isReady' \in [Procs -> BOOLEAN]
      /\ t' \in [Procs -> Codes \cup {None}] /\ go' \in [Procs -> Nat]
      /\ exitCode' \in [Procs -> Codes \cup {None}]
  BY <1>0, <1>1 DEF TypeOK, Labels
<1>3. \A x \in Procs : pcbRef'[x] = pcbRef[x] + Others(x)' - Others(x)
  <2> SUFFICES ASSUME NEW x \in Procs PROVE pcbRef'[x] = pcbRef[x] + Others(x)' - Others(x)
    OBVIOUS
  <2>1. CASE x = p
    BY <1>0, <1>1, <2>1 DEF TypeOK, Others, One, Holding
  <2>2. CASE x # p
    <3>1. pc'[x] = pc[x] /\ leaked'[x] = leaked[x] /\ pcbRef'[x] = pcbRef[x] /\ pcbRef[x] \in Nat
      BY <1>0, <1>1, <2>2 DEF TypeOK
    <3>2. Others(x)' = Others(x)
      BY <3>1 DEF Others
    <3> QED
      BY <1>0, <3>1, <3>2
  <2> QED
    BY <2>1, <2>2
<1>4. /\ \A x \in Procs : pc'[x] = "unborn" => pc[x] = "unborn" /\ leaked'[x] = leaked[x]
      /\ \A x \in Procs : /\ pc'[x] = "downSleep" <=> pc[x] = "downSleep"
                          /\ pc[x] = "downSleep" => slot'[x] = slot[x]
      /\ UNCHANGED <<cp, semVars>>
  BY <1>0, <1>1 DEF TypeOK
<1>5. FuturesOk'
  <2> SUFFICES ASSUME NEW x \in Procs PROVE FutureOk(x)'
    BY DEF FuturesOk
  <2>1. FutureOk(x) /\ \A y \in Procs : exitCode[y] # None => exitCode'[y] # None
    BY <1>0, <1>1, ProcessAssumption DEF TypeOK, FuturesOk
  <2>2. CASE x = p
    BY <1>0, <1>1, <2>1, <2>2, ProcessAssumption DEF TypeOK, FuturesOk, FutureOk, Waits, Past
  <2>3. CASE x # p
    <3>1. pc'[x] = pc[x] /\ slot'[x] = slot[x]
      BY <1>0, <1>1, <2>3 DEF TypeOK
    <3>2. pc[x] \in Past => cp[x][slot[x]] \in Procs
      BY <1>0, <2>1 DEF TypeOK, FutureOk, Waits, Past
    <3>3. /\ t'[x] = exitCode'[x] /\ (isReady'[x] => isReady[x])
          /\ go'[x] > 0 => exitCode'[x] # None
      BY <1>0, <1>1, <2>1, <2>3 DEF TypeOK, FutureOk
    <3> QED
      BY <1>1, <2>1, <3>1, <3>2, <3>3 DEF FutureOk, semVars
  <2> QED
    BY <2>2, <2>3
<1> QED
  BY ONLY ProcessInv, <1>2, <1>3, <1>4, <1>5, TablesQuiet

\* exit() marks the Future as ready.
LEMMA ExitReadyKeeps ==
  ASSUME ProcessInv, NEW p \in Procs, ExitReady(p)
  PROVE  ProcessInv'
<1>0. TypeOK /\ FuturesOk /\ \A x \in Procs : Others(x) \in Nat
  BY OthersNat DEF ProcessInv, TypeOK
<1>1. /\ pc[p] = "exitReady" /\ pc' = [pc EXCEPT ![p] = "exitUp"]
      /\ isReady' = [isReady EXCEPT ![p] = TRUE]
      /\ UNCHANGED <<slot, cp, pcbRef, leaked, semVars, t, go, exitCode>>
  BY DEF ExitReady, At, pcbVars
<1>2. /\ pc' \in [Procs -> Labels] /\ slot' \in [Procs -> Slots] /\ leaked' \in [Procs -> Nat]
      /\ pcbRef' \in [Procs -> Int] /\ isReady' \in [Procs -> BOOLEAN]
      /\ t' \in [Procs -> Codes \cup {None}] /\ go' \in [Procs -> Nat]
      /\ exitCode' \in [Procs -> Codes \cup {None}]
  BY <1>0, <1>1 DEF TypeOK, Labels
<1>3. \A x \in Procs : pcbRef'[x] = pcbRef[x] + Others(x)' - Others(x)
  <2> SUFFICES ASSUME NEW x \in Procs PROVE pcbRef'[x] = pcbRef[x] + Others(x)' - Others(x)
    OBVIOUS
  <2>1. CASE x = p
    BY <1>0, <1>1, <2>1 DEF TypeOK, Others, One, Holding
  <2>2. CASE x # p
    <3>1. pc'[x] = pc[x] /\ leaked'[x] = leaked[x] /\ pcbRef'[x] = pcbRef[x] /\ pcbRef[x] \in Nat
      BY <1>0, <1>1, <2>2 DEF TypeOK
    <3>2. Others(x)' = Others(x)
      BY <3>1 DEF Others
    <3> QED
      BY <1>0, <3>1, <3>2
  <2> QED
    BY <2>1, <2>2
<1>4. /\ \A x \in Procs : pc'[x] = "unborn" => pc[x] = "unborn" /\ leaked'[x] = leaked[x]
      /\ \A x \in Procs : /\ pc'[x] = "downSleep" <=> pc[x] = "downSleep"
                          /\ pc[x] = "downSleep" => slot'[x] = slot[x]
      /\ UNCHANGED <<cp, semVars>>
  BY <1>0, <1>1 DEF TypeOK
<1>5. FuturesOk'
  <2> SUFFICES ASSUME NEW x \in Procs PROVE FutureOk(x)'
    BY DEF FuturesOk
  <2>1. FutureOk(x) /\ \A y \in Procs : exitCode[y] # None => exitCode'[y] # None
    BY <1>0, <1>1, ProcessAssumption DEF TypeOK, FuturesOk
  <2>2. CASE x = p
    BY <1>0, <1>1, <2>1, <2>2, ProcessAssumption DEF TypeOK, FuturesOk, FutureOk, Waits, Past
  <2>3. CASE x # p
    <3>1. pc'[x] = pc[x] /\ slot'[x] = slot[x]
      BY <1>0, <1>1, <2>3 DEF TypeOK
    <3>2. pc[x] \in Past => cp[x][slot[x]] \in Procs
      BY <1>0, <2>1 DEF TypeOK, FutureOk, Waits, Past
    <3>3. /\ t'[x] = exitCode'[x] /\ (isReady'[x] => isReady[x])
          /\ go'[x] > 0 => exitCode'[x] # None
      BY <1>0, <1>1, <2>1, <2>3 DEF TypeOK, FutureOk
    <3> QED
      BY <1>1, <2>1, <3>1, <3>2, <3>3 DEF FutureOk, semVars
  <2> QED
    BY <2>2, <2>3
<1> QED
  BY ONLY ProcessInv, <1>2, <1>3, <1>4, <1>5, TablesQuiet

\* delete_zombies() drops the PCB of a stopped thread.
LEMMA DeleteTCBKeeps ==
  ASSUME ProcessInv, NEW p \in Procs, DeleteTCB(p)
  PROVE  ProcessInv'
<1>0. TypeOK /\ FuturesOk /\ \A x \in Procs : Others(x) \in Nat
  BY OthersNat DEF ProcessInv, TypeOK
<1>1. /\ pc[p] = "stopped" /\ pc' = [pc EXCEPT ![p] = "deleted"]
      /\ pcbRef' = [pcbRef EXCEPT ![p] = @ - 1]
      /\ UNCHANGED <<slot, cp, leaked, semVars, isReady, t, go, exitCode>>
  BY DEF DeleteTCB, At, futureVars
<1>2. /\ pc' \in [Procs -> Labels] /\ slot' \in [Procs -> Slots] /\ leaked' \in [Procs -> Nat]
      /\ pcbRef' \in [Procs -> Int] /\ isReady' \in [Procs -> BOOLEAN]
      /\ t' \in [Procs -> Codes \cup {None}] /\ go' \in [Procs -> Nat]
      /\ exitCode' \in [Procs -> Codes \cup {None}]
  BY <1>0, <1>1 DEF TypeOK, Labels
<1>3. \A x \in Procs : pcbRef'[x] = pcbRef[x] + Others(x)' - Others(x)
  <2> SUFFICES ASSUME NEW x \in Procs PROVE pcbRef'[x] = pcbRef[x] + Others(x)' - Others(x)
    OBVIOUS
  <2>1. CASE x = p
    BY <1>0, <1>1, <2>1 DEF TypeOK, Others, One, Holding
  <2>2. CASE x # p
    <3>1. pc'[x] = pc[x] /\ leaked'[x] = leaked[x] /\ pcbRef'[x] = pcbRef[x] /\ pcbRef[x] \in Nat
      BY <1>0, <1>1, <2>2 DEF TypeOK
    <3>2. Others(x)' = Others(x)
      BY <3>1 DEF Others
    <3> QED
      BY <1>0, <3>1, <3>2
  <2> QED
    BY <2>1, <2>2
<1>4. /\ \A x \in Procs : pc'[x] = "unborn" => pc[x] = "unborn" /\ leaked'[x] = leaked[x]
      /\ \A x \in Procs : /\ pc'[x] = "downSleep" <=> pc[x] = "downSleep"
                          /\ pc[x] = "downSleep" => slot'[x] = slot[x]
      /\ UNCHANGED <<cp, semVars>>
  BY <1>0, <1>1 DEF TypeOK
<1>5. FuturesOk'
  <2> SUFFICES ASSUME NEW x \in Procs PROVE FutureOk(x)'
    BY DEF FuturesOk
  <2>1. FutureOk(x) /\ \A y \in Procs : exitCode[y] # None => exitCode'[y] # None
    BY <1>0, <1>1, ProcessAssumption DEF TypeOK, FuturesOk
  <2>2. CASE x = p
    BY <1>0, <1>1, <2>1, <2>2, ProcessAssumption DEF TypeOK, FuturesOk, FutureOk, Waits, Past
  <2>3. CASE x # p
    <3>1. pc'[x] = pc[x] /\ slot'[x] = slot[x]
      BY <1>0, <1>1, <2>3 DEF TypeOK
    <3>2. pc[x] \in Past => cp[x][slot[x]] \in Procs
      BY <1>0, <2>1 DEF TypeOK, FutureOk, Waits, Past
    <3>3. /\ t'[x] = exitCode'[x] /\ (isReady'[x] => isReady[x])
          /\ go'[x] > 0 => exitCode'[x] # None
      BY <1>0, <1>1, <2>1, <2>3 DEF TypeOK, FutureOk
    <3> QED
      BY <1>1, <2>1, <3>1, <3>2, <3>3 DEF FutureOk, semVars
  <2> QED
    BY <2>2, <2>3
<1> QED
  BY ONLY ProcessInv, <1>2, <1>3, <1>4, <1>5, TablesQuiet

\* wait() looks at the Future of a child.
LEMMA WaitKeeps ==
  ASSUME ProcessInv, NEW p \in Procs, NEW i \in Slots, Wait(p, i)
  PROVE  ProcessInv'
<1>0. TypeOK /\ FuturesOk /\ \A x \in Procs : Others(x) \in Nat
  BY OthersNat DEF ProcessInv, TypeOK
<1>1. /\ pc[p] = "user" /\ cp[p][i] # None /\ slot' = [slot EXCEPT ![p] = i]
      /\ pc' = [pc EXCEPT ![p] = IF isReady[cp[p][i]] THEN "waitCollect" ELSE "waitDown"]
      /\ pcbRef' = [pcbRef EXCEPT ![p] = @ + 1]
      /\ UNCHANGED <<cp, leaked, semVars, isReady, t, go, exitCode>>
  BY DEF Wait, At, futureVars
<1>2. /\ pc' \in [Procs -> Labels] /\ slot' \in [Procs -> Slots] /\ leaked' \in [Procs -> Nat]
      /\ pcbRef' \in [Procs -> Int] /\ isReady' \in [Procs -> BOOLEAN]
      /\ t' \in [Procs -> Codes \cup {None}] /\ go' \in [Procs -> Nat]
      /\ exitCode' \in [Procs -> Codes \cup {None}]
  BY <1>0, <1>1 DEF TypeOK, Labels
<1>3. \A x \in Procs : pcbRef'[x] = pcbRef[x] + Others(x)' - Others(x)
  <2> SUFFICES ASSUME NEW x \in Procs PROVE pcbRef'[x] = pcbRef[x] + Others(x)' - Others(x)
    OBVIOUS
  <2>1. CASE x = p
    BY <1>0, <1>1, <2>1 DEF TypeOK, Others, One, Holding
  <2>2. CASE x # p
    <3>1. pc'[x] = pc[x] /\ leaked'[x] = leaked[x] /\ pcbRef'[x] = pcbRef[x] /\ pcbRef[x] \in Nat
      BY <1>0, <1>1, <2>2 DEF TypeOK
    <3>2. Others(x)' = Others(x)
      BY <3>1 DEF Others
    <3> QED
      BY <1>0, <3>1, <3>2
  <2> QED
    BY <2>1, <2>2
<1>4. /\ \A x \in Procs : pc'[x] = "unborn" => pc[x] = "unborn" /\ leaked'[x] = leaked[x]
      /\ \A x \in Procs : /\ pc'[x] = "downSleep" <=> pc[x] = "downSleep"
                          /\ pc[x] = "downSleep" => slot'[x] = slot[x]
      /\ UNCHANGED <<cp, semVars>>
  BY <1>0, <1>1 DEF TypeOK
<1>5. FuturesOk'
  <2> SUFFICES ASSUME NEW x \in Procs PROVE FutureOk(x)'
    BY DEF FuturesOk
  <2>1. FutureOk(x) /\ \A y \in Procs : exitCode[y] # None => exitCode'[y] # None
    BY <1>0, <1>1, ProcessAssumption DEF TypeOK, FuturesOk
  <2>2. CASE x = p
    BY <1>0, <1>1, <2>1, <2>2, ProcessAssumption DEF TypeOK, FuturesOk, FutureOk, Waits, Past
  <2>3. CASE x # p
    <3>1. pc'[x] = pc[x] /\ slot'[x] = slot[x]
      BY <1>0, <1>1, <2>3 DEF TypeOK
    <3>2. pc[x] \in Past => cp[x][slot[x]] \in Procs
      BY <1>0, <2>1 DEF TypeOK, FutureOk, Waits, Past
    <3>3. /\ t'[x] = exitCode'[x] /\ (isReady'[x] => isReady[x])
          /\ go'[x] > 0 => exitCode'[x] # None
      BY <1>0, <1>1, <2>1, <2>3 DEF TypeOK, FutureOk
    <3> QED
      BY <1>1, <2>1, <3>1, <3>2, <3>3 DEF FutureOk, semVars
  <2> QED
    BY <2>2, <2>3
<1> QED
  BY ONLY ProcessInv, <1>2, <1>3, <1>4, <1>5, TablesQuiet

\* wait() goes to sleep in the Future, or takes its permit.
LEMMA WaitDownKeeps ==
  ASSUME ProcessInv, NEW p \in Procs, WaitDown(p)
  PROVE  ProcessInv'
<1>0. TypeOK /\ FuturesOk /\ \A x \in Procs : Others(x) \in Nat
  BY OthersNat DEF ProcessInv, TypeOK
<1>a. PICK c \in Procs : c = cp[p][slot[p]]
  BY <1>0 DEF WaitDown, WaitUp, At, FuturesOk, FutureOk, Waits, TypeOK
<1>1. /\ pc[p] = "waitDown"
      /\ pc' = [pc EXCEPT ![p] = IF go[c] > 0 THEN "waitUp" ELSE "waitSleep"]
      /\ go' = [go EXCEPT ![c] = IF @ > 0 THEN @ - 1 ELSE @]
      /\ UNCHANGED <<slot, cp, pcbRef, leaked, semVars, isReady, t, exitCode>>
  BY <1>a DEF WaitDown, At, pcbVars
<1>2. /\ pc' \in [Procs -> Labels] /\ slot' \in [Procs -> Slots] /\ leaked' \in [Procs -> Nat]
      /\ pcbRef' \in [Procs -> Int] /\ isReady' \in [Procs -> BOOLEAN]
      /\ t' \in [Procs -> Codes \cup {None}] /\ go' \in [Procs -> Nat]
      /\ exitCode' \in [Procs -> Codes \cup {None}]
  BY <1>0, <1>1 DEF TypeOK, Labels
<1>3. \A x \in Procs : pcbRef'[x] = pcbRef[x] + Others(x)' - Others(x)
  <2> SUFFICES ASSUME NEW x \in Procs PROVE pcbRef'[x] = pcbRef[x] + Others(x)' - Others(x)
    OBVIOUS
  <2>1. CASE x = p
    BY <1>0, <1>1, <2>1 DEF TypeOK, Others, One, Holding
  <2>2. CASE x # p
    <3>1. pc'[x] = pc[x] /\ leaked'[x] = leaked[x] /\ pcbRef'[x] = pcbRef[x] /\ pcbRef[x] \in Nat
      BY <1>0, <1>1, <2>2 DEF TypeOK
    <3>2. Others(x)' = Others(x)
      BY <3>1 DEF Others
    <3> QED
      BY <1>0, <3>1, <3>2
  <2> QED
    BY <2>1, <2>2
<1>4. /\ \A x \in Procs : pc'[x] = "unborn" => pc[x] = "unborn" /\ leaked'[x] = leaked[x]
      /\ \A x \in Procs : /\ pc'[x] = "downSleep" <=> pc[x] = "downSleep"
                          /\ pc[x] = "downSleep" => slot'[x] = slot[x]
      /\ UNCHANGED <<cp, semVars>>
  BY <1>0, <1>1 DEF TypeOK
<1>5. FuturesOk'
  <2> SUFFICES ASSUME NEW x \in Procs PROVE FutureOk(x)'
    BY DEF FuturesOk
  <2>1. FutureOk(x) /\ \A y \in Procs : exitCode[y] # None => exitCode'[y] # None
    BY <1>0, <1>1, ProcessAssumption DEF TypeOK, FuturesOk
  <2>2. CASE x = p
    <3>1. /\ FutureOk(c) /\ cp'[p][slot'[p]] = c /\ exitCode' = exitCode /\ c # None
          /\ pc'[p] \in {"waitUp", "waitCollect", "waitSleep"} /\ t'[p] = exitCode'[p]
          /\ isReady' = isReady
      BY <1>0, <1>a, <1>1, <2>1, <2>2, ProcessAssumption DEF FuturesOk, FutureOk, TypeOK
    <3>2. pc'[p] # "waitSleep" => exitCode[c] # None
      BY <1>0, <1>a, <1>1, <2>1, <2>2, <3>1 DEF FutureOk, TypeOK, Past
    <3>3. go'[p] > 0 => exitCode'[p] # None
      <4>1. CASE p = c
        BY <1>0, <1>1, <2>1, <2>2, <3>1, <3>2, <4>1 DEF FutureOk, TypeOK
      <4>2. CASE p # c
        BY <1>0, <1>1, <2>1, <2>2, <4>2 DEF FutureOk, TypeOK
      <4> QED
        BY <4>1, <4>2
    <3> QED
      BY <2>1, <2>2, <3>1, <3>2, <3>3 DEF FutureOk, Waits, Past
  <2>3. CASE x # p
    <3>1. pc'[x] = pc[x] /\ slot'[x] = slot[x]
      BY <1>0, <1>1, <2>3 DEF TypeOK
    <3>2. pc[x] \in Past => cp[x][slot[x]] \in Procs
      BY <1>0, <2>1 DEF TypeOK, FutureOk, Waits, Past
    <3>3. /\ t'[x] = exitCode'[x] /\ (isReady'[x] => isReady[x])
          /\ go'[x] > 0 => exitCode'[x] # None
      BY <1>0, <1>1, <2>1, <2>3 DEF TypeOK, FutureOk
    <3> QED
      BY <1>1, <2>1, <3>1, <3>2, <3>3 DEF FutureOk, semVars
  <2> QED
    BY <2>2, <2>3
<1> QED
  BY ONLY ProcessInv, <1>2, <1>3, <1>4, <1>5, TablesQuiet

\* wait() gives the permit of the Future back.
LEMMA WaitUpKeeps ==
  ASSUME ProcessInv, NEW p \in Procs, WaitUp(p)
  PROVE  ProcessInv'
<1>0. TypeOK /\ FuturesOk /\ \A x \in Procs : Others(x) \in Nat
  BY OthersNat DEF ProcessInv, TypeOK
<1>a. PICK c \in Procs : c = cp[p][slot[p]]
  BY <1>0 DEF WaitDown, WaitUp, At, FuturesOk, FutureOk, Waits, TypeOK
<1>1. /\ pc[p] = "waitUp" /\ pc' = [pc EXCEPT ![p] = "waitCollect"]
      /\ go' = [go EXCEPT ![c] = @ + 1]
      /\ UNCHANGED <<slot, cp, pcbRef, leaked, semVars, isReady, t, exitCode>>
  BY <1>a DEF WaitUp, At, pcbVars
<1>2. /\ pc' \in [Procs -> Labels] /\ slot' \in [Procs -> Slots] /\ leaked' \in [Procs -> Nat]
      /\ pcbRef' \in [Procs -> Int] /\ isReady' \in [Procs -> BOOLEAN]
      /\ t' \in [Procs -> Codes \cup {None}] /\ go' \in [Procs -> Nat]
      /\ exitCode' \in [Procs -> Codes \cup {None}]
  BY <1>0, <1>1 DEF TypeOK, Labels
<1>3. \A x \in Procs : pcbRef'[x] = pcbRef[x] + Others(x)' - Others(x)
  <2> SUFFICES ASSUME NEW x \in Procs PROVE pcbRef'[x] = pcbRef[x] + Others(x)' - Others(x)
    OBVIOUS
  <2>1. CASE x = p
    BY <1>0, <1>1, <2>1 DEF TypeOK, Others, One, Holding
  <2>2. CASE x # p
    <3>1. pc'[x] = pc[x] /\ leaked'[x] = leaked[x] /\ pcbRef'[x] = pcbRef[x] /\ pcbRef[x] \in Nat
      BY <1>0, <1>1, <2>2 DEF TypeOK
    <3>2. Others(x)' = Others(x)
      BY <3>1 DEF Others
    <3> QED
      BY <1>0, <3>1, <3>2
  <2> QED
    BY <2>1, <2>2
<1>4. /\ \A x \in Procs : pc'[x] = "unborn" => pc[x] = "unborn" /\ leaked'[x] = leaked[x]
      /\ \A x \in Procs : /\ pc'[x] = "downSleep" <=> pc[x] = "downSleep"
                          /\ pc[x] = "downSleep" => slot'[x] = slot[x]
      /\ UNCHANGED <<cp, semVars>>
  BY <1>0, <1>1 DEF TypeOK
<1>5. FuturesOk'
  <2> SUFFICES ASSUME NEW x \in Procs PROVE FutureOk(x)'
    BY DEF FuturesOk
  <2>1. FutureOk(x) /\ \A y \in Procs : exitCode[y] # None => exitCode'[y] # None
    BY <1>0, <1>1, ProcessAssumption DEF TypeOK, FuturesOk
  <2>2. CASE x = p
    <3>1. /\ FutureOk(c) /\ cp'[p][slot'[p]] = c /\ exitCode' = exitCode /\ c # None
          /\ pc'[p] \in {"waitUp", "waitCollect", "waitSleep"} /\ t'[p] = exitCode'[p]
          /\ isReady' = isReady
      BY <1>0, <1>a, <1>1, <2>1, <2>2, ProcessAssumption DEF FuturesOk, FutureOk, TypeOK
    <3>2. pc'[p] # "waitSleep" => exitCode[c] # None
      BY <1>0, <1>a, <1>1, <2>1, <2>2, <3>1 DEF FutureOk, TypeOK, Past
    <3>3. go'[p] > 0 => exitCode'[p] # None
      <4>1. CASE p = c
        BY <1>0, <1>1, <2>1, <2>2, <3>1, <3>2, <4>1 DEF FutureOk, TypeOK
      <4>2. CASE p # c
        BY <1>0, <1>1, <2>1, <2>2, <4>2 DEF FutureOk, TypeOK
      <4> QED
        BY <4>1, <4>2
    <3> QED
      BY <2>1, <2>2, <3>1, <3>2, <3>3 DEF FutureOk, Waits, Past
  <2>3. CASE x # p
    <3>1. pc'[x] = pc[x] /\ slot'[x] = slot[x]
      BY <1>0, <1>1, <2>3 DEF TypeOK
    <3>2. pc[x] \in Past => cp[x][slot[x]] \in Procs
      BY <1>0, <2>1 DEF TypeOK, FutureOk, Waits, Past
    <3>3. /\ t'[x] = exitCode'[x] /\ (isReady'[x] => isReady[x])
          /\ go'[x] > 0 => exitCode'[x] # None
      <4>1. exitCode[c] # None
        BY <1>0, <1>1, <1>a DEF FuturesOk, FutureOk, Past
      <4> QED
        BY <1>0, <1>1, <2>1, <2>3, <4>1 DEF TypeOK, FutureOk
    <3> QED
      BY <1>1, <2>1, <3>1, <3>2, <3>3 DEF FutureOk, semVars
  <2> QED
    BY <2>2, <2>3
<1> QED
  BY ONLY ProcessInv, <1>2, <1>3, <1>4, <1>5, TablesQuiet

\* exit() wakes the process that waits, or leaves a permit for it.
LEMMA ExitUpKeeps ==
  ASSUME ProcessInv, NEW p \in Procs, ExitUp(p)
  PROVE  ProcessInv'
<1>0. TypeOK /\ FuturesOk /\ FutureOk(p) /\ \A x \in Procs : Others(x) \in Nat
  BY OthersNat DEF ProcessInv, TypeOK, FuturesOk
<1>1. /\ pc[p] = "exitUp" /\ exitCode[p] # None
      /\ UNCHANGED <<slot, cp, pcbRef, leaked, semVars, isReady, t, exitCode>>
  BY <1>0 DEF ExitUp, pcbVars, FutureOk
<1>2. /\ pc' \in [Procs -> Labels] /\ go' \in [Procs -> Nat]
      /\ \A x \in Procs : \/ pc'[x] = pc[x] /\ x # p
                          \/ pc'[x] = "stopped" /\ x = p
                          \/ pc'[x] = "waitUp" /\ pc[x] = "waitSleep" /\ cp[x][slot[x]] = p
      /\ \A x \in Procs : go'[x] > 0 => go[x] > 0 \/ x = p
  <2>1. CASE \E q \in Procs : /\ IsWaitingFor(q, p)
                              /\ pc' = [pc EXCEPT ![p] = "stopped", ![q] = "waitUp"]
                              /\ UNCHANGED go
    <3>1. PICK q \in Procs : /\ IsWaitingFor(q, p)
                             /\ pc' = [pc EXCEPT ![p] = "stopped", ![q] = "waitUp"]
                             /\ UNCHANGED go
      BY <2>1
    <3>2. q # p /\ pc[q] = "waitSleep" /\ cp[q][slot[q]] = p
      BY <1>1, <3>1 DEF IsWaitingFor
    <3> QED
      BY <1>0, <3>1, <3>2 DEF TypeOK, Labels
  <2>2. CASE pc' = [pc EXCEPT ![p] = "stopped"] /\ go' = [go EXCEPT ![p] = @ + 1]
    BY <1>0, <2>2 DEF TypeOK, Labels
  <2> QED
    BY <2>1, <2>2 DEF ExitUp
<1>3. /\ slot' \in [Procs -> Slots] /\ leaked' \in [Procs -> Nat]
      /\ pcbRef' \in [Procs -> Int] /\ isReady' \in [Procs -> BOOLEAN]
      /\ t' \in [Procs -> Codes \cup {None}] /\ exitCode' \in [Procs -> Codes \cup {None}]
  BY <1>0, <1>1 DEF TypeOK
<1>4. \A x \in Procs : pcbRef'[x] = pcbRef[x] + Others(x)' - Others(x)
  <2> SUFFICES ASSUME NEW x \in Procs PROVE pcbRef'[x] = pcbRef[x] + Others(x)' - Others(x)
    OBVIOUS
  <2>1. Others(x)' = Others(x)
    BY <1>1, <1>2 DEF Others, Holding
  <2>2. pcbRef'[x] = pcbRef[x] /\ pcbRef[x] \in Nat
    BY <1>0, <1>1 DEF TypeOK
  <2> QED
    BY <1>0, <2>1, <2>2
<1>5. /\ \A x \in Procs : pc'[x] = "unborn" => pc[x] = "unborn" /\ leaked'[x] = leaked[x]
      /\ \A x \in Procs : /\ pc'[x] = "downSleep" <=> pc[x] = "downSleep"
                          /\ pc[x] = "downSleep" => slot'[x] = slot[x]
      /\ UNCHANGED <<cp, semVars>>
  BY <1>1, <1>2
<1>6. FuturesOk'
  <2> SUFFICES ASSUME NEW x \in Procs PROVE FutureOk(x)'
    BY DEF FuturesOk
  <2>1. FutureOk(x)
    BY <1>0 DEF FuturesOk
  <2>2. go'[x] > 0 => exitCode'[x] # None
    BY <1>1, <1>2, <2>1 DEF FutureOk
  <2>3. CASE pc'[x] = pc[x] /\ x # p
    BY <1>1, <2>1, <2>2, <2>3 DEF FutureOk, semVars
  <2>4. CASE pc'[x] = "stopped" /\ x = p
    BY <1>1, <2>1, <2>2, <2>4 DEF FutureOk, Waits, Past
  <2>5. CASE pc'[x] = "waitUp" /\ pc[x] = "waitSleep" /\ cp[x][slot[x]] = p
    BY <1>1, <2>1, <2>2, <2>5, ProcessAssumption DEF FutureOk, Waits, Past
  <2> QED
    BY <1>2, <2>3, <2>4, <2>5
<1> QED
  BY ONLY ProcessInv, <1>2, <1>3, <1>4, <1>5, <1>6, TablesQuiet

\* A process gives up child c, which is in slot i of its table.
LEMMA ChildDropped ==
  ASSUME ProcessInv, NEW p \in Procs, NEW i \in Slots, NEW c \in Procs, cp[p][i] = c,
         cp' = [cp EXCEPT ![p][i] = None], UNCHANGED <<leaked, semVars, futureVars>>,
         pc' \in [Procs -> Labels], slot' \in [Procs -> Slots], pcbRef' \in [Procs -> Int],
         pc[p] \in {"user", "waitCollect"}, pc'[p] = "user",
         \A x \in Procs : x # p => pc'[x] = pc[x] /\ slot'[x] = slot[x],
         \A x \in Procs : pcbRef'[x] = pcbRef[x] + Others(x)' - Others(x) - One(x = c)
  PROVE  ProcessInv'
<1>0. /\ TypeOK /\ FuturesOk /\ OneSlot /\ UnbornOk /\ MadeOk /\ SemsCounted /\ PcbsCounted
      /\ SleepersOk
  BY DEF ProcessInv
<1>1. cp \in Tables /\ None \in Things /\ \A x \in Procs : x # None
  BY <1>0, ProcessAssumption DEF TypeOK, Tables, Things
<1>4. /\ cp' \in [Procs -> [Slots -> Procs \cup {None}]] /\ cp'[p][i] = None /\ cp' \in Tables
      /\ \A k \in Slots : k # i => cp'[p][k] = cp[p][k]
      /\ \A x \in Procs : x # p => cp'[x] = cp[x]
      /\ \A x \in Procs : \A j \in Slots : cp'[x][j] = cp[x][j] \/ cp'[x][j] = None
  BY <1>0, <1>1 DEF TypeOK, Tables, Things
<1>2. ASSUME NEW x \in Procs
      PROVE  /\ IsFiniteSet(Holders(cp', x)) /\ pcbRef'[x] = Refs(cp', x) + Others(x)'
             /\ pcbRef'[x] \in Nat
  <2>1. IsFiniteSet(Holders(cp, x)) /\ pcbRef[x] = Refs(cp, x) + Others(x) /\ x # None
    BY <1>0, <1>1 DEF PcbsCounted
  <2>2. /\ IsFiniteSet(Holders(cp', x)) /\ Refs(cp', x) \in Nat /\ Refs(cp, x) \in Nat
        /\ Refs(cp', x) = Refs(cp, x) - One(cp[p][i] = x) + One(cp'[p][i] = x)
    <3>1. /\ cp \in Tables /\ cp' \in Tables /\ p \in Procs /\ i \in Slots
          /\ \A q \in Procs : q # p => cp'[q] = cp[q]
          /\ \A k \in Slots : k # i => cp'[p][k] = cp[p][k]
          /\ IsFiniteSet(Holders(cp, x))
      BY <1>1, <1>4, <2>1
    <3> QED
      BY ONLY <3>1, RefsSlot
  <2>3. Refs(cp', x) = Refs(cp, x) - One(x = c)
    BY <1>4, <2>1, <2>2 DEF One
  <2>4. Others(x) \in Nat
    BY <1>0, OthersNat DEF TypeOK
  <2>5. Others(x)' \in Nat
    <3>1. leaked'[x] \in Nat
      BY <1>0 DEF TypeOK
    <3> QED
      BY <3>1 DEF Others, One
  <2>6. One(x = c) \in Nat /\ pcbRef'[x] = pcbRef[x] + Others(x)' - Others(x) - One(x = c)
    BY DEF One
  <2> QED
    BY ONLY <2>1, <2>2, <2>3, <2>4, <2>5, <2>6
<1>3. PcbsCounted'
  BY <1>2 DEF PcbsCounted, Holders, Refs
<1>5. TypeOK'
  <2>1. pcbRef' \in [Procs -> Nat]
    BY <1>2
  <2> QED
    BY <1>0, <1>4, <2>1 DEF TypeOK, semVars, futureVars
<1>6. SemsCounted' /\ MadeOk'
  <2>1. SemsCounted'
    BY <1>0 DEF SemsCounted, Holders, Refs, semVars
  <2>2. MadeOk'
    BY <1>0 DEF MadeOk, semVars
  <2> QED
    BY <2>1, <2>2
<1>7. OneSlot'
  BY <1>0, <1>1, <1>4 DEF OneSlot
<1>8. UnbornOk'
  <2> SUFFICES ASSUME NEW q \in Procs, pc'[q] = "unborn"
               PROVE  /\ leaked'[q] = 0 /\ sp'[q] = EmptyTable
                      /\ \A x \in Procs : \A j \in Slots : cp'[x][j] # q
    BY DEF UnbornOk
  <2>1. q # p /\ pc[q] = "unborn"
    OBVIOUS
  <2> QED
    BY <1>0, <1>1, <1>4, <2>1 DEF UnbornOk, semVars
<1>9. SleepersOk'
  BY <1>0 DEF SleepersOk, Distinct, Among, semVars
<1>10. FuturesOk'
  <2> SUFFICES ASSUME NEW x \in Procs PROVE FutureOk(x)'
    BY DEF FuturesOk
  <2>1. FutureOk(x)
    BY <1>0 DEF FuturesOk
  <2>2. CASE x = p
    BY <2>1, <2>2 DEF FutureOk, Waits, Past, semVars, futureVars
  <2>3. CASE x # p
    BY <1>4, <2>1, <2>3 DEF FutureOk, semVars, futureVars
  <2> QED
    BY <2>2, <2>3
<1> QED
  BY <1>3, <1>5, <1>6, <1>7, <1>8, <1>9, <1>10 DEF ProcessInv

\* close() on a child.
LEMMA CloseChildKeeps ==
  ASSUME ProcessInv, NEW p \in Procs, NEW i \in Slots, CloseChild(p, i)
  PROVE  ProcessInv'
<1>0. TypeOK /\ \A x \in Procs : Others(x) \in Nat
  BY OthersNat DEF ProcessInv, TypeOK
<1>a. PICK c \in Procs : c = cp[p][i]
  BY <1>0 DEF CloseChild, TypeOK
<1>1. /\ pc[p] = "user" /\ cp' = [cp EXCEPT ![p][i] = None]
      /\ pcbRef' = [pcbRef EXCEPT ![c] = @ - 1]
      /\ UNCHANGED <<pc, slot, leaked, semVars, futureVars>>
  BY <1>a DEF CloseChild, Call
<1>2. /\ pc' \in [Procs -> Labels] /\ slot' \in [Procs -> Slots] /\ pcbRef' \in [Procs -> Int]
      /\ pc[p] \in {"user", "waitCollect"} /\ pc'[p] = "user" /\ cp[p][i] = c
      /\ \A x \in Procs : x # p => pc'[x] = pc[x] /\ slot'[x] = slot[x]
  BY <1>0, <1>a, <1>1 DEF TypeOK
<1>3. \A x \in Procs : pcbRef'[x] = pcbRef[x] + Others(x)' - Others(x) - One(x = c)
  <2> SUFFICES ASSUME NEW x \in Procs
               PROVE  pcbRef'[x] = pcbRef[x] + Others(x)' - Others(x) - One(x = c)
    OBVIOUS
  <2>1. Others(x)' = Others(x)
    BY <1>1 DEF Others
  <2>2. pcbRef'[x] = pcbRef[x] - One(x = c) /\ One(x = c) \in Nat /\ pcbRef[x] \in Nat
    BY <1>0, <1>1 DEF TypeOK, One
  <2> QED
    BY <1>0, <2>1, <2>2
<1> QED
  BY ONLY ProcessInv, p \in Procs, i \in Slots, c \in Procs, <1>1, <1>2, <1>3, ChildDropped

\* wait() takes the exit code, and the child out of the table.
LEMMA WaitCollectKeeps ==
  ASSUME ProcessInv, NEW p \in Procs, WaitCollect(p)
  PROVE  ProcessInv'
<1>0. TypeOK /\ FutureOk(p) /\ \A x \in Procs : Others(x) \in Nat
  BY OthersNat DEF ProcessInv, TypeOK, FuturesOk
<1>a. PICK i \in Slots : i = slot[p]
  BY <1>0 DEF TypeOK
<1>b. PICK c \in Procs : c = cp[p][i]
  BY <1>0, <1>a DEF WaitCollect, At, TypeOK, FutureOk, Waits
<1>1. /\ pc[p] = "waitCollect" /\ cp' = [cp EXCEPT ![p][i] = None]
      /\ pcbRef' = [pcbRef EXCEPT ![p] = @ - 1, ![c] = @ - 1]
      /\ pc' = [pc EXCEPT ![p] = "user"] /\ slot' = [slot EXCEPT ![p] = 0]
      /\ UNCHANGED <<leaked, semVars, futureVars>>
  BY <1>a, <1>b DEF WaitCollect, At
<1>2. 0 \in Slots
  BY ProcessAssumption DEF Slots
<1>3. /\ pc' \in [Procs -> Labels] /\ slot' \in [Procs -> Slots] /\ pcbRef' \in [Procs -> Int]
      /\ pc[p] \in {"user", "waitCollect"} /\ pc'[p] = "user" /\ cp[p][i] = c
      /\ \A x \in Procs : x # p => pc'[x] = pc[x] /\ slot'[x] = slot[x]
  BY <1>0, <1>b, <1>1, <1>2 DEF TypeOK, Labels
<1>4. \A x \in Procs : pcbRef'[x] = pcbRef[x] + Others(x)' - Others(x) - One(x = c)
  <2> SUFFICES ASSUME NEW x \in Procs
               PROVE  pcbRef'[x] = pcbRef[x] + Others(x)' - Others(x) - One(x = c)
    OBVIOUS
  <2>1. Others(x)' = Others(x) - One(x = p)
    <3>1. leaked'[x] = leaked[x] /\ leaked[x] \in Nat
      BY <1>0, <1>1 DEF TypeOK
    <3>2. CASE x = p
      BY <1>1, <1>3, <3>1, <3>2 DEF Others, Holding, One
    <3>3. CASE x # p
      <4>1. Others(x)' = Others(x)
        BY <1>3, <3>1, <3>3 DEF Others
      <4> QED
        BY <1>0, <3>3, <4>1 DEF One
    <3> QED
      BY <3>2, <3>3
  <2>2. pcbRef'[x] = pcbRef[x] - One(x = p) - One(x = c) /\ pcbRef[x] \in Nat
    <3>1. pcbRef[x] \in Nat /\ pcbRef[x] - 1 \in Int
      BY <1>0 DEF TypeOK
    <3>2. p # c
      BY <1>b DEF ProcessInv, OneSlot
    <3> QED
      BY <1>0, <1>1, <3>1, <3>2 DEF TypeOK, One
  <2>3. One(x = c) \in Nat /\ One(x = p) \in Nat
    BY DEF One
  <2> QED
    BY <1>0, <2>1, <2>2, <2>3
<1>5. cp' = [cp EXCEPT ![p][i] = None] /\ UNCHANGED <<leaked, semVars, futureVars>>
  BY <1>1
<1> QED
  BY ONLY ProcessInv, p \in Procs, i \in Slots, c \in Procs, <1>3, <1>4, <1>5, ChildDropped

\* What nobody has is not counted.
LEMMA NoRefs ==
  ASSUME NEW tb, NEW x, \A p \in Procs : \A i \in Slots : tb[p][i] # x
  PROVE  Refs(tb, x) = 0
<1>1. Holders(tb, x) = {}
  BY DEF Holders
<1> QED
  BY <1>1, FS_EmptySet DEF Refs, Holders

\* There are no references to a PCB that does not exist.
LEMMA UnbornZero ==
  ASSUME ProcessInv, NEW q \in Procs, pc[q] = "unborn"
  PROVE  Refs(cp, q) = 0 /\ Others(q) = 0 /\ pcbRef[q] = 0 /\ leaked[q] = 0
<1>1. Refs(cp, q) = 0 /\ leaked[q] = 0
  BY NoRefs DEF ProcessInv, UnbornOk
<1>2. Others(q) = 0
  BY <1>1 DEF Others, One, Holding
<1> QED
  BY <1>1, <1>2 DEF ProcessInv, PcbsCounted

\* fork() finds no room for the child.
LEMMA ForkFailsKeeps ==
  ASSUME ProcessInv, NEW p \in Procs, NEW q \in Procs, ForkFails(p, q)
  PROVE  ProcessInv'
<1>0. TypeOK /\ FuturesOk /\ \A x \in Procs : Others(x) \in Nat
  BY OthersNat DEF ProcessInv, TypeOK
<1>1. /\ pc[q] = "unborn" /\ pc' = [pc EXCEPT ![q] = "lost"] /\ pcbRef' = [pcbRef EXCEPT ![q] = 1]
      /\ UNCHANGED <<slot, cp, leaked, semVars, isReady, t, go, exitCode>>
  BY DEF ForkFails, futureVars
<1>2. /\ pc' \in [Procs -> Labels] /\ slot' \in [Procs -> Slots] /\ leaked' \in [Procs -> Nat]
      /\ pcbRef' \in [Procs -> Int] /\ isReady' \in [Procs -> BOOLEAN]
      /\ t' \in [Procs -> Codes \cup {None}] /\ go' \in [Procs -> Nat]
      /\ exitCode' \in [Procs -> Codes \cup {None}]
  BY <1>0, <1>1 DEF TypeOK, Labels
<1>3. \A x \in Procs : pcbRef'[x] = pcbRef[x] + Others(x)' - Others(x)
  <2> SUFFICES ASSUME NEW x \in Procs PROVE pcbRef'[x] = pcbRef[x] + Others(x)' - Others(x)
    OBVIOUS
  <2>1. CASE x = q
    <3>1. Others(q) = 0 /\ pcbRef[q] = 0 /\ leaked'[q] = 0 /\ pc'[q] = "lost" /\ pcbRef'[q] = 1
      BY <1>0, <1>1, UnbornZero DEF TypeOK
    <3>2. Others(q)' = 1
      BY <3>1 DEF Others, One, Holding
    <3> QED
      BY <2>1, <3>1, <3>2
  <2>2. CASE x # q
    <3>1. pc'[x] = pc[x] /\ leaked'[x] = leaked[x] /\ pcbRef'[x] = pcbRef[x] /\ pcbRef[x] \in Nat
      BY <1>0, <1>1, <2>2 DEF TypeOK
    <3>2. Others(x)' = Others(x)
      BY <3>1 DEF Others
    <3> QED
      BY <1>0, <3>1, <3>2
  <2> QED
    BY <2>1, <2>2
<1>4. /\ \A x \in Procs : pc'[x] = "unborn" => pc[x] = "unborn" /\ leaked'[x] = leaked[x]
      /\ \A x \in Procs : /\ pc'[x] = "downSleep" <=> pc[x] = "downSleep"
                          /\ pc[x] = "downSleep" => slot'[x] = slot[x]
      /\ UNCHANGED <<cp, semVars>>
  BY <1>0, <1>1 DEF TypeOK
<1>5. FuturesOk'
  <2> SUFFICES ASSUME NEW x \in Procs PROVE FutureOk(x)'
    BY DEF FuturesOk
  <2>1. FutureOk(x)
    BY <1>0 DEF FuturesOk
  <2>2. CASE x = q
    BY <1>0, <1>1, <2>1, <2>2 DEF TypeOK, FutureOk, Waits, Past
  <2>3. CASE x # q
    BY <1>0, <1>1, <2>1, <2>3 DEF TypeOK, FutureOk, semVars
  <2> QED
    BY <2>2, <2>3
<1> QED
  BY ONLY ProcessInv, <1>2, <1>3, <1>4, <1>5, TablesQuiet

\* fork() gives the child a slot of its parent's table, and its parent's semaphores.
LEMMA ForkKeeps ==
  ASSUME ProcessInv, NEW p \in Procs, NEW q \in Procs, NEW i \in Slots, Fork(p, q, i)
  PROVE  ProcessInv'
<1>0. /\ TypeOK /\ FuturesOk /\ OneSlot /\ UnbornOk /\ MadeOk /\ SemsCounted /\ PcbsCounted
      /\ SleepersOk
  BY DEF ProcessInv
<1>1. /\ pc[p] = "user" /\ pc[q] = "unborn" /\ p # q /\ cp[p][i] = None
      /\ pc' = [pc EXCEPT ![q] = "user"] /\ cp' = [cp EXCEPT ![p][i] = q]
      /\ pcbRef' = [pcbRef EXCEPT ![q] = 2] /\ sp' = [sp EXCEPT ![q] = sp[p]]
      /\ semRef' = [s \in Sems |-> semRef[s] + Occurrences(sp[p], s)]
      /\ UNCHANGED <<slot, leaked, made, count, waiting, isReady, t, go, exitCode>>
  BY <1>0 DEF Fork, ForkChild, IsFirstFree, AddAll, futureVars, TypeOK
<1>2. /\ cp \in Tables /\ sp \in Tables /\ cp' \in Tables /\ sp' \in Tables
      /\ cp' \in [Procs -> [Slots -> Procs \cup {None}]]
      /\ sp' \in [Procs -> [Slots -> Sems \cup {None}]]
  BY <1>0, <1>1 DEF TypeOK, Tables, Things
<1>3. /\ cp'[p][i] = q /\ \A x \in Procs : x # p => cp'[x] = cp[x]
      /\ \A k \in Slots : k # i => cp'[p][k] = cp[p][k]
      /\ sp'[q] = sp[p] /\ \A x \in Procs : x # q => sp'[x] = sp[x]
      /\ pc'[q] = "user" /\ \A x \in Procs : x # q => pc'[x] = pc[x]
  BY <1>0, <1>1 DEF TypeOK
<1>4. None \notin Procs /\ None \notin Sems
  BY ProcessAssumption
<1>5. ASSUME NEW x \in Procs
      PROVE  /\ IsFiniteSet(Holders(cp', x)) /\ pcbRef'[x] = Refs(cp', x) + Others(x)'
             /\ pcbRef'[x] \in Nat
  <2>1. IsFiniteSet(Holders(cp, x)) /\ pcbRef[x] = Refs(cp, x) + Others(x) /\ pcbRef[x] \in Nat
    BY <1>0 DEF PcbsCounted, TypeOK
  <2>2. /\ cp \in Tables /\ cp' \in Tables /\ p \in Procs /\ i \in Slots
        /\ \A y \in Procs : y # p => cp'[y] = cp[y]
        /\ \A k \in Slots : k # i => cp'[p][k] = cp[p][k]
    BY <1>2, <1>3
  <2>3. /\ IsFiniteSet(Holders(cp', x)) /\ Refs(cp', x) \in Nat /\ Refs(cp, x) \in Nat
        /\ Refs(cp', x) = Refs(cp, x) - One(cp[p][i] = x) + One(cp'[p][i] = x)
    BY ONLY <2>1, <2>2, RefsSlot
  <2>4. Refs(cp', x) = Refs(cp, x) + One(x = q)
    BY <1>1, <1>3, <1>4, <2>3 DEF One
  <2>5. CASE x = q
    <3>1. Refs(cp, q) = 0 /\ leaked'[q] = 0 /\ pcbRef'[q] = 2
      BY <1>0, <1>1, UnbornZero DEF TypeOK
    <3>2. Others(q)' = 1
      BY <1>3, <3>1 DEF Others, One, Holding
    <3> QED
      BY <2>3, <2>4, <2>5, <3>1, <3>2 DEF One
  <2>6. CASE x # q
    <3>1. pcbRef'[x] = pcbRef[x] /\ Others(x)' = Others(x)
      BY <1>0, <1>1, <1>3, <2>6 DEF TypeOK, Others
    <3> QED
      BY <2>1, <2>3, <2>4, <2>6, <3>1 DEF One
  <2> QED
    BY <2>5, <2>6
<1>6. ASSUME NEW s \in Sems
      PROVE  IsFiniteSet(Holders(sp', s)) /\ semRef'[s] = Refs(sp', s) /\ semRef'[s] \in Nat
  <2>1. IsFiniteSet(Holders(sp, s)) /\ semRef[s] = Refs(sp, s) /\ semRef[s] \in Nat
    BY <1>0 DEF SemsCounted, TypeOK
  <2>2. sp \in Tables /\ sp' \in Tables /\ q \in Procs /\ \A x \in Procs : x # q => sp'[x] = sp[x]
    BY <1>2, <1>3
  <2>3. /\ IsFiniteSet(Holders(sp', s)) /\ Refs(sp', s) \in Nat
        /\ Refs(sp', s) = Refs(sp, s) - Occurrences(sp[q], s) + Occurrences(sp'[q], s)
    BY ONLY <2>1, <2>2, RefsRow
  <2>4. DOMAIN sp[q] = Slots /\ \A k \in Slots : sp[q][k] # s
    BY <1>0, <1>1, <1>4 DEF UnbornOk, EmptyTable
  <2>5. Occurrences(sp[q], s) = 0
    BY ONLY <2>4, OccurrencesAre
  <2>6. DOMAIN sp[p] = Slots
    BY <1>0 DEF TypeOK
  <2>7. Occurrences(sp[p], s) \in Nat
    BY ONLY <2>6, OccurrencesAre
  <2>8. semRef'[s] = semRef[s] + Occurrences(sp[p], s) /\ sp'[q] = sp[p]
    BY <1>1, <1>3
  <2> QED
    BY <2>1, <2>3, <2>5, <2>7, <2>8
<1>7. PcbsCounted' /\ SemsCounted'
  BY <1>5, <1>6 DEF PcbsCounted, SemsCounted, Holders, Refs
<1>8. TypeOK'
  <2>1. pcbRef' \in [Procs -> Nat] /\ semRef' \in [Sems -> Nat]
    BY <1>0, <1>1, <1>5, <1>6 DEF TypeOK
  <2> QED
    BY <1>0, <1>1, <1>2, <2>1 DEF TypeOK, Labels
<1>9. \A x \in Procs : \A k \in Slots : cp[x][k] # q
  BY <1>0, <1>1 DEF UnbornOk
<1>10. OneSlot'
  <2> SUFFICES ASSUME NEW x \in Procs, NEW y \in Procs, NEW j \in Slots, NEW k \in Slots
               PROVE  /\ cp'[x][j] = cp'[y][k] /\ cp'[x][j] # None => x = y /\ j = k
                      /\ cp'[x][j] # x
    BY DEF OneSlot
  <2>1. \A z \in Procs : \A l \in Slots : cp'[z][l] = cp[z][l] \/ (z = p /\ l = i /\ cp'[z][l] = q)
    BY <1>3
  <2> QED
    BY <1>0, <1>1, <1>9, <2>1 DEF OneSlot
<1>11. UnbornOk'
  <2> SUFFICES ASSUME NEW x \in Procs, pc'[x] = "unborn"
               PROVE  /\ leaked'[x] = 0 /\ sp'[x] = EmptyTable
                      /\ \A y \in Procs : \A j \in Slots : cp'[y][j] # x
    BY DEF UnbornOk
  <2>1. x # q /\ pc[x] = "unborn"
    BY <1>3
  <2> QED
    BY <1>0, <1>1, <1>3, <2>1 DEF UnbornOk
<1>12. MadeOk'
  BY <1>0, <1>1, <1>3 DEF MadeOk
<1>13. SleepersOk'
  BY <1>0, <1>1, <1>3 DEF SleepersOk, Distinct, Among
<1>14. FuturesOk'
  <2> SUFFICES ASSUME NEW x \in Procs PROVE FutureOk(x)'
    BY DEF FuturesOk
  <2>1. FutureOk(x)
    BY <1>0 DEF FuturesOk
  <2>2. CASE x \in {p, q}
    BY <1>1, <1>3, <2>1, <2>2 DEF FutureOk, Waits, Past
  <2>3. CASE x \notin {p, q}
    BY <1>1, <1>3, <2>1, <2>3 DEF FutureOk
  <2> QED
    BY <2>2, <2>3
<1> QED
  BY <1>7, <1>8, <1>10, <1>11, <1>12, <1>13, <1>14 DEF ProcessInv

\* execl() empties both tables; its own reference to the PCB is never dropped.
LEMMA ExeclKeeps ==
  ASSUME ProcessInv, NEW p \in Procs, NEW found \in BOOLEAN, Execl(p, found)
  PROVE  ProcessInv'
<1>0. /\ TypeOK /\ FuturesOk /\ OneSlot /\ UnbornOk /\ MadeOk /\ SemsCounted /\ PcbsCounted
      /\ SleepersOk
  BY DEF ProcessInv
<1>1. /\ pc[p] = "user" /\ sp' = [sp EXCEPT ![p] = EmptyTable] /\ cp' = [cp EXCEPT ![p] = EmptyTable]
      /\ semRef' = [s \in Sems |-> semRef[s] - Occurrences(sp[p], s)]
      /\ pcbRef' = [DropAll(pcbRef, cp[p]) EXCEPT ![p] = @ + 1]
      /\ leaked' = [leaked EXCEPT ![p] = @ + 1]
      /\ UNCHANGED <<pc, slot, made, count, waiting, isReady, t, go, exitCode>>
  BY <1>0 DEF Execl, Call, DropAll, futureVars, TypeOK
<1>2. /\ cp \in Tables /\ sp \in Tables /\ cp' \in Tables /\ sp' \in Tables
      /\ cp' \in [Procs -> [Slots -> Procs \cup {None}]]
      /\ sp' \in [Procs -> [Slots -> Sems \cup {None}]]
  BY <1>0, <1>1 DEF TypeOK, Tables, Things, EmptyTable
<1>3. /\ \A x \in Procs : x # p => cp'[x] = cp[x] /\ sp'[x] = sp[x]
      /\ \A k \in Slots : cp'[p][k] = None /\ sp'[p][k] = None
      /\ DOMAIN cp'[p] = Slots /\ DOMAIN sp'[p] = Slots /\ DOMAIN cp[p] = Slots /\ DOMAIN sp[p] = Slots
  BY <1>0, <1>1 DEF TypeOK, EmptyTable
<1>4. None \notin Procs /\ None \notin Sems
  BY ProcessAssumption
<1>5. ASSUME NEW x \in Procs
      PROVE  /\ IsFiniteSet(Holders(cp', x)) /\ pcbRef'[x] = Refs(cp', x) + Others(x)'
             /\ pcbRef'[x] \in Nat
  <2>1. IsFiniteSet(Holders(cp, x)) /\ pcbRef[x] = Refs(cp, x) + Others(x) /\ pcbRef[x] \in Nat
    BY <1>0 DEF PcbsCounted, TypeOK
  <2>2. cp \in Tables /\ cp' \in Tables /\ p \in Procs /\ \A y \in Procs : y # p => cp'[y] = cp[y]
    BY <1>2, <1>3
  <2>3. /\ IsFiniteSet(Holders(cp', x)) /\ Refs(cp', x) \in Nat /\ Refs(cp, x) \in Nat
        /\ Refs(cp', x) = Refs(cp, x) - Occurrences(cp[p], x) + Occurrences(cp'[p], x)
    BY ONLY <2>1, <2>2, RefsRow
  <2>4. Occurrences(cp'[p], x) = 0 /\ Occurrences(cp[p], x) \in Nat
    <3>1. DOMAIN cp'[p] = Slots /\ DOMAIN cp[p] = Slots /\ \A k \in Slots : cp'[p][k] # x
      BY <1>3, <1>4
    <3> QED
      BY ONLY <3>1, OccurrencesAre
  <2>5. pcbRef'[x] = pcbRef[x] - Occurrences(cp[p], x) + One(x = p)
    <3> DEFINE D == DropAll(pcbRef, cp[p])
    <3>1. D = [y \in Procs |-> pcbRef[y] - Occurrences(cp[p], y)]
      BY <1>0 DEF DropAll, TypeOK
    <3>2. DOMAIN D = Procs /\ D[x] = pcbRef[x] - Occurrences(cp[p], x) /\ D[x] \in Int
      BY <2>1, <2>4, <3>1
    <3>3. pcbRef' = [D EXCEPT ![p] = D[p] + 1]
      BY <1>1
    <3> HIDE DEF D
    <3>4. pcbRef'[x] = IF x = p THEN D[x] + 1 ELSE D[x]
      BY <3>2, <3>3
    <3> QED
      BY <3>2, <3>4 DEF One
  <2>6. Others(x)' = Others(x) + One(x = p) /\ Others(x) \in Nat /\ One(x = p) \in Nat
    <3>1. Others(x) \in Nat /\ One(x = p) \in Nat
      BY <1>0, OthersNat DEF TypeOK, One
    <3>2. leaked'[x] = leaked[x] + One(x = p) /\ leaked[x] \in Nat
      BY <1>0, <1>1 DEF TypeOK, One
    <3>3. pc'[x] = pc[x]
      BY <1>1
    <3> DEFINE a == One(pc[x] \notin {"unborn", "deleted"})
               b == One(pc[x] \in Holding)
    <3>4. a \in Nat /\ b \in Nat /\ Others(x) = a + b + leaked[x] /\ Others(x)' = a + b + leaked'[x]
      BY <3>3 DEF One, Others
    <3> HIDE DEF a, b
    <3> QED
      BY ONLY <3>1, <3>2, <3>4
  <2> QED
    BY ONLY <2>1, <2>3, <2>4, <2>5, <2>6
<1>6. ASSUME NEW s \in Sems
      PROVE  IsFiniteSet(Holders(sp', s)) /\ semRef'[s] = Refs(sp', s) /\ semRef'[s] \in Nat
  <2>1. IsFiniteSet(Holders(sp, s)) /\ semRef[s] = Refs(sp, s) /\ semRef[s] \in Nat
    BY <1>0 DEF SemsCounted, TypeOK
  <2>2. sp \in Tables /\ sp' \in Tables /\ p \in Procs /\ \A x \in Procs : x # p => sp'[x] = sp[x]
    BY <1>2, <1>3
  <2>3. /\ IsFiniteSet(Holders(sp', s)) /\ Refs(sp', s) \in Nat
        /\ Refs(sp', s) = Refs(sp, s) - Occurrences(sp[p], s) + Occurrences(sp'[p], s)
    BY ONLY <2>1, <2>2, RefsRow
  <2>4. Occurrences(sp'[p], s) = 0 /\ Occurrences(sp[p], s) \in Nat
    <3>1. DOMAIN sp'[p] = Slots /\ DOMAIN sp[p] = Slots /\ \A k \in Slots : sp'[p][k] # s
      BY <1>3, <1>4
    <3> QED
      BY ONLY <3>1, OccurrencesAre
  <2>5. semRef'[s] = semRef[s] - Occurrences(sp[p], s)
    BY <1>1
  <2> QED
    BY ONLY <2>1, <2>3, <2>4, <2>5
<1>7. PcbsCounted' /\ SemsCounted'
  BY <1>5, <1>6 DEF PcbsCounted, SemsCounted, Holders, Refs
<1>8. TypeOK'
  <2>1. DOMAIN pcbRef' = Procs /\ pcbRef' = [x \in Procs |-> pcbRef'[x]]
    BY <1>0, <1>1 DEF TypeOK, DropAll
  <2>2. pcbRef' \in [Procs -> Nat] /\ semRef' \in [Sems -> Nat]
    BY <1>1, <1>5, <1>6, <2>1
  <2> QED
    BY <1>0, <1>1, <1>2, <2>2 DEF TypeOK
<1>9. \A x \in Procs : \A k \in Slots : /\ cp'[x][k] = cp[x][k] \/ cp'[x][k] = None
                                        /\ sp'[x][k] = sp[x][k] \/ sp'[x][k] = None
  BY <1>3
<1>10. OneSlot'
  BY <1>0, <1>3, <1>4 DEF OneSlot
<1>11. UnbornOk' /\ MadeOk'
  <2>1. UnbornOk'
    <3> SUFFICES ASSUME NEW x \in Procs, pc[x] = "unborn"
                 PROVE  /\ leaked'[x] = 0 /\ sp'[x] = EmptyTable
                        /\ \A y \in Procs : \A j \in Slots : cp'[y][j] # x
      BY <1>1 DEF UnbornOk
    <3>1. x # p /\ leaked'[x] = leaked[x]
      BY <1>0, <1>1 DEF TypeOK
    <3> QED
      BY <1>0, <1>3, <1>4, <1>9, <3>1 DEF UnbornOk
  <2>2. MadeOk'
    BY <1>0, <1>1, <1>9 DEF MadeOk
  <2> QED
    BY <2>1, <2>2
<1>12. SleepersOk'
  BY <1>0, <1>1, <1>3 DEF SleepersOk, Distinct, Among
<1>13. FuturesOk'
  <2> SUFFICES ASSUME NEW x \in Procs PROVE FutureOk(x)'
    BY DEF FuturesOk
  <2>1. FutureOk(x)
    BY <1>0 DEF FuturesOk
  <2>2. CASE x = p
    BY <1>1, <2>1, <2>2 DEF FutureOk, Waits, Past
  <2>3. CASE x # p
    BY <1>1, <1>3, <2>1, <2>3 DEF FutureOk
  <2> QED
    BY <2>2, <2>3
<1> QED
  BY <1>7, <1>8, <1>10, <1>11, <1>12, <1>13 DEF ProcessInv

\* A process changes one slot of its table of semaphores.
LEMMA SemSlot ==
  ASSUME ProcessInv, NEW p \in Procs, NEW i \in Slots, NEW v \in Sems \cup {None},
         sp' \in [Procs -> [Slots -> Sems \cup {None}]], sp'[p][i] = v,
         \A x \in Procs : x # p => sp'[x] = sp[x],
         \A k \in Slots : k # i => sp'[p][k] = sp[p][k], pc[p] = "user",
         UNCHANGED <<pc, slot, pcbVars, waiting, futureVars>>,
         made \subseteq made', made' \subseteq Sems, v # None => v \in made',
         count' \in [Sems -> Nat], semRef' \in [Sems -> Int],
         \A s \in Sems : semRef'[s] = semRef[s] - One(sp[p][i] = s) + One(v = s)
  PROVE  ProcessInv'
<1>0. /\ TypeOK /\ FuturesOk /\ OneSlot /\ UnbornOk /\ MadeOk /\ SemsCounted /\ PcbsCounted
      /\ SleepersOk
  BY DEF ProcessInv
<1>1. UNCHANGED <<pc, slot, cp, pcbRef, leaked, waiting, isReady, t, go, exitCode>>
  BY DEF pcbVars, futureVars
<1>2. sp \in Tables /\ sp' \in Tables /\ sp' \in [Procs -> [Slots -> Sems \cup {None}]]
  BY <1>0 DEF TypeOK, Tables, Things
<1>3. /\ sp'[p][i] = v /\ \A x \in Procs : x # p => sp'[x] = sp[x]
      /\ \A k \in Slots : k # i => sp'[p][k] = sp[p][k]
  BY <1>0 DEF TypeOK
<1>4. ASSUME NEW s \in Sems
      PROVE  IsFiniteSet(Holders(sp', s)) /\ semRef'[s] = Refs(sp', s) /\ semRef'[s] \in Nat
  <2>1. IsFiniteSet(Holders(sp, s)) /\ semRef[s] = Refs(sp, s)
    BY <1>0 DEF SemsCounted
  <2>2. /\ sp \in Tables /\ sp' \in Tables /\ p \in Procs /\ i \in Slots
        /\ \A y \in Procs : y # p => sp'[y] = sp[y]
        /\ \A k \in Slots : k # i => sp'[p][k] = sp[p][k]
    BY <1>2, <1>3
  <2>3. /\ IsFiniteSet(Holders(sp', s)) /\ Refs(sp', s) \in Nat
        /\ Refs(sp', s) = Refs(sp, s) - One(sp[p][i] = s) + One(sp'[p][i] = s)
    BY ONLY <2>1, <2>2, RefsSlot
  <2> QED
    BY <1>3, <2>1, <2>3
<1>5. PcbsCounted' /\ SemsCounted'
  <2>1. SemsCounted'
    BY <1>4 DEF SemsCounted, Holders, Refs
  <2>2. PcbsCounted'
    BY <1>0, <1>1 DEF PcbsCounted, Holders, Refs, Others
  <2> QED
    BY <2>1, <2>2
<1>6. TypeOK'
  <2>1. semRef' \in [Sems -> Nat]
    BY <1>4
  <2> QED
    BY <1>0, <1>1, <1>2, <2>1 DEF TypeOK
<1>7. OneSlot'
  BY <1>0, <1>1 DEF OneSlot
<1>8. UnbornOk'
  BY <1>0, <1>1, <1>3 DEF UnbornOk
<1>9. MadeOk'
  <2> SUFFICES ASSUME NEW x \in Procs, NEW k \in Slots, sp'[x][k] # None
               PROVE  sp'[x][k] \in made'
    BY DEF MadeOk
  <2>1. sp'[x][k] = v \/ sp'[x][k] = sp[x][k]
    BY <1>3
  <2> QED
    BY <1>0, <2>1 DEF MadeOk
<1>10. SleepersOk'
  BY <1>0, <1>1, <1>3 DEF SleepersOk, Distinct, Among
<1>11. FuturesOk'
  <2> SUFFICES ASSUME NEW x \in Procs PROVE FutureOk(x)'
    BY DEF FuturesOk
  <2>1. FutureOk(x)
    BY <1>0 DEF FuturesOk
  <2>2. CASE x = p
    BY <1>1, <2>1, <2>2 DEF FutureOk, Waits, Past
  <2>3. CASE x # p
    BY <1>1, <1>3, <2>1, <2>3 DEF FutureOk
  <2> QED
    BY <2>2, <2>3
<1> QED
  BY <1>5, <1>6, <1>7, <1>8, <1>9, <1>10, <1>11 DEF ProcessInv

\* sem() makes a semaphore.
LEMMA SemKeeps ==
  ASSUME ProcessInv, NEW p \in Procs, NEW s \in Sems, NEW i \in Slots, NEW n \in 0..MaxCount,
         Sem(p, s, i, n)
  PROVE  ProcessInv'
<1>1. /\ pc[p] = "user" /\ UNCHANGED <<pc, slot, pcbVars, waiting, futureVars>> /\ s \notin made
      /\ sp[p][i] = None /\ sp' = [sp EXCEPT ![p][i] = s] /\ semRef' = [semRef EXCEPT ![s] = 1]
      /\ made' = made \cup {s} /\ count' = [count EXCEPT ![s] = n]
  BY DEF Sem, Call, IsFirstFree
<1>2. semRef[s] = 0
  <2>1. \A x \in Procs : \A k \in Slots : sp[x][k] # s
    BY <1>1, ProcessAssumption DEF ProcessInv, MadeOk
  <2>2. Refs(sp, s) = 0
    BY <2>1, NoRefs
  <2> QED
    BY <2>2 DEF ProcessInv, SemsCounted
<1>3. /\ s \in Sems \cup {None} /\ s # None /\ s \in made' /\ made' \subseteq Sems
      /\ made \subseteq made' /\ count' \in [Sems -> Nat] /\ semRef' \in [Sems -> Int]
  BY <1>1, ProcessAssumption DEF ProcessInv, TypeOK
<1>4. \A x \in Sems : semRef'[x] = semRef[x] - One(sp[p][i] = x) + One(s = x)
  <2> SUFFICES ASSUME NEW x \in Sems PROVE semRef'[x] = semRef[x] - One(sp[p][i] = x) + One(s = x)
    OBVIOUS
  <2>1. sp[p][i] # x /\ semRef[x] \in Nat
    BY <1>1, ProcessAssumption DEF ProcessInv, TypeOK
  <2>2. semRef'[x] = IF x = s THEN 1 ELSE semRef[x]
    BY <1>1 DEF ProcessInv, TypeOK
  <2> QED
    BY <1>2, <2>1, <2>2 DEF One
<1>5. /\ sp' \in [Procs -> [Slots -> Sems \cup {None}]] /\ sp'[p][i] = s
      /\ \A x \in Procs : x # p => sp'[x] = sp[x]
      /\ \A k \in Slots : k # i => sp'[p][k] = sp[p][k]
      /\ pc[p] = "user" /\ UNCHANGED <<pc, slot, pcbVars, waiting, futureVars>>
  BY <1>1 DEF ProcessInv, TypeOK
<1> QED
  BY ONLY ProcessInv, p \in Procs, i \in Slots, <1>3, <1>4, <1>5, SemSlot

\* close() on a semaphore.
LEMMA CloseSemKeeps ==
  ASSUME ProcessInv, NEW p \in Procs, NEW i \in Slots, CloseSem(p, i)
  PROVE  ProcessInv'
<1>a. PICK s \in Sems : s = sp[p][i]
  BY DEF CloseSem, ProcessInv, TypeOK
<1>1. /\ pc[p] = "user" /\ UNCHANGED <<pc, slot, pcbVars, waiting, futureVars>>
      /\ sp' = [sp EXCEPT ![p][i] = None] /\ semRef' = [semRef EXCEPT ![s] = @ - 1]
      /\ made' = made /\ count' = count
  BY <1>a DEF CloseSem, Call
<1>3. /\ None \in Sems \cup {None} /\ None \notin Sems /\ made' \subseteq Sems
      /\ made \subseteq made' /\ count' \in [Sems -> Nat] /\ semRef' \in [Sems -> Int]
      /\ (None # None => None \in made')
  BY <1>1, ProcessAssumption DEF ProcessInv, TypeOK
<1>4. \A x \in Sems : semRef'[x] = semRef[x] - One(sp[p][i] = x) + One(None = x)
  <2> SUFFICES ASSUME NEW x \in Sems PROVE semRef'[x] = semRef[x] - One(sp[p][i] = x) + One(None = x)
    OBVIOUS
  <2>1. semRef[x] \in Nat /\ None # x
    BY <1>3 DEF ProcessInv, TypeOK
  <2>2. semRef'[x] = IF x = s THEN semRef[x] - 1 ELSE semRef[x]
    BY <1>1 DEF ProcessInv, TypeOK
  <2> QED
    BY <1>a, <2>1, <2>2 DEF One
<1>5. /\ sp' \in [Procs -> [Slots -> Sems \cup {None}]] /\ sp'[p][i] = None
      /\ \A x \in Procs : x # p => sp'[x] = sp[x]
      /\ \A k \in Slots : k # i => sp'[p][k] = sp[p][k]
      /\ pc[p] = "user" /\ UNCHANGED <<pc, slot, pcbVars, waiting, futureVars>>
  BY <1>1 DEF ProcessInv, TypeOK
<1> QED
  BY ONLY ProcessInv, p \in Procs, i \in Slots, <1>3, <1>4, <1>5, SemSlot

\* What sem_up and sem_down do to a thread that changes its place in a queue, or to a count.
LEMMA SemaphoreStep ==
  ASSUME ProcessInv, NEW x \in Procs, NEW l \in Labels, NEW k \in Slots, NEW s \in Sems, NEW w,
         UNCHANGED <<cp, leaked, sp, semRef, made, futureVars>>,
         count' \in [Sems -> Nat], pc[x] \in {"user", "downSleep"}, l \in {"user", "downSleep"},
         l = "downSleep" => sp[x][k] = s,
         pc[x] = "downSleep" /\ l # pc[x] => sp[x][slot[x]] = s,
         l = pc[x] => k = slot[x],
         pc' = [pc EXCEPT ![x] = l], slot' = [slot EXCEPT ![x] = k],
         pcbRef' \in [Procs -> Int], \A y \in Procs : y # x => pcbRef'[y] = pcbRef[y],
         pcbRef'[x] = pcbRef[x] + One(l \in Holding) - One(pc[x] \in Holding),
         waiting' = [waiting EXCEPT ![s] = w], w \in Seq(Procs), Distinct(w),
         \A y \in Procs : y # x => (Among(w, y) <=> Among(waiting[s], y)),
         Among(w, x) <=> l = "downSleep" /\ sp[x][k] = s
  PROVE  ProcessInv'
<1>0. TypeOK /\ FuturesOk /\ SleepersOk /\ \A y \in Procs : Others(y) \in Nat
  BY OthersNat DEF ProcessInv, TypeOK
<1>1. UNCHANGED <<cp, sp, semRef, made, leaked, isReady, t, go, exitCode>>
  BY DEF futureVars
<1>2. /\ pc' \in [Procs -> Labels] /\ slot' \in [Procs -> Slots] /\ leaked' \in [Procs -> Nat]
      /\ isReady' \in [Procs -> BOOLEAN] /\ waiting' \in [Sems -> Seq(Procs)]
      /\ t' \in [Procs -> Codes \cup {None}] /\ go' \in [Procs -> Nat]
      /\ exitCode' \in [Procs -> Codes \cup {None}]
  BY <1>0, <1>1 DEF TypeOK
<1>3. /\ pc'[x] = l /\ slot'[x] = k /\ waiting'[s] = w
      /\ \A y \in Procs : y # x => pc'[y] = pc[y] /\ slot'[y] = slot[y]
      /\ \A r \in Sems : r # s => waiting'[r] = waiting[r]
  BY <1>0 DEF TypeOK
<1>4. pcbRef' \in [Procs -> Int] /\ \A y \in Procs : pcbRef'[y] = pcbRef[y] + Others(y)' - Others(y)
  <2>0. One(l \in Holding) \in Nat /\ One(pc[x] \in Holding) \in Nat
    BY DEF One
  <2>1. pcbRef' \in [Procs -> Int]
    OBVIOUS
  <2> SUFFICES ASSUME NEW y \in Procs PROVE pcbRef'[y] = pcbRef[y] + Others(y)' - Others(y)
    BY <2>1
  <2>2. CASE y = x
    <3>1. Others(x) = 1 + One(pc[x] \in Holding) + leaked[x] /\ Others(x)' = 1 + One(l \in Holding) + leaked[x]
      BY <1>1, <1>3 DEF Others, One
    <3>2. leaked[x] \in Nat /\ pcbRef[x] \in Nat
          /\ pcbRef'[x] = pcbRef[x] + One(l \in Holding) - One(pc[x] \in Holding)
      BY <1>0 DEF TypeOK
    <3> QED
      BY <2>0, <2>2, <3>1, <3>2
  <2>3. CASE y # x
    <3>1. pc'[y] = pc[y] /\ leaked'[y] = leaked[y] /\ pcbRef'[y] = pcbRef[y] /\ pcbRef[y] \in Nat
      BY <1>0, <1>1, <1>3, <2>3 DEF TypeOK
    <3>2. Others(y)' = Others(y)
      BY <3>1 DEF Others
    <3> QED
      BY <1>0, <3>1, <3>2
  <2> QED
    BY <2>2, <2>3
<1>5. \A y \in Procs : pc'[y] = "unborn" => pc[y] = "unborn" /\ leaked'[y] = leaked[y]
  BY <1>1, <1>3
<1>6. SleepersOk'
  <2> SUFFICES ASSUME NEW r \in Sems
               PROVE  /\ Distinct(waiting'[r])
                      /\ \A y \in Procs : Among(waiting'[r], y) <=>
                                          pc'[y] = "downSleep" /\ sp[y][slot'[y]] = r
    BY <1>1 DEF SleepersOk, Distinct, Among
  <2>1. /\ Distinct(waiting[r])
        /\ \A y \in Procs : Among(waiting[r], y) <=> pc[y] = "downSleep" /\ sp[y][slot[y]] = r
    BY <1>0 DEF SleepersOk
  <2>2. CASE r = s
    BY <1>3, <2>1, <2>2
  <2>3. CASE r # s
    <3>1. Among(waiting[r], x) <=> l = "downSleep" /\ sp[x][k] = r
      BY <2>1, <2>3
    <3> QED
      BY <1>3, <2>1, <2>3, <3>1
  <2> QED
    BY <2>2, <2>3
<1>7. FuturesOk'
  <2> SUFFICES ASSUME NEW y \in Procs PROVE FutureOk(y)'
    BY DEF FuturesOk
  <2>1. FutureOk(y)
    BY <1>0 DEF FuturesOk
  <2>2. CASE y = x
    BY <1>1, <1>3, <2>1, <2>2, ProcessAssumption DEF FutureOk, Waits, Past
  <2>3. CASE y # x
    BY <1>1, <1>3, <2>1, <2>3 DEF FutureOk
  <2> QED
    BY <2>2, <2>3
<1>8. UNCHANGED <<cp, sp, semRef, made>>
  BY <1>1
<1> QED
  BY ONLY ProcessInv, count' \in [Sems -> Nat], <1>2, <1>4, <1>5, <1>6, <1>7, <1>8, TablesStay

\* up(): the count, or the first sleeper.
LEMMA UpKeeps ==
  ASSUME ProcessInv, NEW p \in Procs, NEW i \in Slots, Up(p, i)
  PROVE  ProcessInv'
<1>0. TypeOK /\ SleepersOk /\ FuturesOk
  BY DEF ProcessInv
<1>a. PICK s \in Sems : s = sp[p][i]
  BY <1>0 DEF Up, TypeOK
<1>1. UNCHANGED <<cp, leaked, sp, semRef, made, futureVars>> /\ pc[p] = "user"
  BY DEF Up
<1>2. CASE waiting[s] = <<>>
  <2>1. UNCHANGED <<pc, slot, waiting, pcbRef>> /\ count' = [count EXCEPT ![s] = @ + 1]
    BY <1>a, <1>2 DEF Up
  <2>2. /\ pc' \in [Procs -> Labels] /\ slot' \in [Procs -> Slots] /\ leaked' \in [Procs -> Nat]
        /\ isReady' \in [Procs -> BOOLEAN] /\ waiting' \in [Sems -> Seq(Procs)]
        /\ t' \in [Procs -> Codes \cup {None}] /\ go' \in [Procs -> Nat] /\ pcbRef' \in [Procs -> Int]
        /\ exitCode' \in [Procs -> Codes \cup {None}] /\ count' \in [Sems -> Nat]
    BY <1>0, <1>1, <2>1 DEF TypeOK, futureVars
  <2>3. \A y \in Procs : pcbRef'[y] = pcbRef[y] + Others(y)' - Others(y)
    <3>1. \A y \in Procs : Others(y)' = Others(y) /\ Others(y) \in Nat
      BY <1>0, <1>1, <2>1, OthersNat DEF TypeOK, Others
    <3> QED
      BY <1>0, <2>1, <3>1 DEF TypeOK
  <2>4. /\ \A y \in Procs : pc'[y] = "unborn" => pc[y] = "unborn" /\ leaked'[y] = leaked[y]
        /\ UNCHANGED <<cp, sp, semRef, made>>
    BY <1>1, <2>1
  <2>5. SleepersOk' /\ FuturesOk'
    BY <1>0, <1>1, <2>1 DEF SleepersOk, FuturesOk, FutureOk, Distinct, Among, futureVars
  <2> QED
    BY ONLY ProcessInv, <2>2, <2>3, <2>4, <2>5, TablesStay
<1>3. CASE waiting[s] # <<>>
  <2>1. waiting[s] \in Seq(Procs) /\ Distinct(waiting[s])
    BY <1>0 DEF TypeOK, SleepersOk
  <2>a. PICK w : w = Tail(waiting[s])
    OBVIOUS
  <2>2. /\ Head(waiting[s]) \in Procs /\ Among(waiting[s], Head(waiting[s]))
        /\ w \in Seq(Procs) /\ Distinct(w)
        /\ \A u : Among(w, u) <=> Among(waiting[s], u) /\ u # Head(waiting[s])
    BY ONLY <1>3, <2>1, <2>a, TailIs
  <2>b. PICK h \in Procs : h = Head(waiting[s])
    BY <2>2
  <2>3. pc[h] = "downSleep" /\ sp[h][slot[h]] = s
    BY <1>0, <2>2, <2>b DEF SleepersOk
  <2>4. /\ waiting' = [waiting EXCEPT ![s] = w] /\ pc' = [pc EXCEPT ![h] = "user"]
        /\ slot' = [slot EXCEPT ![h] = 0] /\ pcbRef' = [pcbRef EXCEPT ![h] = @ - 1] /\ count' = count
    BY <1>a, <1>3, <2>a, <2>b DEF Up
  <2>5. /\ "user" \in Labels /\ 0 \in Slots /\ count' \in [Sems -> Nat] /\ pc[h] \in {"user", "downSleep"}
        /\ "user" \in {"user", "downSleep"} /\ "user" # pc[h]
        /\ ("user" = "downSleep" => sp[h][0] = s)
        /\ ("user" = pc[h] => 0 = slot[h])
    BY <1>0, <2>3, <2>4, ProcessAssumption DEF TypeOK, Labels, Slots
  <2>6. /\ pcbRef' \in [Procs -> Int] /\ \A y \in Procs : y # h => pcbRef'[y] = pcbRef[y]
        /\ pcbRef'[h] = pcbRef[h] + One("user" \in Holding) - One(pc[h] \in Holding)
    <3>1. One("user" \in Holding) = 0 /\ One(pc[h] \in Holding) = 1
      BY <2>3 DEF Holding, One
    <3> QED
      BY <1>0, <2>4, <3>1 DEF TypeOK
  <2>7. /\ \A y \in Procs : y # h => (Among(w, y) <=> Among(waiting[s], y))
        /\ Among(w, h) <=> "user" = "downSleep" /\ sp[h][0] = s
    BY <2>2, <2>b
  <2> QED
    BY ONLY ProcessInv, h \in Procs, s \in Sems, <1>1, <2>2, <2>3, <2>4, <2>5, <2>6, <2>7, SemaphoreStep
<1> QED
  BY <1>2, <1>3

\* down(): a permit, or sleep.
LEMMA DownKeeps ==
  ASSUME ProcessInv, NEW p \in Procs, NEW i \in Slots, Down(p, i)
  PROVE  ProcessInv'
<1>0. TypeOK /\ SleepersOk /\ FuturesOk
  BY DEF ProcessInv
<1>a. PICK s \in Sems : s = sp[p][i]
  BY <1>0 DEF Down, TypeOK
<1>1. UNCHANGED <<cp, leaked, sp, semRef, made, futureVars>> /\ pc[p] = "user"
  BY DEF Down, Call, At
<1>2. CASE count[s] > 0
  <2>1. UNCHANGED <<pc, slot, waiting, pcbRef>> /\ count' = [count EXCEPT ![s] = @ - 1]
    BY <1>a, <1>2 DEF Down, Call
  <2>2. /\ pc' \in [Procs -> Labels] /\ slot' \in [Procs -> Slots] /\ leaked' \in [Procs -> Nat]
        /\ isReady' \in [Procs -> BOOLEAN] /\ waiting' \in [Sems -> Seq(Procs)]
        /\ t' \in [Procs -> Codes \cup {None}] /\ go' \in [Procs -> Nat] /\ pcbRef' \in [Procs -> Int]
        /\ exitCode' \in [Procs -> Codes \cup {None}] /\ count' \in [Sems -> Nat]
    BY <1>0, <1>1, <1>2, <2>1 DEF TypeOK, futureVars
  <2>3. \A y \in Procs : pcbRef'[y] = pcbRef[y] + Others(y)' - Others(y)
    <3>1. \A y \in Procs : Others(y)' = Others(y) /\ Others(y) \in Nat
      BY <1>0, <1>1, <2>1, OthersNat DEF TypeOK, Others
    <3> QED
      BY <1>0, <2>1, <3>1 DEF TypeOK
  <2>4. /\ \A y \in Procs : pc'[y] = "unborn" => pc[y] = "unborn" /\ leaked'[y] = leaked[y]
        /\ UNCHANGED <<cp, sp, semRef, made>>
    BY <1>1, <2>1
  <2>5. SleepersOk' /\ FuturesOk'
    BY <1>0, <1>1, <2>1 DEF SleepersOk, FuturesOk, FutureOk, Distinct, Among, futureVars
  <2> QED
    BY ONLY ProcessInv, <2>2, <2>3, <2>4, <2>5, TablesStay
<1>3. CASE ~(count[s] > 0)
  <2>1. waiting[s] \in Seq(Procs) /\ Distinct(waiting[s]) /\ ~Among(waiting[s], p)
    BY <1>0, <1>1 DEF TypeOK, SleepersOk
  <2>a. PICK w : w = Append(waiting[s], p)
    OBVIOUS
  <2>2. /\ w \in Seq(Procs) /\ Distinct(w) /\ \A u : Among(w, u) <=> Among(waiting[s], u) \/ u = p
    BY ONLY p \in Procs, <2>1, <2>a, AppendIs
  <2>3. /\ waiting' = [waiting EXCEPT ![s] = w] /\ pc' = [pc EXCEPT ![p] = "downSleep"]
        /\ slot' = [slot EXCEPT ![p] = i] /\ pcbRef' = [pcbRef EXCEPT ![p] = @ + 1] /\ count' = count
    BY <1>a, <1>3, <2>a DEF Down, At
  <2>4. /\ "downSleep" \in Labels /\ count' \in [Sems -> Nat] /\ pc[p] \in {"user", "downSleep"}
        /\ "downSleep" \in {"user", "downSleep"} /\ "downSleep" # pc[p] /\ pc[p] # "downSleep"
        /\ sp[p][i] = s
    BY <1>0, <1>1, <1>a, <2>3 DEF TypeOK, Labels
  <2>5. /\ pcbRef' \in [Procs -> Int] /\ \A y \in Procs : y # p => pcbRef'[y] = pcbRef[y]
        /\ pcbRef'[p] = pcbRef[p] + One("downSleep" \in Holding) - One(pc[p] \in Holding)
    <3>1. One("downSleep" \in Holding) = 1 /\ One(pc[p] \in Holding) = 0
      BY <1>1 DEF Holding, One
    <3> QED
      BY <1>0, <2>3, <3>1 DEF TypeOK
  <2>6. /\ \A y \in Procs : y # p => (Among(w, y) <=> Among(waiting[s], y))
        /\ Among(w, p) <=> "downSleep" = "downSleep" /\ sp[p][i] = s
    BY <2>2, <2>4
  <2> QED
    BY ONLY ProcessInv, p \in Procs, i \in Slots, s \in Sems, <1>1, <2>2, <2>3, <2>4, <2>5, <2>6,
            SemaphoreStep
<1> QED
  BY <1>2, <1>3

\* initSystem() makes the first process.
LEMMA InitOk == Init => ProcessInv
<1> SUFFICES ASSUME Init PROVE ProcessInv
  OBVIOUS
<1>0. None \notin Procs /\ None \notin Sems /\ None \notin Codes /\ Root \in Procs /\ 0 \in Slots
  BY ProcessAssumption DEF Slots
<1>1. TypeOK
  <2>1. pc \in [Procs -> Labels]
    BY DEF Init, Labels
  <2> QED
    BY <1>0, <2>1 DEF Init, TypeOK, EmptyTable
<1>2. \A p \in Procs : \A i \in Slots : cp[p][i] = None /\ sp[p][i] = None
  BY DEF Init, EmptyTable
<1>3. \A x \in Procs \cup Sems : Holders(cp, x) = {} /\ Holders(sp, x) = {}
  BY <1>0, <1>2 DEF Holders
<1>4. PcbsCounted
  <2> SUFFICES ASSUME NEW p \in Procs
               PROVE  IsFiniteSet(Holders(cp, p)) /\ pcbRef[p] = Refs(cp, p) + Others(p)
    BY DEF PcbsCounted
  <2>1. IsFiniteSet(Holders(cp, p)) /\ Refs(cp, p) = 0
    BY <1>3, FS_EmptySet DEF Refs, Holders
  <2>2. Others(p) = pcbRef[p] /\ pcbRef[p] \in Nat
    BY DEF Init, Others, One, Holding
  <2> QED
    BY <2>1, <2>2
<1>5. SemsCounted
  <2> SUFFICES ASSUME NEW s \in Sems PROVE IsFiniteSet(Holders(sp, s)) /\ semRef[s] = Refs(sp, s)
    BY DEF SemsCounted
  <2>1. IsFiniteSet(Holders(sp, s)) /\ Refs(sp, s) = 0
    BY <1>3, FS_EmptySet DEF Refs, Holders
  <2> QED
    BY <2>1 DEF Init
<1>6. OneSlot /\ MadeOk
  BY <1>0, <1>2 DEF OneSlot, MadeOk
<1>7. UnbornOk
  BY <1>0, <1>2 DEF Init, UnbornOk
<1>8. SleepersOk
  BY DEF Init, SleepersOk, Distinct, Among
<1>9. FuturesOk
  BY DEF Init, FuturesOk, FutureOk, Waits, Past
<1> QED
  BY <1>1, <1>4, <1>5, <1>6, <1>7, <1>8, <1>9 DEF ProcessInv

\* Every system call, and every step of exit and wait, keeps the invariant.
LEMMA NextOk == ProcessInv /\ [Next]_vars => ProcessInv'
<1> SUFFICES ASSUME ProcessInv, [Next]_vars PROVE ProcessInv'
  OBVIOUS
<1>1. CASE UNCHANGED vars
  BY <1>1, FailureKeeps DEF vars
<1>2. CASE Next
  <2>1. PICK p \in Procs :
          \/ \E q \in Procs : ForkFails(p, q) \/ \E i \in Slots : Fork(p, q, i)
          \/ \E found \in BOOLEAN : Execl(p, found)
          \/ \E rc \in Codes : Exit(p, rc)
          \/ ExitStep(p)
          \/ DeleteTCB(p)
          \/ CloseBeyond(p)
          \/ \E i \in Slots : Wait(p, i) \/ CloseChild(p, i) \/ SemCall(p, i)
          \/ WaitStep(p)
    BY <1>2 DEF Next
  <2>2. CASE \E q \in Procs : ForkFails(p, q) \/ \E i \in Slots : Fork(p, q, i)
    BY <2>2, ForkFailsKeeps, ForkKeeps
  <2>3. CASE \E found \in BOOLEAN : Execl(p, found)
    BY <2>3, ExeclKeeps
  <2>4. CASE \E rc \in Codes : Exit(p, rc)
    BY <2>4, ExitKeeps
  <2>5. CASE ExitStep(p)
    BY <2>5, ExitReadyKeeps, ExitUpKeeps DEF ExitStep
  <2>6. CASE DeleteTCB(p)
    BY <2>6, DeleteTCBKeeps
  <2>7. CASE CloseBeyond(p)
    BY <2>7, FailureKeeps DEF CloseBeyond, Call
  <2>8. CASE \E i \in Slots : Wait(p, i) \/ CloseChild(p, i)
    BY <2>8, WaitKeeps, CloseChildKeeps
  <2>9. CASE \E i \in Slots : SemCall(p, i)
    <3>1. PICK i \in Slots : SemCall(p, i)
      BY <2>9
    <3>2. CASE UseNoSemaphore(p, i) \/ WaitBeyond(p, i)
      BY <3>2, FailureKeeps DEF UseNoSemaphore, WaitBeyond, Call
    <3>3. CASE \E s \in Sems, n \in 0..MaxCount : Sem(p, s, i, n)
      BY <3>3, SemKeeps
    <3> QED
      BY <3>1, <3>2, <3>3, UpKeeps, DownKeeps, CloseSemKeeps DEF SemCall
  <2>10. CASE WaitStep(p)
    BY <2>10, WaitDownKeeps, WaitUpKeeps, WaitCollectKeeps DEF WaitStep
  <2> QED
    BY <2>1, <2>2, <2>3, <2>4, <2>5, <2>6, <2>7, <2>8, <2>9, <2>10
<1> QED
  BY <1>1, <1>2

\* In every state that the system calls reach, the tables, the counts, the queues of the
\* semaphores and the Futures agree, however the calls of the processes interleave.
THEOREM ProcessInvariant == Spec => []ProcessInv
<1>1. Init => ProcessInv
  BY InitOk
<1>2. ProcessInv /\ [Next]_vars => ProcessInv'
  BY NextOk
<1> QED
  BY <1>1, <1>2, PTL DEF Spec

\* The count of a PCB or semaphore is the number of references to it, so close, execl and
\* exit of one process never delete what another one still has or sleeps in.
THEOREM CountsAreExact == Spec => []RefsExact
<1>1. ASSUME ProcessInv PROVE RefsExact
  <2>1. \A p \in Procs : pcbRef[p] = Refs(cp, p) + One(pc[p] \notin {"unborn", "deleted"})
                                       + One(pc[p] \in Holding) + leaked[p]
    <3> SUFFICES ASSUME NEW p \in Procs
                 PROVE  pcbRef[p] = Refs(cp, p) + One(pc[p] \notin {"unborn", "deleted"})
                                      + One(pc[p] \in Holding) + leaked[p]
      OBVIOUS
    <3>1. IsFiniteSet(Holders(cp, p)) /\ pcbRef[p] = Refs(cp, p) + Others(p) /\ leaked[p] \in Nat
      BY <1>1 DEF ProcessInv, PcbsCounted, TypeOK
    <3>2. Refs(cp, p) \in Nat
      BY <3>1, CountNat
    <3>3. One(pc[p] \notin {"unborn", "deleted"}) \in Nat /\ One(pc[p] \in Holding) \in Nat
      BY DEF One
    <3> QED
      BY <3>1, <3>2, <3>3 DEF Others
  <2>2. \A s \in Sems : semRef[s] = Refs(sp, s)
    BY <1>1 DEF ProcessInv, SemsCounted
  <2>3. ASSUME NEW p \in Procs, NEW i \in Slots, sp[p][i] # None PROVE sp[p][i] \in Alive
    <3>1. sp[p][i] \in made /\ sp[p][i] \in Sems
      BY <1>1, <2>3 DEF ProcessInv, MadeOk, TypeOK
    <3>2. IsFiniteSet(Holders(sp, sp[p][i])) /\ semRef[sp[p][i]] = Refs(sp, sp[p][i])
      BY <1>1, <3>1 DEF ProcessInv, SemsCounted
    <3>3. Refs(sp, sp[p][i]) > 0
      BY <3>2, RefsPositive
    <3> QED
      BY <3>1, <3>2, <3>3 DEF Alive
  <2>4. ASSUME NEW p \in Procs, pc[p] = "downSleep"
        PROVE  \E s \in Alive : s = sp[p][slot[p]] /\ \E k \in DOMAIN waiting[s] : waiting[s][k] = p
    <3>1. sp[p][slot[p]] # None /\ slot[p] \in Slots /\ sp[p][slot[p]] \in Sems
      BY <1>1, <2>4 DEF ProcessInv, FuturesOk, FutureOk, TypeOK
    <3>2. sp[p][slot[p]] \in Alive
      BY <2>3, <3>1
    <3>3. Among(waiting[sp[p][slot[p]]], p)
      BY <1>1, <2>4, <3>1 DEF ProcessInv, SleepersOk
    <3> QED
      BY <3>2, <3>3 DEF Among
  <2>5. SemaphoreAlive /\ TypeOK
    BY <1>1, <2>3, <2>4 DEF SemaphoreAlive, ProcessInv
  <2> QED
    BY <2>1, <2>2, <2>5 DEF RefsExact
<1> QED
  BY <1>1, ProcessInvariant, PTL

\* wait returns only when the child has called exit, with the code the child gave, although
\* Future::get() reads isReady and t without a lock.
THEOREM WaitGetsTheCode == Spec => []WaitSeesExitCode
<1>1. ASSUME ProcessInv PROVE WaitSeesExitCode
  <2>1. ASSUME NEW q \in Procs PROVE Refs(cp, q) <= 1
    <3>1. CASE Holders(cp, q) = {}
      <4>1. Refs(cp, q) = 0
        BY <3>1, FS_EmptySet DEF Refs, Holders
      <4> QED
        BY <4>1
    <3>2. CASE Holders(cp, q) # {}
      <4>1. PICK e : e \in Holders(cp, q)
        BY <3>2
      <4>2. ASSUME NEW d \in Holders(cp, q) PROVE d = e
        <5>1. /\ d = <<d[1], d[2]>> /\ d[1] \in Procs /\ d[2] \in Slots /\ cp[d[1]][d[2]] = q
              /\ e = <<e[1], e[2]>> /\ e[1] \in Procs /\ e[2] \in Slots /\ cp[e[1]][e[2]] = q
          BY <4>1 DEF Holders
        <5>2. d[1] = e[1] /\ d[2] = e[2]
          BY <1>1, <5>1, ProcessAssumption DEF ProcessInv, OneSlot
        <5> QED
          BY <5>1, <5>2
      <4>3. Holders(cp, q) = {e}
        BY <4>1, <4>2
      <4>4. Refs(cp, q) = 1
        BY <4>3, FS_Singleton DEF Refs, Holders
      <4> QED
        BY <4>4
    <3> QED
      BY <3>1, <3>2
  <2>2. OneParent
    BY <2>1 DEF OneParent
  <2>3. ASSUME NEW p \in Procs, pc[p] = "waitCollect"
        PROVE  LET c == cp[p][slot[p]] IN c # None /\ exitCode[c] # None /\ t[c] = exitCode[c]
    <3>1. FutureOk(p) /\ slot[p] \in Slots
      BY <1>1 DEF ProcessInv, FuturesOk, TypeOK
    <3>2. cp[p][slot[p]] # None /\ exitCode[cp[p][slot[p]]] # None /\ cp[p][slot[p]] \in Procs
      BY <1>1, <2>3, <3>1 DEF ProcessInv, TypeOK, FutureOk, Waits, Past
    <3>3. FutureOk(cp[p][slot[p]])
      BY <1>1, <3>2 DEF ProcessInv, FuturesOk
    <3> QED
      BY <3>2, <3>3 DEF FutureOk
  <2> QED
    BY <2>2, <2>3 DEF WaitSeesExitCode
<1> QED
  BY <1>1, ProcessInvariant, PTL
=============================================================================
