---------------------- MODULE InterruptSafeLockProofs ----------------------
(***************************************************************************)
(* The safety properties of InterruptSafeLock hold for any set of CPUs.    *)
(*                                                                         *)
(* None of them is inductive alone: that the flag a context restores is its*)
(* own rests on mutual exclusion (only the owner writes `was`), mutual     *)
(* exclusion on the owners seeing `taken`, and both on the thread not being*)
(* overlaid by a handler while interrupts are off.                         *)
(***************************************************************************)
EXTENDS InterruptSafeLock, TLAPS

\* A handler runs with interrupts off, and only handlers run the handler level.
HandlersMasked ==
  \A c \in CPUs :
    /\ irq[c] => ~intr[c]
    /\ pc[c]["handler"] # "idle" => irq[c] /\ ~callerIF[c]["handler"]

OwnedIsTaken == \A c \in CPUs, k \in Levels : pc[c][k] \in Owning => taken

\* The local and the shared copy of the flag agree with the caller's.
FlagSaved ==
  \A c \in CPUs, k \in Levels :
    /\ pc[c][k] \in {"exchange", "save", "backoff", "release", "restore"}
         => (wasDisabled[c][k] <=> ~callerIF[c][k])
    /\ pc[c][k] = "critical" => (was <=> ~callerIF[c][k])

\* Between two attempts the interrupt flag is the caller's; a thread that is
\* interrupted there had it set.
FlagBetween ==
  \A c \in CPUs, k \in Levels :
    pc[c][k] \in {"monitor", "disable", "mwait", "asleep"}
      => IF k = "thread" /\ irq[c] THEN callerIF[c][k] ELSE intr[c] <=> callerIF[c][k]

\* A caller that had interrupts off and is about to sleep sees `taken` until armed
\* becomes false.
ArmedIsTaken ==
  \A c \in CPUs, k \in Levels :
    pc[c][k] \in {"backoff", "mwait", "asleep"} /\ ~callerIF[c][k] /\ armed[c] => taken

IInv ==
  /\ TypeOK
  /\ HandlersMasked
  /\ HolderUninterrupted
  /\ MutualExclusion
  /\ OwnedIsTaken
  /\ FlagSaved
  /\ FlagBetween
  /\ ArmedIsTaken

-----------------------------------------------------------------------------
(* The invariant holds initially and every action preserves it. *)

\* No context is in the lock, and every interrupt flag is set.
LEMMA InitIInv == Init => IInv
<1> SUFFICES ASSUME Init PROVE IInv
  OBVIOUS
<1> USE DEF Init, Levels
<1>1. TypeOK
  BY DEF TypeOK, Labels, Masked, Trying
<1>2. HandlersMasked /\ HolderUninterrupted
  BY DEF HandlersMasked, HolderUninterrupted, Masked
<1>3. MutualExclusion /\ OwnedIsTaken
  BY DEF MutualExclusion, OwnedIsTaken, Owning
<1>4. FlagSaved /\ FlagBetween /\ ArmedIsTaken
  BY DEF FlagSaved, FlagBetween, ArmedIsTaken
<1> QED
  BY <1>1, <1>2, <1>3, <1>4 DEF IInv

\* MONITOR can disturb only what is said of the armed CPU: the other level of the CPU is
\* idle, or is a thread whose caller had interrupts on.
LEMMA MonitorStep ==
  ASSUME IInv, NEW c \in CPUs, NEW k \in Levels, Monitor(c, k)
  PROVE  IInv'
<1> USE DEF IInv, TypeOK, Levels, Monitor, At, Running
<1>0. /\ pc' = [pc EXCEPT ![c][k] = "disable"]
      /\ pc[c][k] \in {"idle", "monitor"}
      /\ callerIF' \in [CPUs -> [Levels -> BOOLEAN]]
      /\ \A d \in CPUs, l \in Levels : d # c \/ l # k => callerIF'[d][l] = callerIF[d][l]
      /\ callerIF'[c][k] <=> IF pc[c][k] = "idle" THEN intr[c] ELSE callerIF[c][k]
  <2>1. CASE pc[c][k] = "idle" /\ callerIF' = [callerIF EXCEPT ![c][k] = intr[c]]
    BY <2>1
  <2>2. CASE pc[c][k] = "monitor" /\ callerIF' = callerIF
    BY <2>2
  <2> QED
    BY <2>1, <2>2
<1>1. TypeOK'
  BY <1>0 DEF Labels, Masked, Trying
<1>2. HandlersMasked'
  BY <1>0 DEF HandlersMasked
<1>3. HolderUninterrupted'
  BY <1>0 DEF HolderUninterrupted, Masked
<1>4. MutualExclusion'
  BY <1>0 DEF MutualExclusion, Owning
<1>5. OwnedIsTaken'
  BY <1>0 DEF OwnedIsTaken, Owning
<1>6. FlagSaved'
  BY <1>0 DEF FlagSaved
<1>7. FlagBetween'
  BY <1>0 DEF FlagBetween, HandlersMasked
<1>8. ArmedIsTaken'
  BY <1>0 DEF ArmedIsTaken, FlagBetween, HandlersMasked, HolderUninterrupted,
              Masked
<1> QED
  BY <1>1, <1>2, <1>3, <1>4, <1>5, <1>6, <1>7, <1>8

\* The flag that disable() returns is the caller's.
LEMMA DisableStep ==
  ASSUME IInv, NEW c \in CPUs, NEW k \in Levels, Disable(c, k)
  PROVE  IInv'
<1> USE DEF IInv, TypeOK, Levels, Disable, At, Running
<1>0. wasDisabled'[c][k] <=> ~intr[c]
  OBVIOUS
<1>1. TypeOK'
  BY DEF Labels, Masked, Trying
<1>2. HandlersMasked'
  BY DEF HandlersMasked
<1>3. HolderUninterrupted'
  BY DEF HolderUninterrupted, Masked, HandlersMasked
<1>4. MutualExclusion'
  BY DEF MutualExclusion, Owning
<1>5. OwnedIsTaken'
  BY DEF OwnedIsTaken, Owning
<1>6. FlagSaved'
  BY <1>0 DEF FlagSaved, FlagBetween
<1>7. FlagBetween'
  BY DEF FlagBetween, HandlersMasked, HolderUninterrupted, FlagSaved, Masked
<1>8. ArmedIsTaken'
  BY DEF ArmedIsTaken
<1> QED
  BY <1>1, <1>2, <1>3, <1>4, <1>5, <1>6, <1>7, <1>8

\* A successful exchange finds `taken` false, so there is no owner yet.
LEMMA ExchangeStep ==
  ASSUME IInv, NEW c \in CPUs, NEW k \in Levels, Exchange(c, k)
  PROVE  IInv'
<1> USE DEF IInv, TypeOK, Levels, Exchange, At, Running, StoreTaken
<1>1. TypeOK'
  BY DEF Labels, Masked, Trying
<1>2. HandlersMasked'
  BY DEF HandlersMasked
<1>3. HolderUninterrupted'
  BY DEF HolderUninterrupted, Masked
<1>4. MutualExclusion'
  BY DEF MutualExclusion, Owning, OwnedIsTaken
<1>5. OwnedIsTaken'
  BY DEF OwnedIsTaken, Owning
<1>6. FlagSaved'
  BY DEF FlagSaved
<1>7. FlagBetween'
  BY DEF FlagBetween
<1>8. ArmedIsTaken'
  BY DEF ArmedIsTaken
<1> QED
  BY <1>1, <1>2, <1>3, <1>4, <1>5, <1>6, <1>7, <1>8

\* Only the owner writes `was`.
LEMMA SaveWasStep ==
  ASSUME IInv, NEW c \in CPUs, NEW k \in Levels, SaveWas(c, k)
  PROVE  IInv'
<1> USE DEF IInv, TypeOK, Levels, SaveWas, At, Running
<1>1. TypeOK'
  BY DEF Labels, Masked, Trying
<1>2. HandlersMasked'
  BY DEF HandlersMasked
<1>3. HolderUninterrupted'
  BY DEF HolderUninterrupted, Masked
<1>4. MutualExclusion'
  BY DEF MutualExclusion, Owning
<1>5. OwnedIsTaken'
  BY DEF OwnedIsTaken, Owning
<1>6. FlagSaved'
  BY DEF FlagSaved, MutualExclusion, Owning
<1>7. FlagBetween'
  BY DEF FlagBetween
<1>8. ArmedIsTaken'
  BY DEF ArmedIsTaken
<1> QED
  BY <1>1, <1>2, <1>3, <1>4, <1>5, <1>6, <1>7, <1>8

\* The failed attempt gives the caller its flag back; a handler keeps interrupts off.
LEMMA BackoffStep ==
  ASSUME IInv, NEW c \in CPUs, NEW k \in Levels, Backoff(c, k)
  PROVE  IInv'
<1> USE DEF IInv, TypeOK, Levels, Backoff, At, Running
<1>1. TypeOK'
  BY DEF Labels, Masked, Trying
<1>2. HandlersMasked'
  BY DEF HandlersMasked, FlagSaved
<1>3. HolderUninterrupted'
  BY DEF HolderUninterrupted, Masked, HandlersMasked
<1>4. MutualExclusion'
  BY DEF MutualExclusion, Owning
<1>5. OwnedIsTaken'
  BY DEF OwnedIsTaken, Owning
<1>6. FlagSaved'
  BY DEF FlagSaved
<1>7. FlagBetween'
  BY DEF FlagBetween, HandlersMasked, HolderUninterrupted, FlagSaved, Masked
<1>8. ArmedIsTaken'
  BY DEF ArmedIsTaken
<1> QED
  BY <1>1, <1>2, <1>3, <1>4, <1>5, <1>6, <1>7, <1>8

\* MWAIT sleeps only while the monitor is armed.
LEMMA MwaitStep ==
  ASSUME IInv, NEW c \in CPUs, NEW k \in Levels, Mwait(c, k)
  PROVE  IInv'
<1> USE DEF IInv, TypeOK, Levels, Mwait, At, Running
<1>1. TypeOK'
  BY DEF Labels, Masked, Trying
<1>2. HandlersMasked'
  BY DEF HandlersMasked
<1>3. HolderUninterrupted'
  BY DEF HolderUninterrupted, Masked
<1>4. MutualExclusion'
  BY DEF MutualExclusion, Owning
<1>5. OwnedIsTaken'
  BY DEF OwnedIsTaken, Owning
<1>6. FlagSaved'
  BY DEF FlagSaved
<1>7. FlagBetween'
  BY DEF FlagBetween
<1>8. ArmedIsTaken'
  BY DEF ArmedIsTaken
<1> QED
  BY <1>1, <1>2, <1>3, <1>4, <1>5, <1>6, <1>7, <1>8

\* Waking up only moves the context back to the top of the loop.
LEMMA WakeStep ==
  ASSUME IInv, NEW c \in CPUs, NEW k \in Levels, Wake(c, k)
  PROVE  IInv'
<1> USE DEF IInv, TypeOK, Levels, Wake, At, Running
<1>1. TypeOK'
  BY DEF Labels, Masked, Trying
<1>2. HandlersMasked'
  BY DEF HandlersMasked
<1>3. HolderUninterrupted'
  BY DEF HolderUninterrupted, Masked
<1>4. MutualExclusion'
  BY DEF MutualExclusion, Owning
<1>5. OwnedIsTaken'
  BY DEF OwnedIsTaken, Owning
<1>6. FlagSaved'
  BY DEF FlagSaved
<1>7. FlagBetween'
  BY DEF FlagBetween
<1>8. ArmedIsTaken'
  BY DEF ArmedIsTaken
<1> QED
  BY <1>1, <1>2, <1>3, <1>4, <1>5, <1>6, <1>7, <1>8

\* The owner reads its own flag back.
LEMMA ReadWasStep ==
  ASSUME IInv, NEW c \in CPUs, NEW k \in Levels, ReadWas(c, k)
  PROVE  IInv'
<1> USE DEF IInv, TypeOK, Levels, ReadWas, At, Running
<1>1. TypeOK'
  BY DEF Labels, Masked, Trying
<1>2. HandlersMasked'
  BY DEF HandlersMasked
<1>3. HolderUninterrupted'
  BY DEF HolderUninterrupted, Masked
<1>4. MutualExclusion'
  BY DEF MutualExclusion, Owning
<1>5. OwnedIsTaken'
  BY DEF OwnedIsTaken, Owning
<1>6. FlagSaved'
  BY DEF FlagSaved
<1>7. FlagBetween'
  BY DEF FlagBetween
<1>8. ArmedIsTaken'
  BY DEF ArmedIsTaken
<1> QED
  BY <1>1, <1>2, <1>3, <1>4, <1>5, <1>6, <1>7, <1>8

\* The store disarms every other CPU, and nobody else owns the lock.
LEMMA ReleaseStep ==
  ASSUME IInv, NEW c \in CPUs, NEW k \in Levels, Release(c, k)
  PROVE  IInv'
<1> USE DEF IInv, TypeOK, Levels, Release, At, Running, StoreTaken
<1>1. TypeOK'
  BY DEF Labels, Masked, Trying
<1>2. HandlersMasked'
  BY DEF HandlersMasked
<1>3. HolderUninterrupted'
  BY DEF HolderUninterrupted, Masked
<1>4. MutualExclusion'
  BY DEF MutualExclusion, Owning
<1>5. OwnedIsTaken'
  BY DEF OwnedIsTaken, Owning, MutualExclusion
<1>6. FlagSaved'
  BY DEF FlagSaved
<1>7. FlagBetween'
  BY DEF FlagBetween
<1>8. ArmedIsTaken'
  BY DEF ArmedIsTaken, FlagBetween, HandlersMasked, HolderUninterrupted, Masked
<1> QED
  BY <1>1, <1>2, <1>3, <1>4, <1>5, <1>6, <1>7, <1>8

\* As for Backoff.
LEMMA RestoreStep ==
  ASSUME IInv, NEW c \in CPUs, NEW k \in Levels, Restore(c, k)
  PROVE  IInv'
<1> USE DEF IInv, TypeOK, Levels, Restore, At, Running
<1>1. TypeOK'
  BY DEF Labels, Masked, Trying
<1>2. HandlersMasked'
  BY DEF HandlersMasked, FlagSaved
<1>3. HolderUninterrupted'
  BY DEF HolderUninterrupted, Masked, HandlersMasked
<1>4. MutualExclusion'
  BY DEF MutualExclusion, Owning
<1>5. OwnedIsTaken'
  BY DEF OwnedIsTaken, Owning
<1>6. FlagSaved'
  BY DEF FlagSaved
<1>7. FlagBetween'
  BY DEF FlagBetween, HandlersMasked, HolderUninterrupted, FlagSaved, Masked
<1>8. ArmedIsTaken'
  BY DEF ArmedIsTaken
<1> QED
  BY <1>1, <1>2, <1>3, <1>4, <1>5, <1>6, <1>7, <1>8

\* The thread is outside the lock.
LEMMA ToggleInterruptsStep ==
  ASSUME IInv, NEW c \in CPUs, ToggleInterrupts(c)
  PROVE  IInv'
<1> USE DEF IInv, TypeOK, Levels, ToggleInterrupts
<1>1. TypeOK'
  BY DEF Labels, Masked, Trying
<1>2. HandlersMasked'
  BY DEF HandlersMasked
<1>3. HolderUninterrupted'
  BY DEF HolderUninterrupted, Masked, HandlersMasked
<1>4. MutualExclusion'
  BY DEF MutualExclusion, Owning
<1>5. OwnedIsTaken'
  BY DEF OwnedIsTaken, Owning
<1>6. FlagSaved'
  BY DEF FlagSaved
<1>7. FlagBetween'
  BY DEF FlagBetween, HandlersMasked
<1>8. ArmedIsTaken'
  BY DEF ArmedIsTaken
<1> QED
  BY <1>1, <1>2, <1>3, <1>4, <1>5, <1>6, <1>7, <1>8

\* An interrupt arrives only where interrupts are on, hence not at a masked label.
LEMMA InterruptStep ==
  ASSUME IInv, NEW c \in CPUs, Interrupt(c)
  PROVE  IInv'
<1> USE DEF IInv, TypeOK, Levels, Interrupt
<1>1. TypeOK'
  BY DEF Labels, Masked, Trying
<1>2. HandlersMasked'
  BY DEF HandlersMasked
<1>3. HolderUninterrupted'
  BY DEF HolderUninterrupted, Masked
<1>4. MutualExclusion'
  BY DEF MutualExclusion, Owning
<1>5. OwnedIsTaken'
  BY DEF OwnedIsTaken, Owning
<1>6. FlagSaved'
  BY DEF FlagSaved
<1>7. FlagBetween'
  BY DEF FlagBetween, HandlersMasked
<1>8. ArmedIsTaken'
  BY DEF ArmedIsTaken
<1> QED
  BY <1>1, <1>2, <1>3, <1>4, <1>5, <1>6, <1>7, <1>8

\* The handler level is idle again; the thread had interrupts on.
LEMMA IretStep ==
  ASSUME IInv, NEW c \in CPUs, Iret(c)
  PROVE  IInv'
<1> USE DEF IInv, TypeOK, Levels, Iret
<1>1. TypeOK'
  BY DEF Labels, Masked, Trying
<1>2. HandlersMasked'
  BY DEF HandlersMasked
<1>3. HolderUninterrupted'
  BY DEF HolderUninterrupted, Masked
<1>4. MutualExclusion'
  BY DEF MutualExclusion, Owning
<1>5. OwnedIsTaken'
  BY DEF OwnedIsTaken, Owning
<1>6. FlagSaved'
  BY DEF FlagSaved
<1>7. FlagBetween'
  BY DEF FlagBetween, HandlersMasked
<1>8. ArmedIsTaken'
  BY DEF ArmedIsTaken
<1> QED
  BY <1>1, <1>2, <1>3, <1>4, <1>5, <1>6, <1>7, <1>8

LEMMA NextIInv == IInv /\ [Next]_vars => IInv'
<1> SUFFICES ASSUME IInv, [Next]_vars PROVE IInv'
  OBVIOUS
<1>1. ASSUME NEW c \in CPUs, NEW k \in Levels, Lock(c, k) PROVE IInv'
  BY <1>1, MonitorStep, DisableStep, ExchangeStep, SaveWasStep, BackoffStep,
     MwaitStep, WakeStep DEF Lock
<1>2. ASSUME NEW c \in CPUs, NEW k \in Levels, Unlock(c, k) PROVE IInv'
  BY <1>2, ReadWasStep, ReleaseStep, RestoreStep DEF Unlock
<1>3. ASSUME NEW c \in CPUs, Environment(c) PROVE IInv'
  BY <1>3, ToggleInterruptsStep, InterruptStep, IretStep DEF Environment
<1>4. CASE UNCHANGED vars
  BY <1>4 DEF vars, IInv, TypeOK, HandlersMasked, HolderUninterrupted, MutualExclusion,
              OwnedIsTaken, FlagSaved, FlagBetween, ArmedIsTaken
<1> QED
  BY <1>1, <1>2, <1>3, <1>4 DEF Next

-----------------------------------------------------------------------------
\* The inductive invariant holds in every reachable state of the lock, for any
\* number of CPUs contending for it.
THEOREM Invariant == Spec => []IInv
<1>1. Init => IInv
  BY InitIInv
<1>2. IInv /\ [Next]_vars => IInv'
  BY NextIInv
<1> QED
  BY <1>1, <1>2, PTL DEF Spec

\* The variables of lock() and unlock() keep their types.
THEOREM TypeCorrect == Spec => []TypeOK
<1>1. IInv => TypeOK
  BY DEF IInv
<1> QED
  BY <1>1, Invariant, PTL

\* Two contexts never own the lock together: InterruptSafeLock::lock returns to one
\* caller at a time.
THEOREM LockIsExclusive == Spec => []MutualExclusion
<1>1. IInv => MutualExclusion
  BY DEF IInv
<1> QED
  BY <1>1, Invariant, PTL

\* A handler never runs on top of a thread that holds the lock, so it cannot spin
\* for ever on a lock its own CPU holds.
THEOREM HolderIsUninterrupted == Spec => []HolderUninterrupted
<1>1. IInv => HolderUninterrupted
  BY DEF IInv
<1> QED
  BY <1>1, Invariant, PTL

\* A context that sleeps in MWAIT with interrupts off has not missed the release.
THEOREM WakeupIsNotLost == Spec => []NoLostWakeup
<1>1. IInv => NoLostWakeup
  BY DEF IInv, TypeOK, Levels, Running, FlagBetween, ArmedIsTaken, NoLostWakeup
<1> QED
  BY <1>1, Invariant, PTL

\* unlock() restores the interrupt flag of its own caller.
THEOREM FlagIsRestored == Spec => FlagRestored
<1> DEFINE Restored == \A c \in CPUs, k \in Levels :
             pc[c][k] = "restore" /\ pc'[c][k] = "idle" => intr'[c] = callerIF[c][k]
<1>1. IInv /\ [Next]_vars => [Restored]_vars
  <2> SUFFICES ASSUME IInv, Next, NEW c \in CPUs, NEW k \in Levels,
                      pc[c][k] = "restore", pc'[c][k] = "idle"
               PROVE  intr'[c] = callerIF[c][k]
    OBVIOUS
  <2>1. Restore(c, k)
    <3> USE DEF IInv, TypeOK
    <3>1. PICK d \in CPUs : Environment(d) \/ \E l \in Levels : Lock(d, l) \/ Unlock(d, l)
      BY DEF Next
    <3>2. ~Environment(d)
      BY DEF Environment, ToggleInterrupts, Interrupt, Iret, Levels
    <3>3. PICK l \in Levels : Lock(d, l) \/ Unlock(d, l)
      BY <3>1, <3>2
    <3>4. ASSUME NEW from, NEW to, At(d, l, from, to) PROVE to = "idle"
      BY <3>4 DEF At
    <3>5. ~Lock(d, l) /\ ~ReadWas(d, l) /\ ~Release(d, l)
      BY <3>4 DEF Lock, Monitor, Disable, Exchange, SaveWas, Backoff, Mwait, Wake,
                  ReadWas, Release
    <3>6. Restore(d, l)
      BY <3>3, <3>5 DEF Unlock
    <3> QED
      BY <3>6 DEF Restore, At
  <2>2. ~intr[c]
    BY DEF IInv, HandlersMasked, HolderUninterrupted, Masked, Levels
  <2>3. intr'[c] <=> callerIF[c][k]
    BY <2>1, <2>2 DEF IInv, TypeOK, FlagSaved, Restore
  <2>4. intr'[c] \in BOOLEAN /\ callerIF[c][k] \in BOOLEAN
    BY <2>1 DEF IInv, TypeOK, Restore
  <2> QED
    BY <2>3, <2>4
<1> QED
  BY <1>1, Invariant, PTL DEF Spec, FlagRestored
=============================================================================
