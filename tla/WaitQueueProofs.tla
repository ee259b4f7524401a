--------------------------- MODULE WaitQueueProofs ---------------------------
(***************************************************************************)
(* Proofs about the wait queue and the sleep pad, for any number of        *)
(* threads, waking contexts and operations.                                *)
(***************************************************************************)
EXTENDS WaitQueue, TLAPS

-----------------------------------------------------------------------------
(* The list of sleepers. *)

\* list_append() links the new thread and nobody else.
LEMMA AppendLinks ==
    ASSUME NEW S, NEW s \in Seq(S), NEW u \in S
    PROVE  /\ Append(s, u) \in Seq(S)
           /\ Append(s, u) # <<>>
           /\ \A t : Linked(t, Append(s, u)) <=> Linked(t, s) \/ t = u
           /\ NoDuplicates(s) /\ ~Linked(u, s) => NoDuplicates(Append(s, u))
<1> DEFINE a == Append(s, u)
<1>1. /\ a \in Seq(S)
      /\ Len(a) = Len(s) + 1
      /\ \A i \in 1..Len(s) : a[i] = s[i]
      /\ a[Len(s) + 1] = u
      /\ Len(s) \in Nat
  OBVIOUS
<1>2. ASSUME NEW t PROVE Linked(t, a) <=> Linked(t, s) \/ t = u
  BY <1>1 DEF Linked
<1>3. ASSUME NoDuplicates(s), ~Linked(u, s) PROVE NoDuplicates(a)
  BY <1>1, <1>3 DEF Linked, NoDuplicates
<1>4. a # <<>>
  BY <1>1
<1> QED
  BY <1>1, <1>2, <1>3, <1>4

\* Removing the first sleeper unlinks it and nobody else.
LEMMA TailUnlinks ==
    ASSUME NEW S, NEW s \in Seq(S), s # <<>>, NoDuplicates(s)
    PROVE  /\ Tail(s) \in Seq(S)
           /\ Head(s) \in S
           /\ Linked(Head(s), s)
           /\ NoDuplicates(Tail(s))
           /\ \A t : Linked(t, Tail(s)) <=> Linked(t, s) /\ t # Head(s)
<1> DEFINE r == Tail(s)
<1>1. /\ r \in Seq(S)
      /\ Len(s) \in Nat /\ Len(s) > 0
      /\ Len(r) = Len(s) - 1
      /\ \A i \in 1..Len(r) : r[i] = s[i + 1]
      /\ Head(s) = s[1]
      /\ s[1] \in S
  OBVIOUS
<1>2. NoDuplicates(r)
  BY <1>1 DEF NoDuplicates
<1>3. ASSUME NEW t PROVE Linked(t, r) <=> Linked(t, s) /\ t # Head(s)
  <2>1. ASSUME Linked(t, r) PROVE Linked(t, s) /\ t # Head(s)
    <3>1. PICK i \in 1..Len(r) : r[i] = t
      BY <2>1 DEF Linked
    <3>2. i + 1 \in 1..Len(s) /\ s[i + 1] = t /\ 1 \in 1..Len(s) /\ i + 1 # 1
      BY <1>1, <3>1
    <3> QED
      BY <3>2, <1>1 DEF Linked, NoDuplicates
  <2>2. ASSUME Linked(t, s), t # Head(s) PROVE Linked(t, r)
    <3>1. PICK i \in 1..Len(s) : s[i] = t
      BY <2>2 DEF Linked
    <3>2. i # 1
      BY <3>1, <2>2, <1>1
    <3>3. i - 1 \in 1..Len(r) /\ r[i - 1] = t
      BY <3>1, <3>2, <1>1
    <3> QED
      BY <3>3 DEF Linked
  <2> QED
    BY <2>1, <2>2
<1>4. Linked(Head(s), s)
  BY <1>1 DEF Linked
<1> QED
  BY <1>1, <1>2, <1>3, <1>4

\* list_remove() leaves a list of the same kind, one shorter if the thread was
\* in it.
LEMMA UnlinkType ==
    ASSUME NEW S, NEW s \in Seq(S), NEW u
    PROVE  /\ Unlink(s, u) \in Seq(S)
           /\ ~Linked(u, s) => Unlink(s, u) = s
           /\ Linked(u, s) =>
                \E k \in 1..Len(s) :
                   /\ s[k] = u
                   /\ Len(Unlink(s, u)) = Len(s) - 1
                   /\ \A i \in 1..Len(Unlink(s, u)) :
                         Unlink(s, u)[i] = IF i < k THEN s[i] ELSE s[i + 1]
<1> DEFINE r == Unlink(s, u)
<1>1. CASE ~Linked(u, s)
  BY <1>1 DEF Unlink
<1>2. CASE Linked(u, s)
  <2> DEFINE k == CHOOSE i \in 1..Len(s) : s[i] = u
  <2>1. k \in 1..Len(s) /\ s[k] = u
    BY <1>2 DEF Linked
  <2>2. r = [i \in 1..(Len(s) - 1) |-> IF i < k THEN s[i] ELSE s[i + 1]]
    BY <1>2 DEF Unlink
  <2> HIDE DEF k
  <2>3. Len(s) \in Nat /\ \A i \in 1..Len(s) : s[i] \in S
    OBVIOUS
  <2>4. \A i \in 1..(Len(s) - 1) : r[i] \in S
    BY <2>1, <2>2, <2>3
  <2>5. r \in Seq(S) /\ Len(r) = Len(s) - 1
    BY <2>1, <2>2, <2>3, <2>4
  <2>6. \A i \in 1..Len(r) : r[i] = IF i < k THEN s[i] ELSE s[i + 1]
    BY <2>2, <2>5
  <2> QED
    BY <1>2, <2>1, <2>5, <2>6
<1> QED
  BY <1>1, <1>2

\* list_remove() unlinks the thread and nobody else.
LEMMA UnlinkUnlinks ==
    ASSUME NEW S, NEW s \in Seq(S), NoDuplicates(s), NEW u
    PROVE  /\ NoDuplicates(Unlink(s, u))
           /\ \A t : Linked(t, Unlink(s, u)) <=> Linked(t, s) /\ t # u
<1> DEFINE r == Unlink(s, u)
<1>1. CASE ~Linked(u, s)
  <2>1. r = s
    BY <1>1, UnlinkType
  <2> QED
    BY <2>1, <1>1
<1>2. CASE Linked(u, s)
  <2>1. PICK k \in 1..Len(s) :
           /\ s[k] = u
           /\ Len(r) = Len(s) - 1
           /\ \A i \in 1..Len(r) : r[i] = IF i < k THEN s[i] ELSE s[i + 1]
    BY <1>2, UnlinkType
  <2>2. Len(s) \in Nat
    OBVIOUS
  <2> HIDE DEF r
  <2>3. NoDuplicates(r)
    BY <2>1, <2>2 DEF NoDuplicates
  <2>4. ASSUME NEW t PROVE Linked(t, r) <=> Linked(t, s) /\ t # u
    <3>1. ASSUME Linked(t, r) PROVE Linked(t, s) /\ t # u
      <4>1. PICK i \in 1..Len(r) : r[i] = t
        BY <3>1 DEF Linked
      <4>2. PICK j \in 1..Len(s) : s[j] = t /\ j # k
        BY <4>1, <2>1, <2>2
      <4> QED
        BY <4>2, <2>1 DEF Linked, NoDuplicates
    <3>2. ASSUME Linked(t, s), t # u PROVE Linked(t, r)
      <4>1. PICK j \in 1..Len(s) : s[j] = t
        BY <3>2 DEF Linked
      <4>2. j # k
        BY <4>1, <3>2, <2>1
      <4>3. CASE j < k
        BY <4>1, <4>3, <2>1, <2>2 DEF Linked
      <4>4. CASE j > k
        <5>1. j - 1 \in 1..Len(r) /\ r[j - 1] = t
          BY <4>1, <4>4, <2>1, <2>2
        <5> QED
          BY <5>1 DEF Linked
      <4> QED
        BY <4>2, <4>3, <4>4, <2>1
    <3> QED
      BY <3>1, <3>2
  <2> QED
    BY <2>3, <2>4 DEF r
<1> QED
  BY <1>1, <1>2

-----------------------------------------------------------------------------
(* Type correctness. *)

\* What Exit assigns has the right types.
LEMMA ExitType ==
    ASSUME TypeOK, NEW t \in Threads, NEW r \in Results, NEW m \in ModeType,
           Exit(t, r, m)
    PROVE  /\ sleepers' \in Seq(Threads)
           /\ wakeup_balance' \in Int
           /\ lock' = NoOne
           /\ rc' \in [Threads -> Results]
           /\ mode' \in [Threads -> ModeType]
           /\ timed_out' \in [Threads -> BOOLEAN]
           /\ pc' \in [Threads -> PCs]
<1>1. sleepers' \in Seq(Threads)
  BY UnlinkType DEF Exit, TypeOK
<1>2. wakeup_balance' \in Int
  BY DEF Exit, TypeOK
<1>3. mode' \in [Threads -> ModeType]
  BY DEF Exit, TypeOK, ModeType, Kinds, NoMode
<1>4. pc' \in [Threads -> PCs]
  BY DEF Exit, TypeOK, Goto, PCs
<1>5. timed_out' \in [Threads -> BOOLEAN] /\ rc' \in [Threads -> Results] /\ lock' = NoOne
  BY DEF Exit, TypeOK
<1> QED
  BY <1>1, <1>2, <1>3, <1>4, <1>5

\* What PopFirst assigns has the right types.
LEMMA PopFirstType ==
    ASSUME TypeOK, NEW c \in Contexts, NEW o \in Ops, sleepers # <<>>, PopFirst(c, o)
    PROVE  /\ lock' = c
           /\ sleepers' \in Seq(Threads)
           /\ cpc' \in [Contexts -> CPCs]
           /\ op' \in [Contexts -> Ops]
           /\ target' \in [Contexts -> Threads \cup {NoOne}]
BY DEF TypeOK, PopFirst, CallWakeup, CPCs

\* Every step preserves the type invariant.
LEMMA TypeStep ==
    ASSUME TypeOK, [Next]_vars PROVE TypeOK'
<1> USE DEF TypeOK, PCs, SleepStates, States, Timeouts, Results, Ops, WaitqOps, CPCs, ModeType, Kinds, NoMode
<1>1. ASSUME NEW t \in Threads, ThreadStart(t) PROVE TypeOK'
  BY <1>1, ConstantsAssumption DEF ThreadStart, Requeue, Goto, waitq, thread, waker
<1>2. ASSUME NEW t \in Threads, NEW m \in Modes, SleepImmediate(t, m) PROVE TypeOK'
  <2> USE <1>2 DEF SleepImmediate
  <2>1. m \in ModeType /\ "EOK" \in Results /\ "ETIMEOUT" \in Results
    BY ConstantsAssumption
  <2>2. CASE Exit(t, "EOK", m) \/ Exit(t, "ETIMEOUT", m)
    <3> HIDE DEF PCs, Results, ModeType
    <3> QED
      BY <2>1, <2>2, ExitType DEF Begin, waker
  <2>3. CASE /\ wakeup_balance' = wakeup_balance - 1
             /\ rc' = [rc EXCEPT ![t] = "EOK"]
             /\ UNCHANGED <<lock, sleepers, pc, mode, timed_out>>
    BY <2>3 DEF Begin, waker
  <2> QED
    BY <2>2, <2>3
<1>3. ASSUME NEW t \in Threads, NEW m \in Modes, SleepAppend(t, m) PROVE TypeOK'
  BY <1>3, ConstantsAssumption DEF SleepAppend, Goto, Begin, waitq, thread, waker
<1>4. ASSUME NEW t \in Threads, WaitStart(t) PROVE TypeOK'
  BY <1>4, ConstantsAssumption DEF WaitStart, Goto, waitq, thread, waker
<1>5. ASSUME NEW t \in Threads, CheckInterrupted(t) PROVE TypeOK'
  <2>1. CASE interrupted[t] /\ mode[t].interruptible
    <3>1. Exit(t, "EINTR", mode[t]) /\ mode[t] \in ModeType /\ "EINTR" \in Results
      BY <1>5, <2>1 DEF CheckInterrupted
    <3> QED
      BY <1>5, <3>1, ExitType DEF CheckInterrupted, waker
  <2>2. CASE ~(interrupted[t] /\ mode[t].interruptible)
    BY <1>5, <2>2, ZenonT(60) DEF CheckInterrupted, Goto, waker
  <2> QED
    BY <2>1, <2>2
<1>6. ASSUME NEW t \in Threads, WaitFinish(t) PROVE TypeOK'
  <2>1. CASE sleep_state[t] # "INITIAL"
    BY <1>6, <2>1, ZenonT(60) DEF WaitFinish, Goto, waitq, waker
  <2>2. CASE sleep_state[t] = "INITIAL"
    BY <1>6, <2>2, ZenonT(60) DEF WaitFinish, Goto, waitq, waker
  <2> QED
    BY <2>1, <2>2
<1>7. ASSUME NEW t \in Threads, SchedulerEnter(t) PROVE TypeOK'
  BY <1>7, ConstantsAssumption DEF SchedulerEnter, Goto, waitq, thread, waker
<1>8. ASSUME NEW t \in Threads, ContextSwap(t) PROVE TypeOK'
  BY <1>8, ConstantsAssumption DEF ContextSwap, Goto, waitq, thread, waker
<1>9. ASSUME NEW t \in Threads, CleanupAfterThread(t) PROVE TypeOK'
  <2>1. CASE sleep_state[t] # "INITIAL"
    BY <1>9, <2>1 DEF CleanupAfterThread, Goto, waitq, waker
  <2>2. CASE sleep_state[t] = "INITIAL"
    BY <1>9, <2>2 DEF CleanupAfterThread, Goto, waitq, waker
  <2> QED
    BY <2>1, <2>2
<1>10. ASSUME NEW t \in Threads, CleanupRequeue(t) PROVE TypeOK'
  BY <1>10, ConstantsAssumption DEF CleanupRequeue, Goto, Requeue, waitq, thread, waker
<1>11. ASSUME NEW t \in Threads, Dispatch(t) PROVE TypeOK'
  BY <1>11, ConstantsAssumption DEF Dispatch, Goto, waitq, thread, waker
<1>12. ASSUME NEW t \in Threads, TimeoutUnregister(t) PROVE TypeOK'
  BY <1>12, ConstantsAssumption DEF TimeoutUnregister, Goto, waitq, thread, waker
<1>13. ASSUME NEW t \in Threads, Relock(t) PROVE TypeOK'
  <2>1. mode[t] \in ModeType /\ "EOK" \in Results /\ "ETIMEOUT" \in Results
    OBVIOUS
  <2>2. CASE Exit(t, "EOK", mode[t]) \/ Exit(t, "ETIMEOUT", mode[t])
    <3> HIDE DEF PCs, Results, ModeType
    <3> QED
      BY <1>13, <2>1, <2>2, ExitType DEF Relock, waker
  <2>3. CASE /\ lock' = t
             /\ Goto(t, "start")
             /\ UNCHANGED <<wakeup_balance, sleepers, rc, mode, timed_out>>
    BY <1>13, <2>3 DEF Relock, Goto, waker
  <2> QED
    BY <1>13, <2>2, <2>3 DEF Relock
<1>14. ASSUME NEW c \in Contexts, WakeOne(c) PROVE TypeOK'
  <2>1. CASE sleepers # <<>> /\ PopFirst(c, "wake_one") /\ UNCHANGED wakeup_balance
    <3> HIDE DEF PCs, CPCs, Ops
    <3>1. "wake_one" \in Ops
      BY DEF Ops, WaitqOps
    <3> QED
      BY <1>14, <2>1, <3>1, PopFirstType DEF WakeOne, Begin, thread
  <2>2. CASE /\ wakeup_balance' \in {wakeup_balance, wakeup_balance + 1}
             /\ UNCHANGED <<lock, sleepers, waker>>
    BY <1>14, <2>2 DEF WakeOne, Begin, thread, waker
  <2> QED
    BY <1>14, <2>1, <2>2 DEF WakeOne
<1>15. ASSUME NEW c \in Contexts, Signal(c) PROVE TypeOK'
  <2>1. CASE sleepers # <<>>
    <3> HIDE DEF PCs, CPCs, Ops
    <3>1. "signal" \in Ops
      BY DEF Ops, WaitqOps
    <3> QED
      BY <1>15, <2>1, <3>1, PopFirstType DEF Signal, Begin, thread
  <2>2. CASE sleepers = <<>>
    BY <1>15, <2>2 DEF Signal, Begin, thread, waker
  <2> QED
    BY <2>1, <2>2
<1>16. ASSUME NEW c \in Contexts, NEW o \in {"wake_all", "close"}, WakeAll(c, o) PROVE TypeOK'
  <2>1. CASE sleepers # <<>>
    <3> HIDE DEF PCs, CPCs, Ops
    <3>1. o \in Ops
      BY DEF Ops, WaitqOps
    <3> QED
      BY <1>16, <2>1, <3>1, PopFirstType DEF WakeAll, Begin, thread
  <2>2. CASE sleepers = <<>>
    BY <1>16, <2>2 DEF WakeAll, Begin, thread, waker
  <2> QED
    BY <2>1, <2>2
<1>17. ASSUME NEW c \in Contexts, NEW t \in Threads, Interrupt(c, t) PROVE TypeOK'
  BY <1>17, ConstantsAssumption DEF Interrupt, CallWakeup, Begin, waitq, thread, waker
<1>18. ASSUME NEW c \in Contexts, NEW t \in Threads, StackTrace(c, t) PROVE TypeOK'
  BY <1>18, ConstantsAssumption DEF StackTrace, CallWakeup, Begin, waitq, thread, waker
<1>19. ASSUME NEW c \in Contexts, NEW t \in Threads, Clock(c, t) PROVE TypeOK'
  BY <1>19, ConstantsAssumption DEF Clock, CallWakeup, waitq, thread, waker
<1>20. ASSUME NEW c \in Contexts, ThreadWakeup(c) PROVE TypeOK'
  BY <1>20, ConstantsAssumption DEF ThreadWakeup, waitq, thread, waker
<1>21. ASSUME NEW c \in Contexts, RequeueSleeping(c) PROVE TypeOK'
  <2>1. \A u \in Threads : rq'[u] \in Nat /\ state'[u] \in States
    BY <1>21 DEF RequeueSleeping, Requeue
  <2>2. rq' \in [Threads -> Nat] /\ state' \in [Threads -> States]
    BY <1>21, <2>1 DEF RequeueSleeping, Requeue
  <2> QED
    BY <1>21, <2>2 DEF RequeueSleeping, waitq
<1>22. ASSUME NEW c \in Contexts, WakerNext(c) PROVE TypeOK'
  <2>1. CASE sleepers # <<>> /\ PopFirst(c, op[c]) /\ UNCHANGED timeout
    <3> HIDE DEF PCs, CPCs, Ops
    <3> QED
      BY <1>22, <2>1, PopFirstType DEF WakerNext
  <2>2. CASE /\ lock' \in {lock, NoOne}
             /\ WakerReturn(c)
             /\ timeout' \in {timeout, [timeout EXCEPT ![target[c]] = "finished"]}
             /\ UNCHANGED sleepers
    <3>1. timeout' \in [Threads -> Timeouts]
      BY <2>2
    <3> QED
      BY <1>22, <2>2, <3>1 DEF WakerNext, WakerReturn
  <2> QED
    BY <1>22, <2>1, <2>2 DEF WakerNext
<1>23. ASSUME UNCHANGED vars PROVE TypeOK'
  BY <1>23, ConstantsAssumption DEF vars
<1> QED
  BY <1>1, <1>2, <1>3, <1>4, <1>5, <1>6, <1>7, <1>8, <1>9, <1>10, <1>11, <1>12, <1>13, <1>14, <1>15, <1>16, <1>17, <1>18, <1>19, <1>20, <1>21, <1>22, <1>23, SMTT(60) DEF Next, SleeperStep, WakerStep

\* The lock is handed over correctly by every step.
LEMMA LockStep ==
    ASSUME TypeOK, LockInv, WakerInv, [Next]_vars PROVE LockInv'
<1> USE DEF LockInv, WakerInv, WaitqOps
<1>0. /\ pc \in [Threads -> PCs]
      /\ op \in [Contexts -> Ops]
  BY DEF TypeOK
<1>1. ASSUME NEW t \in Threads, ThreadStart(t) PROVE LockInv'
  BY <1>1, ConstantsAssumption, <1>0 DEF ThreadStart, Requeue, Goto, waitq, thread, waker
<1>2. ASSUME NEW t \in Threads, NEW m \in Modes, SleepImmediate(t, m) PROVE LockInv'
  BY <1>2, ConstantsAssumption, <1>0 DEF SleepImmediate, Exit, Goto, Begin, waitq, thread, waker
<1>3. ASSUME NEW t \in Threads, NEW m \in Modes, SleepAppend(t, m) PROVE LockInv'
  BY <1>3, ConstantsAssumption, <1>0 DEF SleepAppend, Goto, Begin, waitq, thread, waker
<1>4. ASSUME NEW t \in Threads, WaitStart(t) PROVE LockInv'
  BY <1>4, ConstantsAssumption, <1>0 DEF WaitStart, Goto, waitq, thread, waker
<1>5. ASSUME NEW t \in Threads, CheckInterrupted(t) PROVE LockInv'
  <2>1. CASE interrupted[t] /\ mode[t].interruptible
    BY <1>5, <1>0, <2>1, ConstantsAssumption DEF CheckInterrupted, Exit, Goto, waker
  <2>2. CASE ~(interrupted[t] /\ mode[t].interruptible)
    BY <1>5, <1>0, <2>2, ConstantsAssumption DEF CheckInterrupted, Exit, Goto, waker
  <2> QED
    BY <2>1, <2>2
<1>6. ASSUME NEW t \in Threads, WaitFinish(t) PROVE LockInv'
  <2>1. CASE sleep_state[t] = "INITIAL"
    BY <1>6, <1>0, <2>1, ConstantsAssumption DEF WaitFinish, Goto, waitq, waker
  <2>2. CASE ~(sleep_state[t] = "INITIAL")
    BY <1>6, <1>0, <2>2, ConstantsAssumption DEF WaitFinish, Goto, waitq, waker
  <2> QED
    BY <2>1, <2>2
<1>7. ASSUME NEW t \in Threads, SchedulerEnter(t) PROVE LockInv'
  BY <1>7, ConstantsAssumption, <1>0 DEF SchedulerEnter, Goto, waitq, thread, waker
<1>8. ASSUME NEW t \in Threads, ContextSwap(t) PROVE LockInv'
  BY <1>8, ConstantsAssumption, <1>0 DEF ContextSwap, Goto, waitq, thread, waker
<1>9. ASSUME NEW t \in Threads, CleanupAfterThread(t) PROVE LockInv'
  <2>1. CASE sleep_state[t] = "INITIAL"
    BY <1>9, <1>0, <2>1, ConstantsAssumption DEF CleanupAfterThread, Goto, waitq, waker
  <2>2. CASE ~(sleep_state[t] = "INITIAL")
    BY <1>9, <1>0, <2>2, ConstantsAssumption DEF CleanupAfterThread, Goto, waitq, waker
  <2> QED
    BY <2>1, <2>2
<1>10. ASSUME NEW t \in Threads, CleanupRequeue(t) PROVE LockInv'
  BY <1>10, ConstantsAssumption, <1>0 DEF CleanupRequeue, Goto, Requeue, waitq, thread, waker
<1>11. ASSUME NEW t \in Threads, Dispatch(t) PROVE LockInv'
  BY <1>11, ConstantsAssumption, <1>0 DEF Dispatch, Goto, waitq, thread, waker
<1>12. ASSUME NEW t \in Threads, TimeoutUnregister(t) PROVE LockInv'
  BY <1>12, ConstantsAssumption, <1>0 DEF TimeoutUnregister, Goto, waitq, thread, waker
<1>13. ASSUME NEW t \in Threads, Relock(t) PROVE LockInv'
  BY <1>13, ConstantsAssumption, <1>0 DEF Relock, Exit, Goto, waitq, thread, waker
<1>14. ASSUME NEW c \in Contexts, WakeOne(c) PROVE LockInv'
  BY <1>14, ConstantsAssumption, <1>0 DEF WakeOne, PopFirst, CallWakeup, Begin, waitq, thread, waker
<1>15. ASSUME NEW c \in Contexts, Signal(c) PROVE LockInv'
  BY <1>15, ConstantsAssumption, <1>0 DEF Signal, PopFirst, CallWakeup, Begin, waitq, thread, waker
<1>16. ASSUME NEW c \in Contexts, NEW o \in {"wake_all", "close"}, WakeAll(c, o) PROVE LockInv'
  BY <1>16, ConstantsAssumption, <1>0 DEF WakeAll, PopFirst, CallWakeup, Begin, waitq, thread, waker
<1>17. ASSUME NEW c \in Contexts, NEW t \in Threads, Interrupt(c, t) PROVE LockInv'
  BY <1>17, ConstantsAssumption, <1>0 DEF Interrupt, CallWakeup, Begin, waitq, thread, waker
<1>18. ASSUME NEW c \in Contexts, NEW t \in Threads, StackTrace(c, t) PROVE LockInv'
  BY <1>18, ConstantsAssumption, <1>0 DEF StackTrace, CallWakeup, Begin, waitq, thread, waker
<1>19. ASSUME NEW c \in Contexts, NEW t \in Threads, Clock(c, t) PROVE LockInv'
  BY <1>19, ConstantsAssumption, <1>0 DEF Clock, CallWakeup, waitq, thread, waker
<1>20. ASSUME NEW c \in Contexts, ThreadWakeup(c) PROVE LockInv'
  BY <1>20, ConstantsAssumption, <1>0 DEF ThreadWakeup, waitq, thread, waker
<1>21. ASSUME NEW c \in Contexts, RequeueSleeping(c) PROVE LockInv'
  BY <1>21, ConstantsAssumption, <1>0 DEF RequeueSleeping, Requeue, waitq, thread, waker
<1>22. ASSUME NEW c \in Contexts, WakerNext(c) PROVE LockInv'
  BY <1>22, ConstantsAssumption, <1>0 DEF WakerNext, PopFirst, CallWakeup, WakerReturn, waitq, thread, waker
<1>23. ASSUME UNCHANGED vars PROVE LockInv'
  BY <1>23, ConstantsAssumption, <1>0 DEF vars
<1> QED
  BY <1>1, <1>2, <1>3, <1>4, <1>5, <1>6, <1>7, <1>8, <1>9, <1>10, <1>11, <1>12, <1>13, <1>14, <1>15, <1>16, <1>17, <1>18, <1>19, <1>20, <1>21, <1>22, <1>23 DEF Next, SleeperStep, WakerStep

\* A context is idle exactly when it performs no operation.
LEMMA WakerInvStep ==
    ASSUME TypeOK, WakerInv, [Next]_vars PROVE WakerInv'
<1> USE DEF TypeOK, WakerInv
<1>1. ASSUME NEW t \in Threads, ThreadStart(t) PROVE WakerInv'
  BY <1>1, ConstantsAssumption DEF ThreadStart, Requeue, Goto, waitq, thread, waker
<1>2. ASSUME NEW t \in Threads, NEW m \in Modes, SleepImmediate(t, m) PROVE WakerInv'
  BY <1>2, ConstantsAssumption DEF SleepImmediate, Exit, Goto, Begin, waitq, thread, waker
<1>3. ASSUME NEW t \in Threads, NEW m \in Modes, SleepAppend(t, m) PROVE WakerInv'
  BY <1>3, ConstantsAssumption DEF SleepAppend, Goto, Begin, waitq, thread, waker
<1>4. ASSUME NEW t \in Threads, WaitStart(t) PROVE WakerInv'
  BY <1>4, ConstantsAssumption DEF WaitStart, Goto, waitq, thread, waker
<1>5. ASSUME NEW t \in Threads, CheckInterrupted(t) PROVE WakerInv'
  BY <1>5, ConstantsAssumption DEF CheckInterrupted, Exit, Goto, waitq, thread, waker
<1>6. ASSUME NEW t \in Threads, WaitFinish(t) PROVE WakerInv'
  BY <1>6, ConstantsAssumption DEF WaitFinish, Goto, waitq, thread, waker
<1>7. ASSUME NEW t \in Threads, SchedulerEnter(t) PROVE WakerInv'
  BY <1>7, ConstantsAssumption DEF SchedulerEnter, Goto, waitq, thread, waker
<1>8. ASSUME NEW t \in Threads, ContextSwap(t) PROVE WakerInv'
  BY <1>8, ConstantsAssumption DEF ContextSwap, Goto, waitq, thread, waker
<1>9. ASSUME NEW t \in Threads, CleanupAfterThread(t) PROVE WakerInv'
  BY <1>9, ConstantsAssumption DEF CleanupAfterThread, Goto, waitq, thread, waker
<1>10. ASSUME NEW t \in Threads, CleanupRequeue(t) PROVE WakerInv'
  BY <1>10, ConstantsAssumption DEF CleanupRequeue, Goto, Requeue, waitq, thread, waker
<1>11. ASSUME NEW t \in Threads, Dispatch(t) PROVE WakerInv'
  BY <1>11, ConstantsAssumption DEF Dispatch, Goto, waitq, thread, waker
<1>12. ASSUME NEW t \in Threads, TimeoutUnregister(t) PROVE WakerInv'
  BY <1>12, ConstantsAssumption DEF TimeoutUnregister, Goto, waitq, thread, waker
<1>13. ASSUME NEW t \in Threads, Relock(t) PROVE WakerInv'
  BY <1>13, ConstantsAssumption DEF Relock, Exit, Goto, waitq, thread, waker
<1>14. ASSUME NEW c \in Contexts, WakeOne(c) PROVE WakerInv'
  <2>1. CASE sleepers = <<>>
    BY <1>14, <2>1, ConstantsAssumption DEF WakeOne, PopFirst, CallWakeup, Begin, waker
  <2>2. CASE ~(sleepers = <<>>)
    BY <1>14, <2>2, ConstantsAssumption DEF WakeOne, PopFirst, CallWakeup, Begin, waker
  <2> QED
    BY <2>1, <2>2
<1>15. ASSUME NEW c \in Contexts, Signal(c) PROVE WakerInv'
  BY <1>15, ConstantsAssumption DEF Signal, PopFirst, CallWakeup, Begin, waitq, thread, waker
<1>16. ASSUME NEW c \in Contexts, NEW o \in {"wake_all", "close"}, WakeAll(c, o) PROVE WakerInv'
  BY <1>16, ConstantsAssumption DEF WakeAll, PopFirst, CallWakeup, Begin, waitq, thread, waker
<1>17. ASSUME NEW c \in Contexts, NEW t \in Threads, Interrupt(c, t) PROVE WakerInv'
  BY <1>17, ConstantsAssumption DEF Interrupt, CallWakeup, Begin, waitq, thread, waker
<1>18. ASSUME NEW c \in Contexts, NEW t \in Threads, StackTrace(c, t) PROVE WakerInv'
  BY <1>18, ConstantsAssumption DEF StackTrace, CallWakeup, Begin, waitq, thread, waker
<1>19. ASSUME NEW c \in Contexts, NEW t \in Threads, Clock(c, t) PROVE WakerInv'
  BY <1>19, ConstantsAssumption DEF Clock, CallWakeup, waitq, thread, waker
<1>20. ASSUME NEW c \in Contexts, ThreadWakeup(c) PROVE WakerInv'
  BY <1>20, ConstantsAssumption DEF ThreadWakeup, waitq, thread, waker
<1>21. ASSUME NEW c \in Contexts, RequeueSleeping(c) PROVE WakerInv'
  BY <1>21, ConstantsAssumption DEF RequeueSleeping, Requeue, waitq, thread, waker
<1>22. ASSUME NEW c \in Contexts, WakerNext(c) PROVE WakerInv'
  <2>1. CASE WakerReturn(c)
    BY <1>22, <2>1, ConstantsAssumption DEF WakerNext, WakerReturn
  <2>2. CASE /\ op[c] \in {"wake_all", "close"}
             /\ sleepers # <<>>
             /\ PopFirst(c, op[c])
    BY <1>22, <2>2, ConstantsAssumption DEF WakerNext, PopFirst, CallWakeup
  <2> QED
    BY <1>22, <2>1, <2>2 DEF WakerNext
<1>23. ASSUME UNCHANGED vars PROVE WakerInv'
  BY <1>23, ConstantsAssumption DEF vars
<1> QED
  BY <1>1, <1>2, <1>3, <1>4, <1>5, <1>6, <1>7, <1>8, <1>9, <1>10, <1>11, <1>12, <1>13, <1>14, <1>15, <1>16, <1>17, <1>18, <1>19, <1>20, <1>21, <1>22, <1>23 DEF Next, SleeperStep, WakerStep

\* Every step leaves a list of distinct threads, all of them in a sleep.
LEMMA ListStep ==
    ASSUME TypeOK, LockInv, ListInv, [Next]_vars PROVE ListInv'
<1> USE DEF ListInv, LockInv, Sleeping
<1>0. /\ pc \in [Threads -> PCs]
      /\ sleepers \in Seq(Threads)
  BY DEF TypeOK
<1>1. ASSUME NEW t \in Threads, ThreadStart(t) PROVE ListInv'
  BY <1>1, <1>0 DEF ThreadStart, Requeue, Goto, waitq, thread, waker
<1>2. ASSUME NEW t \in Threads, NEW m \in Modes, SleepImmediate(t, m) PROVE ListInv'
  <2>1. /\ NoDuplicates(Unlink(sleepers, t))
        /\ \A u : Linked(u, Unlink(sleepers, t)) <=> Linked(u, sleepers) /\ u # t
    BY <1>0, UnlinkUnlinks
  <2> QED
    BY <1>2, <1>0, <2>1 DEF SleepImmediate, Exit, Goto
<1>3. ASSUME NEW t \in Threads, NEW m \in Modes, SleepAppend(t, m) PROVE ListInv'
  <2>1. /\ NoDuplicates(Append(sleepers, t))
        /\ \A u : Linked(u, Append(sleepers, t)) <=> Linked(u, sleepers) \/ u = t
    BY <1>3, <1>0, AppendLinks DEF SleepAppend
  <2> QED
    BY <1>3, <1>0, <2>1 DEF SleepAppend, Goto
<1>4. ASSUME NEW t \in Threads, WaitStart(t) PROVE ListInv'
  BY <1>4, <1>0 DEF WaitStart, Goto, waitq, thread, waker
<1>5. ASSUME NEW t \in Threads, CheckInterrupted(t) PROVE ListInv'
  <2>1. /\ NoDuplicates(Unlink(sleepers, t))
        /\ \A u : Linked(u, Unlink(sleepers, t)) <=> Linked(u, sleepers) /\ u # t
    BY <1>0, UnlinkUnlinks
  <2> QED
    BY <1>5, <1>0, <2>1 DEF CheckInterrupted, Exit, Goto
<1>6. ASSUME NEW t \in Threads, WaitFinish(t) PROVE ListInv'
  <2>1. CASE sleep_state[t] = "INITIAL"
    BY <1>6, <1>0, <2>1, ConstantsAssumption DEF WaitFinish, Goto, waitq
  <2>2. CASE ~(sleep_state[t] = "INITIAL")
    BY <1>6, <1>0, <2>2, ConstantsAssumption DEF WaitFinish, Goto, waitq
  <2> QED
    BY <2>1, <2>2
<1>7. ASSUME NEW t \in Threads, SchedulerEnter(t) PROVE ListInv'
  BY <1>7, <1>0 DEF SchedulerEnter, Goto, waitq, thread, waker
<1>8. ASSUME NEW t \in Threads, ContextSwap(t) PROVE ListInv'
  BY <1>8, <1>0 DEF ContextSwap, Goto, waitq, thread, waker
<1>9. ASSUME NEW t \in Threads, CleanupAfterThread(t) PROVE ListInv'
  <2>1. CASE sleep_state[t] = "INITIAL"
    BY <1>9, <1>0, <2>1, ConstantsAssumption DEF CleanupAfterThread, Goto, waitq
  <2>2. CASE ~(sleep_state[t] = "INITIAL")
    BY <1>9, <1>0, <2>2, ConstantsAssumption DEF CleanupAfterThread, Goto, waitq
  <2> QED
    BY <2>1, <2>2
<1>10. ASSUME NEW t \in Threads, CleanupRequeue(t) PROVE ListInv'
  BY <1>10, <1>0 DEF CleanupRequeue, Goto, Requeue, waitq, thread, waker
<1>11. ASSUME NEW t \in Threads, Dispatch(t) PROVE ListInv'
  BY <1>11, <1>0 DEF Dispatch, Goto, waitq, thread, waker
<1>12. ASSUME NEW t \in Threads, TimeoutUnregister(t) PROVE ListInv'
  BY <1>12, <1>0 DEF TimeoutUnregister, Goto, waitq, thread, waker
<1>13. ASSUME NEW t \in Threads, Relock(t) PROVE ListInv'
  <2>1. /\ NoDuplicates(Unlink(sleepers, t))
        /\ \A u : Linked(u, Unlink(sleepers, t)) <=> Linked(u, sleepers) /\ u # t
    BY <1>0, UnlinkUnlinks
  <2> QED
    BY <1>13, <1>0, <2>1 DEF Relock, Exit, Goto
<1>14. ASSUME NEW c \in Contexts, WakeOne(c) PROVE ListInv'
  <2>1. sleepers # <<>> => /\ NoDuplicates(Tail(sleepers))
                           /\ \A u : Linked(u, Tail(sleepers)) => Linked(u, sleepers) /\ u # Head(sleepers)
                           /\ \A u : Linked(u, sleepers) /\ u # Head(sleepers) => Linked(u, Tail(sleepers))
    BY <1>0, TailUnlinks
  <2>2. \A u \in Threads : pc[u] \notin {"start", "intr"}
    BY <1>14, <1>0, ConstantsAssumption DEF WakeOne
  <2> QED
    BY <1>14, <1>0, <2>1, <2>2 DEF WakeOne, PopFirst, thread
<1>15. ASSUME NEW c \in Contexts, Signal(c) PROVE ListInv'
  <2>1. sleepers # <<>> => /\ NoDuplicates(Tail(sleepers))
                           /\ \A u : Linked(u, Tail(sleepers)) => Linked(u, sleepers) /\ u # Head(sleepers)
                           /\ \A u : Linked(u, sleepers) /\ u # Head(sleepers) => Linked(u, Tail(sleepers))
    BY <1>0, TailUnlinks
  <2>2. \A u \in Threads : pc[u] \notin {"start", "intr"}
    BY <1>15, <1>0, ConstantsAssumption DEF Signal
  <2> QED
    BY <1>15, <1>0, <2>1, <2>2 DEF Signal, PopFirst, thread
<1>16. ASSUME NEW c \in Contexts, NEW o \in {"wake_all", "close"}, WakeAll(c, o) PROVE ListInv'
  <2>1. sleepers # <<>> => /\ NoDuplicates(Tail(sleepers))
                           /\ \A u : Linked(u, Tail(sleepers)) => Linked(u, sleepers) /\ u # Head(sleepers)
                           /\ \A u : Linked(u, sleepers) /\ u # Head(sleepers) => Linked(u, Tail(sleepers))
    BY <1>0, TailUnlinks
  <2>2. \A u \in Threads : pc[u] \notin {"start", "intr"}
    BY <1>16, <1>0, ConstantsAssumption DEF WakeAll
  <2> QED
    BY <1>16, <1>0, <2>1, <2>2 DEF WakeAll, PopFirst, thread
<1>17. ASSUME NEW c \in Contexts, NEW t \in Threads, Interrupt(c, t) PROVE ListInv'
  BY <1>17, <1>0 DEF Interrupt, CallWakeup, Begin, waitq, thread, waker
<1>18. ASSUME NEW c \in Contexts, NEW t \in Threads, StackTrace(c, t) PROVE ListInv'
  BY <1>18, <1>0 DEF StackTrace, CallWakeup, Begin, waitq, thread, waker
<1>19. ASSUME NEW c \in Contexts, NEW t \in Threads, Clock(c, t) PROVE ListInv'
  BY <1>19, <1>0 DEF Clock, CallWakeup, waitq, thread, waker
<1>20. ASSUME NEW c \in Contexts, ThreadWakeup(c) PROVE ListInv'
  BY <1>20, <1>0 DEF ThreadWakeup, waitq, thread, waker
<1>21. ASSUME NEW c \in Contexts, RequeueSleeping(c) PROVE ListInv'
  BY <1>21, <1>0 DEF RequeueSleeping, Requeue, waitq, thread, waker
<1>22. ASSUME NEW c \in Contexts, WakerNext(c) PROVE ListInv'
  <2>1. sleepers # <<>> => /\ NoDuplicates(Tail(sleepers))
                           /\ \A u : Linked(u, Tail(sleepers)) => Linked(u, sleepers) /\ u # Head(sleepers)
                           /\ \A u : Linked(u, sleepers) /\ u # Head(sleepers) => Linked(u, Tail(sleepers))
    BY <1>0, TailUnlinks
  <2>2. op[c] \in WaitqOps => \A u \in Threads : pc[u] \notin {"start", "intr"}
    BY <1>22, <1>0, ConstantsAssumption DEF WakerNext, WaitqOps
  <2> QED
    BY <1>22, <1>0, <2>1, <2>2 DEF WakerNext, PopFirst, WaitqOps
<1>23. ASSUME UNCHANGED vars PROVE ListInv'
  BY <1>23, <1>0 DEF vars
<1> QED
  BY <1>1, <1>2, <1>3, <1>4, <1>5, <1>6, <1>7, <1>8, <1>9, <1>10, <1>11, <1>12, <1>13, <1>14, <1>15, <1>16, <1>17, <1>18, <1>19, <1>20, <1>21, <1>22, <1>23 DEF Next, SleeperStep, WakerStep

\* An operation of the wait queue only moves the context that performs it, and
\* never to thread_requeue_sleeping().
LEMMA WakersMove ==
    ASSUME NEW c \in Contexts, cpc \in [Contexts -> CPCs],
           target \in [Contexts -> Threads \cup {NoOne}],
           \/ WakeOne(c)
           \/ Signal(c)
           \/ \E o \in {"wake_all", "close"} : WakeAll(c, o)
           \/ WakerNext(c)
    PROVE  /\ UNCHANGED <<pc, sleep_state, state, rq>>
           /\ \A d \in Contexts, t \in Threads : Requeuing(d, t)' <=> Requeuing(d, t)
<1>1. UNCHANGED <<pc, sleep_state, state, rq>> /\ cpc[c] # "requeue"
  BY DEF WakeOne, Signal, WakeAll, WakerNext, thread
<1>2. CASE \E o : PopFirst(c, o)
  BY <1>1, <1>2 DEF PopFirst, CallWakeup, Requeuing
<1>3. CASE WakerReturn(c)
  BY <1>1, <1>3 DEF WakerReturn, Requeuing
<1>4. CASE UNCHANGED waker
  BY <1>1, <1>4 DEF waker, Requeuing
<1> QED
  BY <1>1, <1>2, <1>3, <1>4 DEF WakeOne, Signal, WakeAll, WakerNext

\* The sleep pad, the thread state and the run queue change together.
LEMMA PadStep ==
    ASSUME TypeOK, WakerInv, PadInv, [Next]_vars PROVE PadInv'
<1> USE DEF PadInv, WakerInv, Requeuing, SleepStates, States
<1>0. /\ pc \in [Threads -> PCs]
      /\ sleep_state \in [Threads -> SleepStates]
      /\ state \in [Threads -> States]
      /\ rq \in [Threads -> Nat]
      /\ cpc \in [Contexts -> CPCs]
      /\ target \in [Contexts -> Threads \cup {NoOne}]
  BY DEF TypeOK
<1>1. ASSUME NEW t \in Threads, ThreadStart(t) PROVE PadInv'
  BY <1>1, ConstantsAssumption, <1>0 DEF ThreadStart, Requeue, Goto, waitq, thread, waker
<1>2. ASSUME NEW t \in Threads, NEW m \in Modes, SleepImmediate(t, m) PROVE PadInv'
  BY <1>2, ConstantsAssumption, <1>0 DEF SleepImmediate, Exit, Goto, Begin, waitq, thread, waker
<1>3. ASSUME NEW t \in Threads, NEW m \in Modes, SleepAppend(t, m) PROVE PadInv'
  BY <1>3, ConstantsAssumption, <1>0 DEF SleepAppend, Goto, Begin, waitq, thread, waker
<1>4. ASSUME NEW t \in Threads, WaitStart(t) PROVE PadInv'
  BY <1>4, ConstantsAssumption, <1>0 DEF WaitStart, Goto, waitq, thread, waker
<1>5. ASSUME NEW t \in Threads, CheckInterrupted(t) PROVE PadInv'
  <2>1. CASE interrupted[t] /\ mode[t].interruptible
    BY <1>5, <1>0, <2>1, ConstantsAssumption DEF CheckInterrupted, Exit, Goto, waker
  <2>2. CASE ~(interrupted[t] /\ mode[t].interruptible)
    BY <1>5, <1>0, <2>2, ConstantsAssumption DEF CheckInterrupted, Exit, Goto, waker
  <2> QED
    BY <2>1, <2>2
<1>6. ASSUME NEW t \in Threads, WaitFinish(t) PROVE PadInv'
  <2>1. CASE sleep_state[t] = "INITIAL"
    BY <1>6, <1>0, <2>1, ConstantsAssumption DEF WaitFinish, Goto, waker
  <2>2. CASE ~(sleep_state[t] = "INITIAL")
    BY <1>6, <1>0, <2>2, ConstantsAssumption DEF WaitFinish, Goto, waker
  <2> QED
    BY <2>1, <2>2
<1>7. ASSUME NEW t \in Threads, SchedulerEnter(t) PROVE PadInv'
  BY <1>7, ConstantsAssumption, <1>0 DEF SchedulerEnter, Goto, waitq, thread, waker
<1>8. ASSUME NEW t \in Threads, ContextSwap(t) PROVE PadInv'
  BY <1>8, ConstantsAssumption, <1>0 DEF ContextSwap, Goto, waitq, thread, waker
<1>9. ASSUME NEW t \in Threads, CleanupAfterThread(t) PROVE PadInv'
  <2>1. CASE sleep_state[t] = "INITIAL"
    BY <1>9, <1>0, <2>1, ConstantsAssumption DEF CleanupAfterThread, Goto, waker
  <2>2. CASE ~(sleep_state[t] = "INITIAL")
    BY <1>9, <1>0, <2>2, ConstantsAssumption DEF CleanupAfterThread, Goto, waker
  <2> QED
    BY <2>1, <2>2
<1>10. ASSUME NEW t \in Threads, CleanupRequeue(t) PROVE PadInv'
  BY <1>10, ConstantsAssumption, <1>0 DEF CleanupRequeue, Goto, Requeue, waitq, thread, waker
<1>11. ASSUME NEW t \in Threads, Dispatch(t) PROVE PadInv'
  BY <1>11, ConstantsAssumption, <1>0 DEF Dispatch, Goto, waitq, thread, waker
<1>12. ASSUME NEW t \in Threads, TimeoutUnregister(t) PROVE PadInv'
  BY <1>12, ConstantsAssumption, <1>0 DEF TimeoutUnregister, Goto, waitq, thread, waker
<1>13. ASSUME NEW t \in Threads, Relock(t) PROVE PadInv'
  BY <1>13, ConstantsAssumption, <1>0 DEF Relock, Exit, Goto, waitq, thread, waker
<1>14. ASSUME NEW c \in Contexts, WakeOne(c) PROVE PadInv'
  <2> HIDE DEF Requeuing
  <2> QED
    BY <1>14, <1>0, WakersMove
<1>15. ASSUME NEW c \in Contexts, Signal(c) PROVE PadInv'
  <2> HIDE DEF Requeuing
  <2> QED
    BY <1>15, <1>0, WakersMove
<1>16. ASSUME NEW c \in Contexts, NEW o \in {"wake_all", "close"}, WakeAll(c, o) PROVE PadInv'
  <2> HIDE DEF Requeuing
  <2> QED
    BY <1>16, <1>0, WakersMove
<1>17. ASSUME NEW c \in Contexts, NEW t \in Threads, Interrupt(c, t) PROVE PadInv'
  BY <1>17, ConstantsAssumption, <1>0 DEF Interrupt, CallWakeup, Begin, waitq, thread, waker
<1>18. ASSUME NEW c \in Contexts, NEW t \in Threads, StackTrace(c, t) PROVE PadInv'
  BY <1>18, ConstantsAssumption, <1>0 DEF StackTrace, CallWakeup, Begin, waitq, thread, waker
<1>19. ASSUME NEW c \in Contexts, NEW t \in Threads, Clock(c, t) PROVE PadInv'
  BY <1>19, ConstantsAssumption, <1>0 DEF Clock, CallWakeup, waitq, thread, waker
<1>20. ASSUME NEW c \in Contexts, ThreadWakeup(c) PROVE PadInv'
  BY <1>20, ConstantsAssumption, <1>0 DEF ThreadWakeup, waitq, thread, waker
<1>21. ASSUME NEW c \in Contexts, RequeueSleeping(c) PROVE PadInv'
  BY <1>21, ConstantsAssumption, <1>0 DEF RequeueSleeping, Requeue, waitq, thread, waker
<1>22. ASSUME NEW c \in Contexts, WakerNext(c) PROVE PadInv'
  <2> HIDE DEF Requeuing
  <2> QED
    BY <1>22, <1>0, WakersMove
<1>23. ASSUME UNCHANGED vars PROVE PadInv'
  BY <1>23, ConstantsAssumption, <1>0 DEF vars
<1> QED
  BY <1>1, <1>2, <1>3, <1>4, <1>5, <1>6, <1>7, <1>8, <1>9, <1>10, <1>11, <1>12, <1>13, <1>14, <1>15, <1>16, <1>17, <1>18, <1>19, <1>20, <1>21, <1>22, <1>23 DEF Next, SleeperStep, WakerStep

\* A timeout stays in its frame and is run by one context.
LEMMA TimeoutStep ==
    ASSUME TypeOK, WakerInv, TimeoutInv, [Next]_vars PROVE TimeoutInv'
<1> USE DEF TimeoutInv, WakerInv
<1>0. /\ pc \in [Threads -> PCs]
      /\ timeout \in [Threads -> Timeouts]
      /\ op \in [Contexts -> Ops]
      /\ target \in [Contexts -> Threads \cup {NoOne}]
  BY DEF TypeOK
<1>1. ASSUME NEW t \in Threads, ThreadStart(t) PROVE TimeoutInv'
  BY <1>1, ConstantsAssumption, <1>0 DEF ThreadStart, Requeue, Goto, waitq, thread, waker
<1>2. ASSUME NEW t \in Threads, NEW m \in Modes, SleepImmediate(t, m) PROVE TimeoutInv'
  BY <1>2, ConstantsAssumption, <1>0 DEF SleepImmediate, Exit, Goto, Begin, waitq, thread, waker
<1>3. ASSUME NEW t \in Threads, NEW m \in Modes, SleepAppend(t, m) PROVE TimeoutInv'
  BY <1>3, ConstantsAssumption, <1>0 DEF SleepAppend, Goto, Begin, waitq, thread, waker
<1>4. ASSUME NEW t \in Threads, WaitStart(t) PROVE TimeoutInv'
  BY <1>4, ConstantsAssumption, <1>0 DEF WaitStart, Goto, waitq, thread, waker
<1>5. ASSUME NEW t \in Threads, CheckInterrupted(t) PROVE TimeoutInv'
  <2>1. CASE interrupted[t] /\ mode[t].interruptible
    BY <1>5, <1>0, <2>1, ConstantsAssumption DEF CheckInterrupted, Exit, Goto, waker
  <2>2. CASE ~(interrupted[t] /\ mode[t].interruptible)
    BY <1>5, <1>0, <2>2, ConstantsAssumption DEF CheckInterrupted, Exit, Goto, waker
  <2> QED
    BY <2>1, <2>2
<1>6. ASSUME NEW t \in Threads, WaitFinish(t) PROVE TimeoutInv'
  <2>1. CASE sleep_state[t] = "INITIAL"
    BY <1>6, <1>0, <2>1, ConstantsAssumption DEF WaitFinish, Goto, waker
  <2>2. CASE ~(sleep_state[t] = "INITIAL")
    BY <1>6, <1>0, <2>2, ConstantsAssumption DEF WaitFinish, Goto, waker
  <2> QED
    BY <2>1, <2>2
<1>7. ASSUME NEW t \in Threads, SchedulerEnter(t) PROVE TimeoutInv'
  BY <1>7, ConstantsAssumption, <1>0 DEF SchedulerEnter, Goto, waitq, thread, waker
<1>8. ASSUME NEW t \in Threads, ContextSwap(t) PROVE TimeoutInv'
  BY <1>8, ConstantsAssumption, <1>0 DEF ContextSwap, Goto, waitq, thread, waker
<1>9. ASSUME NEW t \in Threads, CleanupAfterThread(t) PROVE TimeoutInv'
  <2>1. CASE sleep_state[t] = "INITIAL"
    BY <1>9, <1>0, <2>1, ConstantsAssumption DEF CleanupAfterThread, Goto, waker
  <2>2. CASE ~(sleep_state[t] = "INITIAL")
    BY <1>9, <1>0, <2>2, ConstantsAssumption DEF CleanupAfterThread, Goto, waker
  <2> QED
    BY <2>1, <2>2
<1>10. ASSUME NEW t \in Threads, CleanupRequeue(t) PROVE TimeoutInv'
  BY <1>10, ConstantsAssumption, <1>0 DEF CleanupRequeue, Goto, Requeue, waitq, thread, waker
<1>11. ASSUME NEW t \in Threads, Dispatch(t) PROVE TimeoutInv'
  BY <1>11, ConstantsAssumption, <1>0 DEF Dispatch, Goto, waitq, thread, waker
<1>12. ASSUME NEW t \in Threads, TimeoutUnregister(t) PROVE TimeoutInv'
  BY <1>12, ConstantsAssumption, <1>0 DEF TimeoutUnregister, Goto, waitq, thread, waker
<1>13. ASSUME NEW t \in Threads, Relock(t) PROVE TimeoutInv'
  BY <1>13, ConstantsAssumption, <1>0 DEF Relock, Exit, Goto, waitq, thread, waker
<1>14. ASSUME NEW c \in Contexts, WakeOne(c) PROVE TimeoutInv'
  BY <1>14, ConstantsAssumption, <1>0 DEF WakeOne, PopFirst, CallWakeup, Begin, waitq, thread, waker
<1>15. ASSUME NEW c \in Contexts, Signal(c) PROVE TimeoutInv'
  BY <1>15, ConstantsAssumption, <1>0 DEF Signal, PopFirst, CallWakeup, Begin, waitq, thread, waker
<1>16. ASSUME NEW c \in Contexts, NEW o \in {"wake_all", "close"}, WakeAll(c, o) PROVE TimeoutInv'
  BY <1>16, ConstantsAssumption, <1>0 DEF WakeAll, PopFirst, CallWakeup, Begin, waitq, thread, waker
<1>17. ASSUME NEW c \in Contexts, NEW t \in Threads, Interrupt(c, t) PROVE TimeoutInv'
  BY <1>17, ConstantsAssumption, <1>0 DEF Interrupt, CallWakeup, Begin, waitq, thread, waker
<1>18. ASSUME NEW c \in Contexts, NEW t \in Threads, StackTrace(c, t) PROVE TimeoutInv'
  BY <1>18, ConstantsAssumption, <1>0 DEF StackTrace, CallWakeup, Begin, waitq, thread, waker
<1>19. ASSUME NEW c \in Contexts, NEW t \in Threads, Clock(c, t) PROVE TimeoutInv'
  BY <1>19, ConstantsAssumption, <1>0 DEF Clock, CallWakeup, waitq, thread, waker
<1>20. ASSUME NEW c \in Contexts, ThreadWakeup(c) PROVE TimeoutInv'
  BY <1>20, ConstantsAssumption, <1>0 DEF ThreadWakeup, waitq, thread, waker
<1>21. ASSUME NEW c \in Contexts, RequeueSleeping(c) PROVE TimeoutInv'
  BY <1>21, ConstantsAssumption, <1>0 DEF RequeueSleeping, Requeue, waitq, thread, waker
<1>22. ASSUME NEW c \in Contexts, WakerNext(c) PROVE TimeoutInv'
  BY <1>22, ConstantsAssumption, <1>0 DEF WakerNext, PopFirst, CallWakeup, WakerReturn, waitq, thread, waker
<1>23. ASSUME UNCHANGED vars PROVE TimeoutInv'
  BY <1>23, ConstantsAssumption, <1>0 DEF vars
<1> QED
  BY <1>1, <1>2, <1>3, <1>4, <1>5, <1>6, <1>7, <1>8, <1>9, <1>10, <1>11, <1>12, <1>13, <1>14, <1>15, <1>16, <1>17, <1>18, <1>19, <1>20, <1>21, <1>22, <1>23 DEF Next, SleeperStep, WakerStep

\* Nobody is linked in an empty list, and removing from it leaves it empty.
LEMMA EmptyList ==
    ASSUME NEW S, NEW s \in Seq(S), NEW u
    PROVE  /\ Linked(u, s) => s # <<>>
           /\ s = <<>> => Unlink(s, u) = <<>>
<1>1. Linked(u, s) => s # <<>>
  BY DEF Linked
<1> QED
  BY <1>1, UnlinkType

\* Wakeups are stored only while nobody sleeps.
LEMMA StoredStep ==
    ASSUME TypeOK, LockInv, WakerInv, ListInv, StoredInv, [Next]_vars PROVE StoredInv'
<1> USE DEF StoredInv, WakerInv, LockInv, WaitqOps
<1>0. /\ wakeup_balance \in Int
      /\ sleepers \in Seq(Threads)
      /\ op \in [Contexts -> Ops]
      /\ closed \in BOOLEAN
  BY DEF TypeOK
<1>1. ASSUME NEW t \in Threads, ThreadStart(t) PROVE StoredInv'
  BY <1>1, ConstantsAssumption, <1>0 DEF ThreadStart, Requeue, Goto, waitq, thread, waker
<1>2. ASSUME NEW t \in Threads, NEW m \in Modes, SleepImmediate(t, m) PROVE StoredInv'
  <2>1. sleepers = <<>> => Unlink(sleepers, t) = <<>>
    BY <1>0, EmptyList
  <2>2. closed => sleepers = <<>>
    BY <1>2, <1>0, ConstantsAssumption DEF SleepImmediate
  <2> QED
    BY <1>2, <1>0, <2>1, <2>2 DEF SleepImmediate, Exit, waker
<1>3. ASSUME NEW t \in Threads, NEW m \in Modes, SleepAppend(t, m) PROVE StoredInv'
  BY <1>3, ConstantsAssumption, <1>0 DEF SleepAppend, Goto, Begin, waitq, thread, waker
<1>4. ASSUME NEW t \in Threads, WaitStart(t) PROVE StoredInv'
  BY <1>4, ConstantsAssumption, <1>0 DEF WaitStart, Goto, waitq, thread, waker
<1>5. ASSUME NEW t \in Threads, CheckInterrupted(t) PROVE StoredInv'
  <2>1. sleepers = <<>> => Unlink(sleepers, t) = <<>>
    BY <1>0, EmptyList
  <2>2. sleepers # <<>> /\ lock = t
    BY <1>5, <1>0, EmptyList DEF CheckInterrupted, ListInv
  <2>3. ~closed
    BY <2>2, ConstantsAssumption
  <2> QED
    BY <1>5, <1>0, <2>1, <2>2, <2>3 DEF CheckInterrupted, Exit, waker
<1>6. ASSUME NEW t \in Threads, WaitFinish(t) PROVE StoredInv'
  BY <1>6, ConstantsAssumption, <1>0 DEF WaitFinish, Goto, waitq, thread, waker
<1>7. ASSUME NEW t \in Threads, SchedulerEnter(t) PROVE StoredInv'
  BY <1>7, ConstantsAssumption, <1>0 DEF SchedulerEnter, Goto, waitq, thread, waker
<1>8. ASSUME NEW t \in Threads, ContextSwap(t) PROVE StoredInv'
  BY <1>8, ConstantsAssumption, <1>0 DEF ContextSwap, Goto, waitq, thread, waker
<1>9. ASSUME NEW t \in Threads, CleanupAfterThread(t) PROVE StoredInv'
  BY <1>9, ConstantsAssumption, <1>0 DEF CleanupAfterThread, Goto, waitq, thread, waker
<1>10. ASSUME NEW t \in Threads, CleanupRequeue(t) PROVE StoredInv'
  BY <1>10, ConstantsAssumption, <1>0 DEF CleanupRequeue, Goto, Requeue, waitq, thread, waker
<1>11. ASSUME NEW t \in Threads, Dispatch(t) PROVE StoredInv'
  BY <1>11, ConstantsAssumption, <1>0 DEF Dispatch, Goto, waitq, thread, waker
<1>12. ASSUME NEW t \in Threads, TimeoutUnregister(t) PROVE StoredInv'
  BY <1>12, ConstantsAssumption, <1>0 DEF TimeoutUnregister, Goto, waitq, thread, waker
<1>13. ASSUME NEW t \in Threads, Relock(t) PROVE StoredInv'
  <2>1. sleepers = <<>> => Unlink(sleepers, t) = <<>>
    BY <1>0, EmptyList
  <2>2. Linked(t, sleepers) => sleepers # <<>>
    BY <1>0, EmptyList
  <2>3. closed => sleepers = <<>>
    BY <1>13, <1>0, ConstantsAssumption DEF Relock
  <2> QED
    BY <1>13, <1>0, <2>1, <2>2, <2>3 DEF Relock, Exit, waker
<1>14. ASSUME NEW c \in Contexts, WakeOne(c) PROVE StoredInv'
  BY <1>14, ConstantsAssumption, <1>0 DEF WakeOne, PopFirst, CallWakeup, Begin, waitq, thread, waker
<1>15. ASSUME NEW c \in Contexts, Signal(c) PROVE StoredInv'
  BY <1>15, ConstantsAssumption, <1>0 DEF Signal, PopFirst, CallWakeup, Begin, waitq, thread, waker
<1>16. ASSUME NEW c \in Contexts, NEW o \in {"wake_all", "close"}, WakeAll(c, o) PROVE StoredInv'
  BY <1>16, ConstantsAssumption, <1>0 DEF WakeAll, PopFirst, CallWakeup, Begin, waitq, thread, waker
<1>17. ASSUME NEW c \in Contexts, NEW t \in Threads, Interrupt(c, t) PROVE StoredInv'
  BY <1>17, ConstantsAssumption, <1>0 DEF Interrupt, CallWakeup, Begin, waitq, thread, waker
<1>18. ASSUME NEW c \in Contexts, NEW t \in Threads, StackTrace(c, t) PROVE StoredInv'
  BY <1>18, ConstantsAssumption, <1>0 DEF StackTrace, CallWakeup, Begin, waitq, thread, waker
<1>19. ASSUME NEW c \in Contexts, NEW t \in Threads, Clock(c, t) PROVE StoredInv'
  BY <1>19, ConstantsAssumption, <1>0 DEF Clock, CallWakeup, waitq, thread, waker
<1>20. ASSUME NEW c \in Contexts, ThreadWakeup(c) PROVE StoredInv'
  BY <1>20, ConstantsAssumption, <1>0 DEF ThreadWakeup, waitq, thread, waker
<1>21. ASSUME NEW c \in Contexts, RequeueSleeping(c) PROVE StoredInv'
  BY <1>21, ConstantsAssumption, <1>0 DEF RequeueSleeping, Requeue, waitq, thread, waker
<1>22. ASSUME NEW c \in Contexts, WakerNext(c) PROVE StoredInv'
  BY <1>22, ConstantsAssumption, <1>0 DEF WakerNext, PopFirst, CallWakeup, WakerReturn, waitq, thread, waker
<1>23. ASSUME UNCHANGED vars PROVE StoredInv'
  BY <1>23, ConstantsAssumption, <1>0 DEF vars
<1> QED
  BY <1>1, <1>2, <1>3, <1>4, <1>5, <1>6, <1>7, <1>8, <1>9, <1>10, <1>11, <1>12, <1>13, <1>14, <1>15, <1>16, <1>17, <1>18, <1>19, <1>20, <1>21, <1>22, <1>23 DEF Next, SleeperStep, WakerStep

\* No step loses a wakeup.
LEMMA NoLostWakeupStep ==
    ASSUME TypeOK, ListInv, PadInv, NoLostWakeup, [Next]_vars PROVE NoLostWakeup'
<1> USE DEF NoLostWakeup, MayBlock, Waking
<1>0. /\ pc \in [Threads -> PCs]
      /\ sleep_state \in [Threads -> SleepStates]
      /\ cpc \in [Contexts -> CPCs]
      /\ target \in [Contexts -> Threads \cup {NoOne}]
      /\ sleepers \in Seq(Threads)
  BY DEF TypeOK
<1>1. ASSUME NEW t \in Threads, ThreadStart(t) PROVE NoLostWakeup'
  BY <1>1, ConstantsAssumption, <1>0 DEF ThreadStart, Requeue, Goto, waitq, thread, waker
<1>2. ASSUME NEW t \in Threads, NEW m \in Modes, SleepImmediate(t, m) PROVE NoLostWakeup'
  <2>1. \A u : Linked(u, Unlink(sleepers, t)) <=> Linked(u, sleepers) /\ u # t
    BY <1>0, UnlinkUnlinks DEF ListInv
  <2> QED
    BY <1>2, <1>0, <2>1 DEF SleepImmediate, Exit, Goto, waker
<1>3. ASSUME NEW t \in Threads, NEW m \in Modes, SleepAppend(t, m) PROVE NoLostWakeup'
  <2>1. \A u : Linked(u, sleepers) => Linked(u, sleepers')
    BY <1>3, <1>0, AppendLinks DEF SleepAppend
  <2> QED
    BY <1>3, <1>0, <2>1 DEF SleepAppend, Goto, waker
<1>4. ASSUME NEW t \in Threads, WaitStart(t) PROVE NoLostWakeup'
  BY <1>4, ConstantsAssumption, <1>0 DEF WaitStart, Goto, waitq, thread, waker
<1>5. ASSUME NEW t \in Threads, CheckInterrupted(t) PROVE NoLostWakeup'
  <2>1. \A u : Linked(u, Unlink(sleepers, t)) <=> Linked(u, sleepers) /\ u # t
    BY <1>0, UnlinkUnlinks DEF ListInv
  <2> QED
    BY <1>5, <1>0, <2>1 DEF CheckInterrupted, Exit, Goto, waker, ListInv
<1>6. ASSUME NEW t \in Threads, WaitFinish(t) PROVE NoLostWakeup'
  BY <1>6, ConstantsAssumption, <1>0 DEF WaitFinish, Goto, waitq, thread, waker
<1>7. ASSUME NEW t \in Threads, SchedulerEnter(t) PROVE NoLostWakeup'
  BY <1>7, ConstantsAssumption, <1>0 DEF SchedulerEnter, Goto, waitq, thread, waker
<1>8. ASSUME NEW t \in Threads, ContextSwap(t) PROVE NoLostWakeup'
  BY <1>8, ConstantsAssumption, <1>0 DEF ContextSwap, Goto, waitq, thread, waker
<1>9. ASSUME NEW t \in Threads, CleanupAfterThread(t) PROVE NoLostWakeup'
  BY <1>9, ConstantsAssumption, <1>0 DEF CleanupAfterThread, Goto, waitq, thread, waker
<1>10. ASSUME NEW t \in Threads, CleanupRequeue(t) PROVE NoLostWakeup'
  <2>1. sleep_state[t] = "WOKE"
    BY <1>10, <1>0 DEF PadInv, CleanupRequeue
  <2> QED
    BY <1>10, <1>0, <2>1 DEF CleanupRequeue, Goto, Requeue, waitq, waker
<1>11. ASSUME NEW t \in Threads, Dispatch(t) PROVE NoLostWakeup'
  BY <1>11, ConstantsAssumption, <1>0 DEF Dispatch, Goto, waitq, thread, waker
<1>12. ASSUME NEW t \in Threads, TimeoutUnregister(t) PROVE NoLostWakeup'
  BY <1>12, ConstantsAssumption, <1>0 DEF TimeoutUnregister, Goto, waitq, thread, waker
<1>13. ASSUME NEW t \in Threads, Relock(t) PROVE NoLostWakeup'
  <2>1. \A u : Linked(u, Unlink(sleepers, t)) <=> Linked(u, sleepers) /\ u # t
    BY <1>0, UnlinkUnlinks DEF ListInv
  <2> QED
    BY <1>13, <1>0, <2>1 DEF Relock, Exit, Goto, waker
<1>14. ASSUME NEW c \in Contexts, WakeOne(c) PROVE NoLostWakeup'
  <2>1. CASE \E o : sleepers # <<>> /\ PopFirst(c, o)
    <3>1. \A u : Linked(u, sleepers) => Linked(u, sleepers') \/ u = Head(sleepers)
      BY <1>0, <2>1, TailUnlinks DEF ListInv, PopFirst
    <3>2. cpc[c] # "wakeup" /\ UNCHANGED <<pc, sleep_state>>
      BY <1>14, <1>0 DEF WakeOne, thread
    <3> QED
      BY <1>0, <2>1, <3>1, <3>2 DEF PopFirst, CallWakeup
  <2>2. CASE UNCHANGED <<sleepers, waker>> \/ (UNCHANGED sleepers /\ WakerReturn(c))
    BY <1>14, <1>0, <2>2 DEF WakeOne, WakerReturn, waker, thread
  <2> QED
    BY <1>14, <1>0, <2>1, <2>2 DEF WakeOne
<1>15. ASSUME NEW c \in Contexts, Signal(c) PROVE NoLostWakeup'
  <2>1. CASE \E o : sleepers # <<>> /\ PopFirst(c, o)
    <3>1. \A u : Linked(u, sleepers) => Linked(u, sleepers') \/ u = Head(sleepers)
      BY <1>0, <2>1, TailUnlinks DEF ListInv, PopFirst
    <3>2. cpc[c] # "wakeup" /\ UNCHANGED <<pc, sleep_state>>
      BY <1>15, <1>0 DEF Signal, thread
    <3> QED
      BY <1>0, <2>1, <3>1, <3>2 DEF PopFirst, CallWakeup
  <2>2. CASE UNCHANGED <<sleepers, waker>> \/ (UNCHANGED sleepers /\ WakerReturn(c))
    BY <1>15, <1>0, <2>2 DEF Signal, WakerReturn, waker, thread
  <2> QED
    BY <1>15, <1>0, <2>1, <2>2 DEF Signal
<1>16. ASSUME NEW c \in Contexts, NEW o \in {"wake_all", "close"}, WakeAll(c, o) PROVE NoLostWakeup'
  <2>1. CASE \E x : sleepers # <<>> /\ PopFirst(c, x)
    <3>1. \A u : Linked(u, sleepers) => Linked(u, sleepers') \/ u = Head(sleepers)
      BY <1>0, <2>1, TailUnlinks DEF ListInv, PopFirst
    <3>2. cpc[c] # "wakeup" /\ UNCHANGED <<pc, sleep_state>>
      BY <1>16, <1>0 DEF WakeAll, thread
    <3> QED
      BY <1>0, <2>1, <3>1, <3>2 DEF PopFirst, CallWakeup
  <2>2. CASE UNCHANGED <<sleepers, waker>> \/ (UNCHANGED sleepers /\ WakerReturn(c))
    BY <1>16, <1>0, <2>2 DEF WakeAll, WakerReturn, waker, thread
  <2> QED
    BY <1>16, <1>0, <2>1, <2>2 DEF WakeAll
<1>17. ASSUME NEW c \in Contexts, NEW t \in Threads, Interrupt(c, t) PROVE NoLostWakeup'
  BY <1>17, ConstantsAssumption, <1>0 DEF Interrupt, CallWakeup, Begin, waitq, thread, waker
<1>18. ASSUME NEW c \in Contexts, NEW t \in Threads, StackTrace(c, t) PROVE NoLostWakeup'
  BY <1>18, ConstantsAssumption, <1>0 DEF StackTrace, CallWakeup, Begin, waitq, thread, waker
<1>19. ASSUME NEW c \in Contexts, NEW t \in Threads, Clock(c, t) PROVE NoLostWakeup'
  BY <1>19, ConstantsAssumption, <1>0 DEF Clock, CallWakeup, waitq, thread, waker
<1>20. ASSUME NEW c \in Contexts, ThreadWakeup(c) PROVE NoLostWakeup'
  BY <1>20, ConstantsAssumption, <1>0 DEF ThreadWakeup, waitq, thread, waker
<1>21. ASSUME NEW c \in Contexts, RequeueSleeping(c) PROVE NoLostWakeup'
  BY <1>21, ConstantsAssumption, <1>0 DEF RequeueSleeping, Requeue, waitq, thread, waker
<1>22. ASSUME NEW c \in Contexts, WakerNext(c) PROVE NoLostWakeup'
  <2>1. CASE \E o : sleepers # <<>> /\ PopFirst(c, o)
    <3>1. \A u : Linked(u, sleepers) => Linked(u, sleepers') \/ u = Head(sleepers)
      BY <1>0, <2>1, TailUnlinks DEF ListInv, PopFirst
    <3>2. cpc[c] # "wakeup" /\ UNCHANGED <<pc, sleep_state>>
      BY <1>22, <1>0 DEF WakerNext, thread
    <3> QED
      BY <1>0, <2>1, <3>1, <3>2 DEF PopFirst, CallWakeup
  <2>2. CASE UNCHANGED <<sleepers, waker>> \/ (UNCHANGED sleepers /\ WakerReturn(c))
    BY <1>22, <1>0, <2>2 DEF WakerNext, WakerReturn, waker
  <2> QED
    BY <1>22, <1>0, <2>1, <2>2 DEF WakerNext
<1>23. ASSUME UNCHANGED vars PROVE NoLostWakeup'
  BY <1>23, ConstantsAssumption, <1>0 DEF vars
<1> QED
  BY <1>1, <1>2, <1>3, <1>4, <1>5, <1>6, <1>7, <1>8, <1>9, <1>10, <1>11, <1>12, <1>13, <1>14, <1>15, <1>16, <1>17, <1>18, <1>19, <1>20, <1>21, <1>22, <1>23 DEF Next, SleeperStep, WakerStep

\* No step loses an interruption.
LEMMA NoLostInterruptStep ==
    ASSUME TypeOK, PadInv, NoLostInterrupt, [Next]_vars PROVE NoLostInterrupt'
<1> USE DEF NoLostInterrupt, MayBlock, Waking
<1>0. /\ pc \in [Threads -> PCs]
      /\ sleep_state \in [Threads -> SleepStates]
      /\ cpc \in [Contexts -> CPCs]
      /\ target \in [Contexts -> Threads \cup {NoOne}]
      /\ mode \in [Threads -> ModeType]
      /\ interrupted \in [Threads -> BOOLEAN]
  BY DEF TypeOK
<1>1. ASSUME NEW t \in Threads, ThreadStart(t) PROVE NoLostInterrupt'
  BY <1>1, ConstantsAssumption, <1>0 DEF ThreadStart, Requeue, Goto, waitq, thread, waker
<1>2. ASSUME NEW t \in Threads, NEW m \in Modes, SleepImmediate(t, m) PROVE NoLostInterrupt'
  BY <1>2, ConstantsAssumption, <1>0 DEF SleepImmediate, Exit, Goto, Begin, waitq, thread, waker
<1>3. ASSUME NEW t \in Threads, NEW m \in Modes, SleepAppend(t, m) PROVE NoLostInterrupt'
  BY <1>3, ConstantsAssumption, <1>0 DEF SleepAppend, Goto, Begin, waitq, thread, waker
<1>4. ASSUME NEW t \in Threads, WaitStart(t) PROVE NoLostInterrupt'
  BY <1>4, ConstantsAssumption, <1>0 DEF WaitStart, Goto, waitq, thread, waker
<1>5. ASSUME NEW t \in Threads, CheckInterrupted(t) PROVE NoLostInterrupt'
  BY <1>5, ConstantsAssumption, <1>0 DEF CheckInterrupted, Exit, Goto, waitq, thread, waker
<1>6. ASSUME NEW t \in Threads, WaitFinish(t) PROVE NoLostInterrupt'
  BY <1>6, ConstantsAssumption, <1>0 DEF WaitFinish, Goto, waitq, thread, waker
<1>7. ASSUME NEW t \in Threads, SchedulerEnter(t) PROVE NoLostInterrupt'
  BY <1>7, ConstantsAssumption, <1>0 DEF SchedulerEnter, Goto, waitq, thread, waker
<1>8. ASSUME NEW t \in Threads, ContextSwap(t) PROVE NoLostInterrupt'
  BY <1>8, ConstantsAssumption, <1>0 DEF ContextSwap, Goto, waitq, thread, waker
<1>9. ASSUME NEW t \in Threads, CleanupAfterThread(t) PROVE NoLostInterrupt'
  BY <1>9, ConstantsAssumption, <1>0 DEF CleanupAfterThread, Goto, waitq, thread, waker
<1>10. ASSUME NEW t \in Threads, CleanupRequeue(t) PROVE NoLostInterrupt'
  <2>1. sleep_state[t] = "WOKE"
    BY <1>10, <1>0 DEF PadInv, CleanupRequeue
  <2> QED
    BY <1>10, <1>0, <2>1 DEF CleanupRequeue, Goto, Requeue, waitq, waker
<1>11. ASSUME NEW t \in Threads, Dispatch(t) PROVE NoLostInterrupt'
  BY <1>11, ConstantsAssumption, <1>0 DEF Dispatch, Goto, waitq, thread, waker
<1>12. ASSUME NEW t \in Threads, TimeoutUnregister(t) PROVE NoLostInterrupt'
  BY <1>12, ConstantsAssumption, <1>0 DEF TimeoutUnregister, Goto, waitq, thread, waker
<1>13. ASSUME NEW t \in Threads, Relock(t) PROVE NoLostInterrupt'
  BY <1>13, ConstantsAssumption, <1>0 DEF Relock, Exit, Goto, waitq, thread, waker
<1>14. ASSUME NEW c \in Contexts, WakeOne(c) PROVE NoLostInterrupt'
  BY <1>14, ConstantsAssumption, <1>0 DEF WakeOne, PopFirst, CallWakeup, Begin, waitq, thread, waker
<1>15. ASSUME NEW c \in Contexts, Signal(c) PROVE NoLostInterrupt'
  BY <1>15, ConstantsAssumption, <1>0 DEF Signal, PopFirst, CallWakeup, Begin, waitq, thread, waker
<1>16. ASSUME NEW c \in Contexts, NEW o \in {"wake_all", "close"}, WakeAll(c, o) PROVE NoLostInterrupt'
  BY <1>16, ConstantsAssumption, <1>0 DEF WakeAll, PopFirst, CallWakeup, Begin, waitq, thread, waker
<1>17. ASSUME NEW c \in Contexts, NEW t \in Threads, Interrupt(c, t) PROVE NoLostInterrupt'
  BY <1>17, ConstantsAssumption, <1>0 DEF Interrupt, CallWakeup, Begin, waitq, thread, waker
<1>18. ASSUME NEW c \in Contexts, NEW t \in Threads, StackTrace(c, t) PROVE NoLostInterrupt'
  BY <1>18, ConstantsAssumption, <1>0 DEF StackTrace, CallWakeup, Begin, waitq, thread, waker
<1>19. ASSUME NEW c \in Contexts, NEW t \in Threads, Clock(c, t) PROVE NoLostInterrupt'
  BY <1>19, ConstantsAssumption, <1>0 DEF Clock, CallWakeup, waitq, thread, waker
<1>20. ASSUME NEW c \in Contexts, ThreadWakeup(c) PROVE NoLostInterrupt'
  BY <1>20, ConstantsAssumption, <1>0 DEF ThreadWakeup, waitq, thread, waker
<1>21. ASSUME NEW c \in Contexts, RequeueSleeping(c) PROVE NoLostInterrupt'
  BY <1>21, ConstantsAssumption, <1>0 DEF RequeueSleeping, Requeue, waitq, thread, waker
<1>22. ASSUME NEW c \in Contexts, WakerNext(c) PROVE NoLostInterrupt'
  BY <1>22, ConstantsAssumption, <1>0 DEF WakerNext, PopFirst, CallWakeup, WakerReturn, waitq, thread, waker
<1>23. ASSUME UNCHANGED vars PROVE NoLostInterrupt'
  BY <1>23, ConstantsAssumption, <1>0 DEF vars
<1> QED
  BY <1>1, <1>2, <1>3, <1>4, <1>5, <1>6, <1>7, <1>8, <1>9, <1>10, <1>11, <1>12, <1>13, <1>14, <1>15, <1>16, <1>17, <1>18, <1>19, <1>20, <1>21, <1>22, <1>23 DEF Next, SleeperStep, WakerStep

\* No step loses a timeout.
LEMMA NoLostTimeoutStep ==
    ASSUME TypeOK, WakerInv, PadInv, TimeoutInv, NoLostTimeout, [Next]_vars PROVE NoLostTimeout'
<1> USE DEF NoLostTimeout, MayBlock, Waking
<1>0. /\ pc \in [Threads -> PCs]
      /\ sleep_state \in [Threads -> SleepStates]
      /\ cpc \in [Contexts -> CPCs]
      /\ target \in [Contexts -> Threads \cup {NoOne}]
      /\ mode \in [Threads -> ModeType]
      /\ timeout \in [Threads -> Timeouts]
      /\ op \in [Contexts -> Ops]
  BY DEF TypeOK
<1>1. ASSUME NEW t \in Threads, ThreadStart(t) PROVE NoLostTimeout'
  BY <1>1, ConstantsAssumption, <1>0 DEF ThreadStart, Requeue, Goto, waitq, thread, waker
<1>2. ASSUME NEW t \in Threads, NEW m \in Modes, SleepImmediate(t, m) PROVE NoLostTimeout'
  BY <1>2, ConstantsAssumption, <1>0 DEF SleepImmediate, Exit, Goto, Begin, waitq, thread, waker
<1>3. ASSUME NEW t \in Threads, NEW m \in Modes, SleepAppend(t, m) PROVE NoLostTimeout'
  BY <1>3, ConstantsAssumption, <1>0 DEF SleepAppend, Goto, Begin, waitq, thread, waker
<1>4. ASSUME NEW t \in Threads, WaitStart(t) PROVE NoLostTimeout'
  BY <1>4, ConstantsAssumption, <1>0 DEF WaitStart, Goto, waitq, thread, waker
<1>5. ASSUME NEW t \in Threads, CheckInterrupted(t) PROVE NoLostTimeout'
  BY <1>5, ConstantsAssumption, <1>0 DEF CheckInterrupted, Exit, Goto, waitq, thread, waker
<1>6. ASSUME NEW t \in Threads, WaitFinish(t) PROVE NoLostTimeout'
  BY <1>6, ConstantsAssumption, <1>0 DEF WaitFinish, Goto, waitq, thread, waker
<1>7. ASSUME NEW t \in Threads, SchedulerEnter(t) PROVE NoLostTimeout'
  BY <1>7, ConstantsAssumption, <1>0 DEF SchedulerEnter, Goto, waitq, thread, waker
<1>8. ASSUME NEW t \in Threads, ContextSwap(t) PROVE NoLostTimeout'
  BY <1>8, ConstantsAssumption, <1>0 DEF ContextSwap, Goto, waitq, thread, waker
<1>9. ASSUME NEW t \in Threads, CleanupAfterThread(t) PROVE NoLostTimeout'
  BY <1>9, ConstantsAssumption, <1>0 DEF CleanupAfterThread, Goto, waitq, thread, waker
<1>10. ASSUME NEW t \in Threads, CleanupRequeue(t) PROVE NoLostTimeout'
  <2>1. sleep_state[t] = "WOKE"
    BY <1>10, <1>0 DEF PadInv, CleanupRequeue
  <2> QED
    BY <1>10, <1>0, <2>1 DEF CleanupRequeue, Goto, Requeue, waitq, waker
<1>11. ASSUME NEW t \in Threads, Dispatch(t) PROVE NoLostTimeout'
  BY <1>11, ConstantsAssumption, <1>0 DEF Dispatch, Goto, waitq, thread, waker
<1>12. ASSUME NEW t \in Threads, TimeoutUnregister(t) PROVE NoLostTimeout'
  BY <1>12, ConstantsAssumption, <1>0 DEF TimeoutUnregister, Goto, waitq, thread, waker
<1>13. ASSUME NEW t \in Threads, Relock(t) PROVE NoLostTimeout'
  BY <1>13, ConstantsAssumption, <1>0 DEF Relock, Exit, Goto, waitq, thread, waker
<1>14. ASSUME NEW c \in Contexts, WakeOne(c) PROVE NoLostTimeout'
  BY <1>14, ConstantsAssumption, <1>0 DEF WakeOne, PopFirst, CallWakeup, Begin, waitq, thread, waker
<1>15. ASSUME NEW c \in Contexts, Signal(c) PROVE NoLostTimeout'
  BY <1>15, ConstantsAssumption, <1>0 DEF Signal, PopFirst, CallWakeup, Begin, waitq, thread, waker
<1>16. ASSUME NEW c \in Contexts, NEW o \in {"wake_all", "close"}, WakeAll(c, o) PROVE NoLostTimeout'
  BY <1>16, ConstantsAssumption, <1>0 DEF WakeAll, PopFirst, CallWakeup, Begin, waitq, thread, waker
<1>17. ASSUME NEW c \in Contexts, NEW t \in Threads, Interrupt(c, t) PROVE NoLostTimeout'
  BY <1>17, ConstantsAssumption, <1>0 DEF Interrupt, CallWakeup, Begin, waitq, thread, waker
<1>18. ASSUME NEW c \in Contexts, NEW t \in Threads, StackTrace(c, t) PROVE NoLostTimeout'
  BY <1>18, ConstantsAssumption, <1>0 DEF StackTrace, CallWakeup, Begin, waitq, thread, waker
<1>19. ASSUME NEW c \in Contexts, NEW t \in Threads, Clock(c, t) PROVE NoLostTimeout'
  BY <1>19, ConstantsAssumption, <1>0 DEF Clock, CallWakeup, waitq, thread, waker
<1>20. ASSUME NEW c \in Contexts, ThreadWakeup(c) PROVE NoLostTimeout'
  BY <1>20, ConstantsAssumption, <1>0 DEF ThreadWakeup, waitq, thread, waker
<1>21. ASSUME NEW c \in Contexts, RequeueSleeping(c) PROVE NoLostTimeout'
  BY <1>21, ConstantsAssumption, <1>0 DEF RequeueSleeping, Requeue, waitq, thread, waker
<1>22. ASSUME NEW c \in Contexts, WakerNext(c) PROVE NoLostTimeout'
  <2>1. UNCHANGED <<pc, sleep_state, mode>>
    BY <1>22, <1>0 DEF WakerNext
  <2>2. \A u \in Threads : timeout[u] = "active" => timeout'[u] = "active"
    BY <1>22, <1>0 DEF WakerNext, TimeoutInv, WakerInv
  <2>3. \A d \in Contexts : cpc[d] = "wakeup" =>
           cpc'[d] = "wakeup" /\ target'[d] = target[d] /\ op'[d] = op[d]
    <3>1. \A d \in Contexts : d # c =>
             cpc'[d] = cpc[d] /\ target'[d] = target[d] /\ op'[d] = op[d]
      BY <1>22, <1>0 DEF WakerNext, PopFirst, CallWakeup, WakerReturn
    <3> QED
      BY <1>22, <1>0, <3>1 DEF WakerNext
  <2> QED
    BY <2>1, <2>2, <2>3
<1>23. ASSUME UNCHANGED vars PROVE NoLostTimeout'
  BY <1>23, ConstantsAssumption, <1>0 DEF vars
<1> QED
  BY <1>1, <1>2, <1>3, <1>4, <1>5, <1>6, <1>7, <1>8, <1>9, <1>10, <1>11, <1>12, <1>13, <1>14, <1>15, <1>16, <1>17, <1>18, <1>19, <1>20, <1>21, <1>22, <1>23 DEF Next, SleeperStep, WakerStep

-----------------------------------------------------------------------------
(* The theorems. *)

\* The initial state satisfies the inductive invariant.
LEMMA InitIInv == Init => IInv
<1> SUFFICES ASSUME Init PROVE IInv
  OBVIOUS
<1>1. TypeOK
  <2>1. mode \in [Threads -> ModeType]
    BY DEF Init, ModeType, Kinds, NoMode
  <2>2. sleepers \in Seq(Threads) /\ budget \in Nat /\ wakeup_balance \in Int
    BY ConstantsAssumption DEF Init
  <2> QED
    BY <2>1, <2>2 DEF Init, TypeOK, PCs, SleepStates, States, Timeouts, Results, Ops, CPCs
<1>2. LockInv /\ WakerInv /\ PadInv /\ TimeoutInv
  BY ConstantsAssumption DEF Init, LockInv, WakerInv, PadInv, TimeoutInv, WaitqOps,
     Requeuing
<1>3. ListInv /\ StoredInv
  BY DEF Init, ListInv, StoredInv, NoDuplicates, Linked
<1>4. NoLostWakeup /\ NoLostInterrupt /\ NoLostTimeout
  BY DEF Init, NoLostWakeup, NoLostInterrupt, NoLostTimeout, MayBlock
<1> QED
  BY <1>1, <1>2, <1>3, <1>4 DEF IInv

\* Every step preserves the inductive invariant.
LEMMA StepIInv == IInv /\ [Next]_vars => IInv'
BY TypeStep, LockStep, WakerInvStep, ListStep, PadStep, TimeoutStep, StoredStep,
   NoLostWakeupStep, NoLostInterruptStep, NoLostTimeoutStep DEF IInv

\* The inductive invariant holds in every reachable state.
THEOREM Invariance == Spec => []IInv
BY InitIInv, StepIInv, PTL DEF Spec

\* Type correctness of waitq_t, thread_t and the waking contexts.
THEOREM TypeCorrect == Spec => []TypeOK
<1>1. IInv => TypeOK
  BY DEF IInv
<1> QED
  BY Invariance, <1>1, PTL

\* No wakeup is lost between _wake_one(), the sleep pad and
\* cleanup_after_thread(), whenever the waker comes.
THEOREM WakeupNotLost == Spec => []NoLostWakeup
<1>1. IInv => NoLostWakeup
  BY DEF IInv
<1> QED
  BY Invariance, <1>1, PTL

\* No thread sleeps on after thread_interrupt(), although `interrupted' is
\* read without a lock in waitq_sleep_timeout_unsafe().
THEOREM InterruptNotLost == Spec => []NoLostInterrupt
<1>1. IInv => NoLostInterrupt
  BY DEF IInv
<1> QED
  BY Invariance, <1>1, PTL

\* No timed sleep goes on without a timeout that is going to end it, in any
\* round of the loop in waitq_sleep_timeout_unsafe().
THEOREM TimeoutNotLost == Spec => []NoLostTimeout
<1>1. IInv => NoLostTimeout
  BY DEF IInv
<1> QED
  BY Invariance, <1>1, PTL

\* A woken thread is put on a run queue exactly once, after its context is saved.
THEOREM RequeueCorrect == Spec => []RequeuedOnce
<1>1. IInv => RequeuedOnce
  <2> SUFFICES ASSUME IInv, NEW t \in Threads
               PROVE  /\ rq[t] <= 1
                      /\ rq[t] = 1 => /\ pc[t] \in {"off", "started"}
                                      /\ \A c \in Contexts : ~Requeuing(c, t)
                      /\ pc[t] = "requeue" => /\ rq[t] = 0
                                              /\ state[t] = "Sleeping"
                                              /\ \A c \in Contexts : ~Requeuing(c, t)
                      /\ \A c \in Contexts : Requeuing(c, t) =>
                             /\ pc[t] = "off"
                             /\ state[t] = "Sleeping"
                             /\ \A d \in Contexts : Requeuing(d, t) => d = c
                      /\ pc[t] = "off" /\ sleep_state[t] = "WOKE" =>
                             rq[t] = 1 \/ \E c \in Contexts : Requeuing(c, t)
    BY DEF RequeuedOnce
  <2> QED
    BY DEF IInv, PadInv
<1> QED
  BY Invariance, <1>1, PTL

\* A wakeup is stored only while nobody sleeps; a closed queue is empty.
THEOREM StoredCorrect == Spec => []StoredWakeupsUnclaimed
<1>1. IInv => StoredWakeupsUnclaimed
  BY ConstantsAssumption DEF IInv, StoredInv, LockInv, WaitqOps, StoredWakeupsUnclaimed
<1> QED
  BY Invariance, <1>1, PTL

\* clock() never touches a timeout_t whose stack frame is gone.
THEOREM TimeoutFrameCorrect == Spec => []TimeoutFrameAlive
<1>1. IInv => TimeoutFrameAlive
  BY DEF IInv, TimeoutInv, TimeoutFrameAlive
<1> QED
  BY Invariance, <1>1, PTL

\* When a blocked sleep returns, no wait queue operation is still running.
THEOREM ReturnCorrect == Spec => QueueUnusedOnReturn
<1> DEFINE Quiet == \A t \in Threads : pc[t] = "relock" /\ pc'[t] = "out"
                       => \A c \in Contexts : op[c] \notin WaitqOps
<1>1. ASSUME IInv, Next, NEW t \in Threads, pc[t] = "relock", pc'[t] = "out"
      PROVE  lock = NoOne
  <2>1. pc \in [Threads -> PCs]
    BY <1>1 DEF IInv, TypeOK
  <2>2. ASSUME NEW u \in Threads, ThreadStart(u) \/ SleeperStep(u)
        PROVE  lock = NoOne
    BY <1>1, <2>1, <2>2 DEF ThreadStart, SleeperStep, WaitStart, CheckInterrupted,
       WaitFinish, SchedulerEnter, ContextSwap, CleanupAfterThread, CleanupRequeue,
       Dispatch, TimeoutUnregister, Relock, Goto, Exit
  <2>3. ASSUME NEW u \in Threads, NEW m, SleepImmediate(u, m) \/ SleepAppend(u, m)
        PROVE  lock = NoOne
    BY <2>3 DEF SleepImmediate, SleepAppend
  <2>4. ASSUME NEW c \in Contexts,
               \/ WakeOne(c) \/ Signal(c) \/ WakerStep(c)
               \/ \E o \in {"wake_all", "close"} : WakeAll(c, o)
               \/ \E u \in Threads : Interrupt(c, u) \/ StackTrace(c, u) \/ Clock(c, u)
        PROVE  FALSE
    BY <1>1, <2>4 DEF WakeOne, Signal, WakerStep, WakeAll, Interrupt, StackTrace, Clock,
       ThreadWakeup, RequeueSleeping, WakerNext, thread
  <2> QED
    BY <1>1, <2>2, <2>3, <2>4 DEF Next
<1>2. IInv /\ [Next]_vars => [Quiet]_vars
  <2> SUFFICES ASSUME IInv, Next PROVE Quiet
    OBVIOUS
  <2> QED
    BY <1>1, ConstantsAssumption DEF IInv, LockInv
<1>3. Spec => [][Quiet]_vars
  BY <1>2, Invariance, PTL DEF Spec
<1> QED
  BY <1>3 DEF QueueUnusedOnReturn
=============================================================================
