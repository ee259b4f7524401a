------------------------- MODULE WaitQueueRefinement -------------------------
(***************************************************************************)
(* The wait queue with its lock, sleep pad and scheduler implements the    *)
(* contract: every step is an indivisible operation of WaitQueueContract,  *)
(* or changes nothing its callers see.                                     *)
(***************************************************************************)
EXTENDS WaitQueueProofs, ListTheorems

\* A thread that is not in a sleep has no arguments of one, and only a sleep
\* with a deadline has a timeout: a sleep times out only if it may.
ModeInv ==
    \A t \in Threads :
        /\ ~Sleeping(t) => mode[t] = NoMode
        /\ timeout[t] # "none" \/ timed_out[t] => mode[t].kind = "timed"

-----------------------------------------------------------------------------
LEMMA InitModeInv == Init => ModeInv
<1> SUFFICES ASSUME Init, NEW t \in Threads
             PROVE  mode[t] = NoMode /\ timeout[t] = "none" /\ timed_out[t] = FALSE
  BY DEF ModeInv
<1> QED BY DEF Init

LEMMA ModeStep == IInv /\ ModeInv /\ [Next]_vars => ModeInv'
<1> SUFFICES ASSUME IInv, ModeInv, [Next]_vars PROVE ModeInv'
  OBVIOUS
<1> USE DEF ModeInv, Sleeping
<1>0. /\ mode \in [Threads -> ModeType] /\ timeout \in [Threads -> Timeouts]
      /\ timed_out \in [Threads -> BOOLEAN] /\ pc \in [Threads -> PCs]
      /\ NoMode.kind = "poll"
      /\ target \in [Contexts -> Threads \cup {NoOne}]
  BY DEF IInv, TypeOK, NoMode
<1>1. CASE UNCHANGED vars
  BY <1>1 DEF vars
<1>2. ASSUME NEW t \in Threads, ThreadStart(t) PROVE ModeInv'
  BY <1>0, <1>2 DEF ThreadStart, Goto
<1>3. ASSUME NEW t \in Threads, NEW m \in Modes, SleepImmediate(t, m) PROVE ModeInv'
  <2>1. timeout[t] = "none"
    BY <1>3 DEF IInv, TimeoutInv, SleepImmediate
  <2> QED BY <1>0, <1>3, <2>1 DEF SleepImmediate, Exit, Goto
<1>4. ASSUME NEW t \in Threads, NEW m \in Modes, SleepAppend(t, m) PROVE ModeInv'
  <2>1. timeout[t] = "none" /\ ~timed_out[t]
    BY <1>0, <1>4 DEF IInv, TimeoutInv, SleepAppend
  <2> QED BY <1>0, <1>4, <2>1 DEF SleepAppend, Goto
<1>5. ASSUME NEW t \in Threads, WaitStart(t) PROVE ModeInv'
  BY <1>0, <1>5 DEF WaitStart, Goto
<1>6. ASSUME NEW t \in Threads, CheckInterrupted(t) PROVE ModeInv'
  <2>1. timeout[t] = "none"
    BY <1>6 DEF IInv, TimeoutInv, CheckInterrupted
  <2> QED BY <1>0, <1>6, <2>1 DEF CheckInterrupted, Exit, Goto
<1>7. ASSUME NEW t \in Threads, WaitFinish(t) PROVE ModeInv'
  BY <1>0, <1>7 DEF WaitFinish, Goto
<1>8. ASSUME NEW t \in Threads, \/ SchedulerEnter(t) \/ ContextSwap(t)
                                \/ CleanupAfterThread(t) \/ CleanupRequeue(t) \/ Dispatch(t)
      PROVE ModeInv'
  BY <1>0, <1>8 DEF SchedulerEnter, ContextSwap, CleanupAfterThread, CleanupRequeue,
     Dispatch, Goto
<1>9. ASSUME NEW t \in Threads, TimeoutUnregister(t) PROVE ModeInv'
  BY <1>0, <1>9 DEF TimeoutUnregister, Goto
<1>10. ASSUME NEW t \in Threads, Relock(t) PROVE ModeInv'
  <2>1. timeout[t] = "none"
    BY <1>10 DEF IInv, TimeoutInv, Relock
  <2> QED BY <1>0, <1>10, <2>1 DEF Relock, Exit, Goto
<1>11. ASSUME NEW c \in Contexts, \/ WakeOne(c) \/ Signal(c) \/ ThreadWakeup(c) \/ RequeueSleeping(c)
                                  \/ \E o \in {"wake_all", "close"} : WakeAll(c, o)
                                  \/ \E t \in Threads : Interrupt(c, t) \/ StackTrace(c, t)
       PROVE ModeInv'
  BY <1>11 DEF WakeOne, Signal, WakeAll, Interrupt, StackTrace, ThreadWakeup,
     RequeueSleeping, thread
<1>12. ASSUME NEW c \in Contexts, NEW t \in Threads, Clock(c, t) PROVE ModeInv'
  BY <1>0, <1>12 DEF Clock
<1>13. ASSUME NEW c \in Contexts, WakerNext(c) PROVE ModeInv'
  <2>1. op[c] = "timeout" => target[c] \in Threads /\ timeout[target[c]] = "firing"
    BY <1>13 DEF IInv, TimeoutInv, WakerInv, WakerNext
  <2> QED BY <1>0, <1>13, <2>1 DEF WakerNext
<1> QED
  BY <1>1, <1>2, <1>3, <1>4, <1>5, <1>6, <1>7, <1>8, <1>9, <1>10, <1>11, <1>12, <1>13
     DEF Next, SleeperStep, WakerStep

-----------------------------------------------------------------------------
(* The refinement mapping. *)

\* The operators on lists agree.
LEMMA ContractLists ==
    ASSUME NEW s \in Seq(Threads)
    PROVE  /\ \A t : t \in Contract!ToSet(s) <=> Linked(t, s)
           /\ \A i : Contract!RemoveAt(s, i) = RemoveAt(s, i)
<1>1. Contract!ToSet(s) = ToSet(s)
  BY DEF Contract!ToSet, ToSet
<1> QED BY <1>1, ListIsFunction DEF Linked, Contract!RemoveAt, RemoveAt

\* list_remove() of a thread in the list removes one position.
LEMMA UnlinkRemoves ==
    ASSUME NEW s \in Seq(Threads), NEW t, Linked(t, s)
    PROVE  \E i \in 1..Len(s) : s[i] = t /\ Unlink(s, t) = RemoveAt(s, i)
<1> DEFINE r == Unlink(s, t)
<1>1. r \in Seq(Threads)
  BY UnlinkType
<1>2. PICK k \in 1..Len(s) : /\ s[k] = t /\ Len(r) = Len(s) - 1
                             /\ \A i \in 1..Len(r) : r[i] = IF i < k THEN s[i] ELSE s[i + 1]
  BY UnlinkType
<1>3. /\ RemoveAt(s, k) \in Seq(Threads) /\ Len(RemoveAt(s, k)) = Len(s) - 1
      /\ \A j \in 1..(Len(s) - 1) : RemoveAt(s, k)[j] = IF j < k THEN s[j] ELSE s[j + 1]
  BY RemoveAtPositions
<1> HIDE DEF r
<1>4. r = RemoveAt(s, k)
  <2>1. \A i \in 1..Len(r) : r[i] = RemoveAt(s, k)[i]
    BY <1>2, <1>3
  <2> QED BY <1>1, <1>2, <1>3, <2>1, SeqEqual
<1> QED BY <1>2, <1>4 DEF r

\* While nobody wakes all, the contract sees the list as it is.
LEMMA NotWakingAll ==
    ASSUME IInv, lock \notin Contexts
    PROVE  /\ ~WakingAll /\ waitingBar = sleepers
           /\ grantedBar = {t \in Threads : Sleeping(t) /\ ~Linked(t, sleepers)}
<1>1. ~WakingAll
  BY DEF IInv, LockInv, WakingAll, WaitqOps
<1> QED BY <1>1 DEF waitingBar, grantedBar

\* A step that changes neither list nor results, and where no thread begins or
\* ends a sleep, is invisible.
LEMMA Invisible ==
    ASSUME UNCHANGED <<wakeup_balance, closed, interrupted, mode, rc>>,
           waitingBar' = waitingBar,
           \A t \in Threads : Sleeping(t)' <=> Sleeping(t)
    PROVE  UNCHANGED Contract!vars
<1>1. grantedBar' = grantedBar
  BY DEF grantedBar, Linked
<1> QED BY <1>1 DEF Contract!vars

LEMMA InitContract == Init => Contract!Init
<1> SUFFICES ASSUME Init PROVE Contract!Init
  OBVIOUS
<1>1. waitingBar = <<>>
  BY DEF Init, waitingBar
<1>2. grantedBar = {}
  BY DEF Init, grantedBar, Sleeping
<1> QED BY <1>1, <1>2 DEF Init, Contract!Init, NoMode, Contract!NoMode

-----------------------------------------------------------------------------
(* The steps of a sleeper. *)

\* Steps between the sleep pad, the scheduler and the timeout.
LEMMA SleeperInvisible ==
    ASSUME IInv, NEW t \in Threads,
           \/ ThreadStart(t) \/ WaitStart(t) \/ WaitFinish(t) \/ SchedulerEnter(t)
           \/ ContextSwap(t) \/ CleanupAfterThread(t) \/ CleanupRequeue(t)
           \/ Dispatch(t) \/ TimeoutUnregister(t)
    PROVE  UNCHANGED Contract!vars
<1>1. pc \in [Threads -> PCs]
  BY DEF IInv, TypeOK
<1>2. UNCHANGED <<wakeup_balance, closed, interrupted, mode, rc, sleepers, op>>
  BY DEF ThreadStart, WaitStart, WaitFinish, SchedulerEnter, ContextSwap,
     CleanupAfterThread, CleanupRequeue, Dispatch, TimeoutUnregister, waitq, waker
<1>3. waitingBar' = waitingBar
  BY <1>2 DEF waitingBar, WakingAll
<1>4. ASSUME NEW u \in Threads PROVE Sleeping(u)' <=> Sleeping(u)
  BY <1>1 DEF Sleeping, ThreadStart, WaitStart, WaitFinish, SchedulerEnter, ContextSwap,
     CleanupAfterThread, CleanupRequeue, Dispatch, TimeoutUnregister, Goto
<1> QED BY <1>2, <1>3, <1>4, Invisible

\* A thread that is not in a sleep is neither waiting nor granted.
LEMMA OutOfContract ==
    ASSUME IInv, NEW t \in Threads, pc[t] = "out", lock = NoOne
    PROVE  /\ ~Linked(t, sleepers) /\ Unlink(sleepers, t) = sleepers
           /\ t \notin grantedBar \cup Contract!ToSet(waitingBar)
           /\ NoOne \notin Contexts /\ waitingBar = sleepers
           /\ sleepers \in Seq(Threads)
<1>1. ~Sleeping(t)
  BY DEF Sleeping
<1>2. ~Linked(t, sleepers) /\ sleepers \in Seq(Threads) /\ NoOne \notin Contexts
  BY <1>1, ConstantsAssumption DEF IInv, ListInv, TypeOK
<1>3. waitingBar = sleepers
  BY <1>2, NotWakingAll
<1>4. t \notin grantedBar
  BY <1>1 DEF grantedBar
<1> QED BY <1>2, <1>3, <1>4, UnlinkType, ContractLists

\* A sleep that returns at once.
LEMMA ImmediateContract ==
    ASSUME IInv, ModeInv, NEW t \in Threads, NEW m \in Modes, SleepImmediate(t, m)
    PROVE  Contract!Sleep(t, m)
<1>1. pc[t] = "out" /\ lock = NoOne /\ UNCHANGED <<closed, interrupted, op>>
  BY DEF SleepImmediate, waker
<1>2. /\ t \notin grantedBar \cup Contract!ToSet(waitingBar) /\ Unlink(sleepers, t) = sleepers
      /\ NoOne \notin Contexts /\ waitingBar = sleepers
  BY <1>1, OutOfContract
<1>3. mode[t] = NoMode /\ mode \in [Threads -> ModeType] /\ pc \in [Threads -> PCs]
  BY <1>1 DEF ModeInv, Sleeping, IInv, TypeOK
<1>4. mode' = mode /\ sleepers' = sleepers /\ pc' = pc
  BY <1>1, <1>2, <1>3 DEF SleepImmediate, Exit, Goto
<1>5. waitingBar' = waitingBar
  BY <1>1, <1>4 DEF waitingBar, WakingAll
<1>6. grantedBar' = grantedBar
  BY <1>4, <1>5 DEF grantedBar, Sleeping
<1>7. CASE closed /\ Exit(t, "EOK", m)
  <2>1. wakeup_balance' = wakeup_balance /\ rc' = [rc EXCEPT ![t] = "EOK"]
    BY <1>7 DEF Exit
  <2> QED BY <1>1, <1>2, <1>4, <1>5, <1>6, <1>7, <2>1 DEF Contract!Sleep, Contract!Return
<1>8. CASE /\ ~closed /\ wakeup_balance > 0 /\ wakeup_balance' = wakeup_balance - 1
           /\ rc' = [rc EXCEPT ![t] = "EOK"]
  BY <1>1, <1>2, <1>4, <1>5, <1>6, <1>8 DEF Contract!Sleep, Contract!Return
<1>9. CASE ~closed /\ wakeup_balance <= 0 /\ m.kind = "poll" /\ Exit(t, "ETIMEOUT", m)
  <2>1. /\ wakeup_balance' = (IF m.composable THEN wakeup_balance - 1 ELSE wakeup_balance)
        /\ rc' = [rc EXCEPT ![t] = "ETIMEOUT"]
    BY <1>9 DEF Exit
  <2> QED BY <1>1, <1>2, <1>4, <1>5, <1>6, <1>9, <2>1
          DEF Contract!Sleep, Contract!Return, Contract!Debit
<1> QED BY <1>7, <1>8, <1>9 DEF SleepImmediate

\* A sleep that enters the list.
LEMMA AppendContract ==
    ASSUME IInv, NEW t \in Threads, NEW m \in Modes, SleepAppend(t, m)
    PROVE  Contract!Sleep(t, m)
<1>1. /\ pc[t] = "out" /\ lock = NoOne /\ ~closed /\ wakeup_balance <= 0 /\ m.kind # "poll"
      /\ mode' = [mode EXCEPT ![t] = m] /\ sleepers' = Append(sleepers, t)
      /\ UNCHANGED <<wakeup_balance, closed, interrupted, rc, op>>
      /\ pc' = [pc EXCEPT ![t] = "start"]
  BY DEF SleepAppend, waker, Goto
<1>2. /\ t \notin grantedBar \cup Contract!ToSet(waitingBar)
      /\ NoOne \notin Contexts /\ waitingBar = sleepers /\ sleepers \in Seq(Threads)
  BY <1>1, OutOfContract
<1>3. waitingBar' = Append(waitingBar, t) /\ ~WakingAll /\ waitingBar' = sleepers'
  BY <1>1, <1>2, NotWakingAll DEF waitingBar, WakingAll
<1>4. grantedBar' = grantedBar
  <2>1. pc \in [Threads -> PCs]
    BY DEF IInv, TypeOK
  <2>2. \A u : Linked(u, sleepers') <=> Linked(u, sleepers) \/ u = t
    BY <1>1, <1>2, AppendLinks
  <2>3. ASSUME NEW u \in Threads
        PROVE  Sleeping(u)' /\ ~Linked(u, sleepers') <=> Sleeping(u) /\ ~Linked(u, sleepers)
    BY <1>1, <2>1, <2>2 DEF Sleeping
  <2> QED BY <1>2, <1>3, <2>3 DEF grantedBar
<1> QED BY <1>1, <1>2, <1>3, <1>4 DEF Contract!Sleep

\* The end of a sleep that fails: the thread was still in the list.
LEMMA FailContract ==
    ASSUME IInv, NEW t \in Threads, NEW r \in {"ETIMEOUT", "EINTR"}, Exit(t, r, mode[t]),
           Sleeping(t), Linked(t, sleepers), lock \notin Contexts,
           UNCHANGED <<closed, interrupted, op>>,
           \/ r = "ETIMEOUT" /\ mode[t].kind = "timed"
           \/ r = "EINTR" /\ mode[t].interruptible /\ interrupted[t]
    PROVE  Contract!Fail(t)
<1>1. /\ sleepers' = Unlink(sleepers, t)
      /\ wakeup_balance' = IF mode[t].composable THEN wakeup_balance - 1 ELSE wakeup_balance
      /\ rc' = [rc EXCEPT ![t] = r] /\ mode' = [mode EXCEPT ![t] = NoMode]
      /\ pc' = [pc EXCEPT ![t] = "out"]
  BY DEF Exit, Goto
<1>2. /\ sleepers \in Seq(Threads) /\ pc \in [Threads -> PCs] /\ NoDuplicates(sleepers)
      /\ ~WakingAll /\ waitingBar = sleepers
  BY NotWakingAll DEF IInv, TypeOK, ListInv
<1>3. waitingBar' = sleepers'
  BY <1>2 DEF waitingBar, WakingAll
<1>4. \E i \in 1..Len(waitingBar) : /\ waitingBar[i] = t
                                    /\ waitingBar' = Contract!RemoveAt(waitingBar, i)
  BY <1>1, <1>2, <1>3, UnlinkRemoves, ContractLists
<1>5. grantedBar' = grantedBar
  <2>1. \A u : Linked(u, sleepers') <=> Linked(u, sleepers) /\ u # t
    BY <1>1, <1>2, UnlinkUnlinks
  <2>2. ASSUME NEW u \in Threads
        PROVE  Sleeping(u)' /\ ~Linked(u, sleepers') <=> Sleeping(u) /\ ~Linked(u, sleepers)
    BY <1>1, <1>2, <2>1 DEF Sleeping
  <2> QED BY <1>2, <1>3, <2>2 DEF grantedBar
<1>6. /\ Contract!Debit(mode[t]) /\ mode' = [mode EXCEPT ![t] = Contract!NoMode]
      /\ Contract!Return(t, r)
  BY <1>1 DEF Contract!Debit, Contract!NoMode, NoMode, Contract!Return
<1> QED BY <1>4, <1>5, <1>6 DEF Contract!Fail

\* The end of a sleep that succeeds: a waker has unlinked the thread.
LEMMA SucceedContract ==
    ASSUME IInv, NEW t \in Threads, Exit(t, "EOK", mode[t]), Sleeping(t),
           ~Linked(t, sleepers), lock \notin Contexts,
           UNCHANGED <<closed, interrupted, op>>
    PROVE  Contract!Succeed(t)
<1>1. /\ sleepers \in Seq(Threads) /\ pc \in [Threads -> PCs]
      /\ ~WakingAll /\ waitingBar = sleepers
  BY NotWakingAll DEF IInv, TypeOK
<1>2. /\ sleepers' = sleepers /\ wakeup_balance' = wakeup_balance
      /\ rc' = [rc EXCEPT ![t] = "EOK"] /\ mode' = [mode EXCEPT ![t] = NoMode]
      /\ pc' = [pc EXCEPT ![t] = "out"]
  BY <1>1, UnlinkType DEF Exit, Goto
<1>3. waitingBar' = waitingBar
  BY <1>1, <1>2 DEF waitingBar, WakingAll
<1>4. t \in grantedBar /\ grantedBar' = grantedBar \ {t}
  <2>1. ASSUME NEW u \in Threads PROVE Sleeping(u)' <=> Sleeping(u) /\ u # t
    BY <1>1, <1>2 DEF Sleeping
  <2> QED BY <1>1, <1>3, <2>1 DEF grantedBar
<1> QED BY <1>2, <1>3, <1>4 DEF Contract!Succeed, Contract!Return, NoMode, Contract!NoMode

LEMMA CheckInterruptedContract ==
    ASSUME IInv, NEW t \in Threads, CheckInterrupted(t)
    PROVE  Contract!Fail(t) \/ UNCHANGED Contract!vars
<1>1. /\ pc[t] = "intr" /\ lock = t /\ Linked(t, sleepers) /\ Sleeping(t)
      /\ UNCHANGED <<closed, interrupted, op>>
  BY DEF CheckInterrupted, IInv, LockInv, ListInv, Sleeping, waker
<1>2. lock \notin Contexts
  BY <1>1, ConstantsAssumption
<1>3. CASE interrupted[t] /\ mode[t].interruptible
  <2>1. Exit(t, "EINTR", mode[t])
    BY <1>3 DEF CheckInterrupted
  <2> QED BY <1>1, <1>2, <1>3, <2>1, FailContract
<1>4. CASE ~(interrupted[t] /\ mode[t].interruptible)
  <2>1. /\ UNCHANGED <<wakeup_balance, sleepers, rc, mode>> /\ pc' = [pc EXCEPT ![t] = "finish"]
    BY <1>4 DEF CheckInterrupted, Goto
  <2>2. waitingBar' = waitingBar
    BY <1>1, <2>1 DEF waitingBar, WakingAll
  <2>3. \A u \in Threads : Sleeping(u)' <=> Sleeping(u)
    BY <1>1, <2>1 DEF Sleeping, IInv, TypeOK
  <2> QED BY <1>1, <2>1, <2>2, <2>3, Invisible
<1> QED BY <1>3, <1>4

LEMMA RelockContract ==
    ASSUME IInv, ModeInv, NEW t \in Threads, Relock(t)
    PROVE  Contract!Fail(t) \/ Contract!Succeed(t) \/ UNCHANGED Contract!vars
<1>1. /\ pc[t] = "relock" /\ lock = NoOne /\ Sleeping(t)
      /\ UNCHANGED <<closed, interrupted, op>>
  BY DEF Relock, Sleeping, waker
<1>2. lock \notin Contexts
  BY <1>1, ConstantsAssumption
<1>3. CASE ~Linked(t, sleepers) /\ Exit(t, "EOK", mode[t])
  BY <1>1, <1>2, <1>3, SucceedContract
<1>4. CASE Linked(t, sleepers) /\ timed_out[t] /\ Exit(t, "ETIMEOUT", mode[t])
  <2>1. mode[t].kind = "timed"
    BY <1>4 DEF ModeInv
  <2> QED BY <1>1, <1>2, <1>4, <2>1, FailContract
<1>5. CASE /\ UNCHANGED <<wakeup_balance, sleepers, rc, mode>> /\ Goto(t, "start")
  <2>1. waitingBar' = waitingBar
    BY <1>1, <1>5 DEF waitingBar, WakingAll
  <2>2. \A u \in Threads : Sleeping(u)' <=> Sleeping(u)
    BY <1>1, <1>5 DEF Sleeping, IInv, TypeOK, Goto
  <2> QED BY <1>1, <1>5, <2>1, <2>2, Invisible
<1> QED BY <1>3, <1>4, <1>5 DEF Relock

-----------------------------------------------------------------------------
(* The steps of a waker. *)

\* The part of a waker's first step that all operations on the list share.
LEMMA WakerBegins ==
    ASSUME IInv, lock = NoOne
    PROVE  /\ ~WakingAll /\ waitingBar = sleepers /\ sleepers \in Seq(Threads)
           /\ grantedBar = {t \in Threads : Sleeping(t) /\ ~Linked(t, sleepers)}
           /\ op \in [Contexts -> Ops]
BY NotWakingAll, ConstantsAssumption DEF IInv, TypeOK

\* _wake_one() grants the wakeup to the thread that has slept longest.
LEMMA GrantContract ==
    ASSUME IInv, NEW c \in Contexts, NEW o \in {"wake_one", "signal"}, lock = NoOne,
           sleepers # <<>>, PopFirst(c, o), pc' = pc
    PROVE  Contract!GrantFirst
<1>1. /\ ~WakingAll /\ waitingBar = sleepers /\ sleepers \in Seq(Threads)
      /\ grantedBar = {t \in Threads : Sleeping(t) /\ ~Linked(t, sleepers)}
      /\ op \in [Contexts -> Ops]
  BY WakerBegins
<1>2. sleepers' = Tail(sleepers) /\ op' = [op EXCEPT ![c] = o]
  BY DEF PopFirst, CallWakeup
<1>3. waitingBar' = Tail(sleepers)
  BY <1>1, <1>2 DEF waitingBar, WakingAll
<1>4. NoDuplicates(sleepers) /\ \A t \in Threads : Linked(t, sleepers) => Sleeping(t)
  BY DEF IInv, ListInv
<1>5. /\ Head(sleepers) \in Threads /\ Linked(Head(sleepers), sleepers)
      /\ \A t : Linked(t, Tail(sleepers)) <=> Linked(t, sleepers) /\ t # Head(sleepers)
  BY <1>1, <1>4, TailUnlinks
<1>6. \A t \in Threads : Sleeping(t)' <=> Sleeping(t)
  BY DEF Sleeping
<1>7. grantedBar' = {t \in Threads : Sleeping(t) /\ ~Linked(t, Tail(sleepers))}
  BY <1>3, <1>6 DEF grantedBar, Linked
<1>8. grantedBar' = grantedBar \cup {Head(sleepers)}
  BY <1>1, <1>4, <1>5, <1>7
<1> QED BY <1>1, <1>3, <1>8 DEF Contract!GrantFirst

\* waitq_wake_one() stores the wakeup, annuls a debt or grants it; it has no
\* effect on a closed queue.
LEMMA WakeOneContract ==
    ASSUME IInv, NEW c \in Contexts, WakeOne(c)
    PROVE  Contract!WakeOne \/ UNCHANGED Contract!vars
<1>1. /\ ~WakingAll /\ waitingBar = sleepers /\ lock = NoOne /\ wakeup_balance \in Int
      /\ UNCHANGED <<closed, interrupted, mode, rc, pc>>
  BY WakerBegins DEF WakeOne, thread, IInv, TypeOK
<1>2. ASSUME UNCHANGED <<sleepers, op>>
      PROVE  waitingBar' = waitingBar /\ grantedBar' = grantedBar
  BY <1>1, <1>2 DEF waitingBar, WakingAll, grantedBar, Sleeping
<1>3. CASE closed /\ UNCHANGED <<wakeup_balance, sleepers, op>>
  BY <1>1, <1>2, <1>3 DEF Contract!vars
<1>4. CASE /\ ~closed /\ (wakeup_balance < 0 \/ sleepers = <<>>)
           /\ wakeup_balance' = wakeup_balance + 1 /\ UNCHANGED <<sleepers, op>>
  BY <1>1, <1>2, <1>4 DEF Contract!WakeOne
<1>5. CASE /\ ~closed /\ ~(wakeup_balance < 0 \/ sleepers = <<>>)
           /\ PopFirst(c, "wake_one") /\ UNCHANGED wakeup_balance
  <2>1. Contract!GrantFirst
    BY <1>1, <1>5, GrantContract
  <2> QED BY <1>1, <1>5, <2>1 DEF Contract!WakeOne
<1> QED BY <1>3, <1>4, <1>5 DEF WakeOne, waker

LEMMA SignalContract ==
    ASSUME IInv, NEW c \in Contexts, Signal(c)
    PROVE  Contract!Signal \/ UNCHANGED Contract!vars
<1>1. /\ lock = NoOne
      /\ UNCHANGED <<wakeup_balance, closed, interrupted, mode, rc, pc>>
  BY DEF Signal, thread
<1>2. CASE UNCHANGED <<sleepers, op>>
  BY <1>1, <1>2 DEF waitingBar, WakingAll, grantedBar, Sleeping, Contract!vars
<1>3. CASE sleepers # <<>> /\ PopFirst(c, "signal")
  BY <1>1, <1>3, GrantContract DEF Contract!Signal
<1> QED BY <1>2, <1>3 DEF Signal, waker

\* waitq_wake_all() and waitq_close() take effect when they take the lock.
LEMMA WakeAllContract ==
    ASSUME IInv, NEW c \in Contexts, NEW o \in {"wake_all", "close"}, WakeAll(c, o)
    PROVE  Contract!WakeAll(o = "close")
<1>1. /\ lock = NoOne /\ wakeup_balance' = 0 /\ closed' = (closed \/ o = "close")
      /\ UNCHANGED <<interrupted, mode, rc, pc>>
  BY DEF WakeAll, thread
<1>2. /\ ~WakingAll /\ waitingBar = sleepers /\ sleepers \in Seq(Threads)
      /\ grantedBar = {t \in Threads : Sleeping(t) /\ ~Linked(t, sleepers)}
      /\ op \in [Contexts -> Ops]
  BY <1>1, WakerBegins
<1>3. waitingBar' = <<>>
  <2>1. CASE sleepers = <<>> /\ UNCHANGED sleepers
    BY <2>1 DEF waitingBar
  <2>2. CASE PopFirst(c, o)
    <3>1. WakingAll'
      BY <1>2, <2>2 DEF PopFirst, CallWakeup, WakingAll
    <3> QED BY <3>1 DEF waitingBar
  <2> QED BY <2>1, <2>2 DEF WakeAll
<1>4. grantedBar' = {t \in Threads : Sleeping(t)}
  <2>1. \A t : ~Linked(t, <<>>)
    BY DEF Linked
  <2>2. \A t \in Threads : Sleeping(t)' <=> Sleeping(t)
    BY <1>1 DEF Sleeping
  <2>3. grantedBar' = {t \in Threads : Sleeping(t)' /\ ~Linked(t, waitingBar')}
    BY DEF grantedBar, Linked
  <2> QED BY <1>3, <2>1, <2>2, <2>3
<1>5. \A t : Linked(t, sleepers) => t \in Threads /\ Sleeping(t)
  BY <1>2 DEF Linked, IInv, ListInv
<1>6. \A t : t \in Contract!ToSet(waitingBar) <=> Linked(t, sleepers)
  BY <1>2, ContractLists
<1>7. grantedBar' = grantedBar \cup Contract!ToSet(waitingBar)
  BY <1>2, <1>4, <1>5, <1>6
<1> QED BY <1>1, <1>3, <1>7 DEF Contract!WakeAll

\* An operation that does not touch the wait queue begins.
LEMMA InterruptContract ==
    ASSUME IInv, NEW c \in Contexts, NEW t \in Threads,
           Interrupt(c, t) \/ StackTrace(c, t) \/ Clock(c, t)
    PROVE  Contract!Interrupt(t) \/ UNCHANGED Contract!vars
<1>1. /\ UNCHANGED <<wakeup_balance, closed, mode, rc, pc, sleepers>> /\ op[c] = "none"
      /\ \E o \in {"interrupt", "trace", "timeout"} : op' = [op EXCEPT ![c] = o]
      /\ op \in [Contexts -> Ops]
      /\ interrupted' = interrupted \/ interrupted' = [interrupted EXCEPT ![t] = TRUE]
  BY DEF Interrupt, StackTrace, Clock, CallWakeup, waitq, thread, IInv, TypeOK, WakerInv
<1>2. WakingAll' <=> WakingAll
  BY <1>1 DEF WakingAll
<1>3. waitingBar' = waitingBar
  BY <1>1, <1>2 DEF waitingBar
<1>4. grantedBar' = grantedBar
  BY <1>1, <1>3 DEF grantedBar, Sleeping
<1> QED BY <1>1, <1>3, <1>4 DEF Contract!vars, Contract!Interrupt

\* The sleep pad and the run queue are invisible.
LEMMA WakeupInvisible ==
    ASSUME NEW c \in Contexts, ThreadWakeup(c) \/ RequeueSleeping(c)
    PROVE  UNCHANGED Contract!vars
<1>1. UNCHANGED <<wakeup_balance, closed, interrupted, mode, rc, pc, sleepers, op>>
  BY DEF ThreadWakeup, RequeueSleeping, waitq
<1> QED BY <1>1 DEF waitingBar, WakingAll, grantedBar, Sleeping, Contract!vars

\* The loop of _wake_all(), and the return of every operation.
LEMMA WakerNextInvisible ==
    ASSUME IInv, NEW c \in Contexts, WakerNext(c)
    PROVE  UNCHANGED Contract!vars
<1>1. /\ UNCHANGED <<wakeup_balance, closed, interrupted, mode, rc, pc>>
      /\ op \in [Contexts -> Ops]
  BY DEF WakerNext, IInv, TypeOK
<1>2. \A d, e \in Contexts : op[d] \in WaitqOps /\ op[e] \in WaitqOps => d = e
  BY DEF IInv, LockInv
<1>3. waitingBar' = waitingBar
  <2>1. CASE op[c] \in {"wake_all", "close"} /\ PopFirst(c, op[c])
    <3>1. WakingAll /\ op' = op
      BY <1>1, <2>1 DEF WakingAll, PopFirst, CallWakeup
    <3>2. WakingAll'
      BY <3>1 DEF WakingAll
    <3> QED BY <3>1, <3>2 DEF waitingBar
  <2>2. CASE op[c] \in {"wake_one", "signal"} /\ WakerReturn(c) /\ UNCHANGED sleepers
    <3>1. ~WakingAll
      BY <1>2, <2>2 DEF WakingAll, WaitqOps
    <3>2. ~WakingAll'
      BY <1>1, <2>2, <3>1 DEF WakingAll, WakerReturn
    <3> QED BY <2>2, <3>1, <3>2 DEF waitingBar
  <2>3. CASE sleepers = <<>> /\ UNCHANGED sleepers
    BY <2>3 DEF waitingBar
  <2>4. CASE /\ op[c] \in {"timeout", "interrupt", "trace"} /\ WakerReturn(c)
             /\ UNCHANGED sleepers
    <3>1. WakingAll' <=> WakingAll
      BY <1>1, <2>4 DEF WakingAll, WakerReturn
    <3> QED BY <2>4, <3>1 DEF waitingBar
  <2> QED BY <2>1, <2>2, <2>3, <2>4 DEF WakerNext
<1> QED BY <1>1, <1>3 DEF grantedBar, Sleeping, Contract!vars

-----------------------------------------------------------------------------
(* The wait queue implements its contract. *)

\* One case per operation: the operation of the contract that takes effect in
\* the step, or no visible change.
LEMMA StepContract ==
    ASSUME IInv, ModeInv, [Next]_vars
    PROVE  [Contract!Next]_(Contract!vars)
<1>1. CASE UNCHANGED vars
  BY <1>1 DEF vars, waitingBar, WakingAll, grantedBar, Sleeping, Contract!vars
<1>2. ASSUME NEW t \in Threads, ThreadStart(t) \/ SleeperStep(t)
      PROVE  Contract!Fail(t) \/ Contract!Succeed(t) \/ UNCHANGED Contract!vars
  BY <1>2, SleeperInvisible, CheckInterruptedContract, RelockContract DEF SleeperStep
<1>3. ASSUME NEW t \in Threads, NEW m \in Modes, SleepImmediate(t, m) \/ SleepAppend(t, m)
      PROVE  Contract!Sleep(t, m)
  BY <1>3, ImmediateContract, AppendContract
<1>4. ASSUME NEW c \in Contexts, WakeOne(c) \/ Signal(c) \/ WakerStep(c)
      PROVE  Contract!WakeOne \/ Contract!Signal \/ UNCHANGED Contract!vars
  BY <1>4, WakeOneContract, SignalContract, WakeupInvisible, WakerNextInvisible DEF WakerStep
<1>5. ASSUME NEW c \in Contexts, NEW o \in {"wake_all", "close"}, WakeAll(c, o)
      PROVE  \E close \in BOOLEAN : Contract!WakeAll(close)
  BY <1>5, WakeAllContract
<1>6. ASSUME NEW c \in Contexts, NEW t \in Threads,
             Interrupt(c, t) \/ StackTrace(c, t) \/ Clock(c, t)
      PROVE  Contract!Interrupt(t) \/ UNCHANGED Contract!vars
  BY <1>6, InterruptContract
<1>7. CASE \E t \in Threads : \/ ThreadStart(t) \/ SleeperStep(t)
                              \/ \E m \in Modes : SleepImmediate(t, m) \/ SleepAppend(t, m)
  BY <1>2, <1>3, <1>7 DEF Contract!Next
<1>8. CASE \E c \in Contexts :
             \/ WakeOne(c) \/ Signal(c) \/ WakerStep(c)
             \/ \E o \in {"wake_all", "close"} : WakeAll(c, o)
             \/ \E t \in Threads : Interrupt(c, t) \/ StackTrace(c, t) \/ Clock(c, t)
  BY <1>4, <1>5, <1>6, <1>8 DEF Contract!Next
<1> QED BY <1>1, <1>7, <1>8 DEF Next

\* The wait queue of waitq.c, with its lock, the sleep pad, the scheduler and
\* the timeouts, implements WaitQueueContract: for any number of threads and
\* wakers, whatever the interleaving, a caller sees indivisible operations, and
\* a granted wakeup is never turned into a timeout or an interruption.
THEOREM RefinesContract == Spec => ImplementsContract
<1>1. ModeInv /\ IInv /\ [Next]_vars => ModeInv'
  BY ModeStep
<1>2. IInv /\ ModeInv /\ [Next]_vars => [Contract!Next]_(Contract!vars)
  BY StepContract
<1> QED
  BY Invariance, InitModeInv, InitContract, <1>1, <1>2, PTL
     DEF Spec, ImplementsContract, Contract!Spec
=============================================================================
