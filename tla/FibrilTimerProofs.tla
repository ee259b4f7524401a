-------------------------- MODULE FibrilTimerProofs --------------------------
(***************************************************************************)
(* Proofs about the fibril timer, for any number of clients and of sets.   *)
(***************************************************************************)
EXTENDS FibrilTimer, ListTheorems

-----------------------------------------------------------------------------
(* The inductive invariant.                                                *)

\* The mutex: who holds it, who is queued for it, and what the counter says.
\* The lock is handed over, so nobody is queued for a free one.
MutexInv ==
    /\ \A f \in Fibrils : owned_by = f <=> pc[f] \in Inside
    /\ IsInjective(waiters)
    /\ \A f \in Fibrils : f \in ToSet(waiters) <=> pc[f] = "blocked"
    /\ owned_by = None => waiters = <<>>
    /\ counter = (IF owned_by = None THEN 1 ELSE 0) - Len(waiters)

\* The condition variable: who sleeps on it is linked; who is linked sleeps, or
\* has just timed out.
CvInv ==
    /\ IsInjective(cv)
    /\ \A f \in Fibrils : f \in ToSet(cv) => pc[f] \in {"wait", "woken"}
    /\ \A f \in Fibrils : pc[f] = "wait" => f \in ToSet(cv)

\* While the handler runs, a clear waits, and the timer stays as it fired until
\* the handler sets it or the timer is destroyed.
HandlerInv ==
    /\ At(Timer) \in {"loop", "waited", "call", "handler", "set", "unlock", "delref", "handled",
                      "destroy", "waitclean", "exit", "done"}
    /\ handler_fid = IF At(Timer) \in {"loop", "waited", "exit", "done"} THEN None ELSE Timer
    /\ At(Timer) \in {"call", "handler", "set", "delref", "destroy"} => state = "fired"
    /\ At(Timer) = "set" => op[Timer] = "set"
    /\ At(Timer) = "unlock" => \/ op[Timer] = "set" /\ state = "active"
                               \/ op[Timer] = "drop" /\ state = "fired"
    /\ At(Timer) = "handled" => state \in {"fired", "active", "cleanup"}
    /\ At(Timer) \in {"exit", "done"} <=> state = "clean"

\* What the clients do: one that sets the timer has cleared it in the same
\* critical section, and one without a reference only destroys the timer.
ClientInv ==
    \A c \in Clients :
        /\ At(c) \in IF op[c] = "drop" THEN {"destroy", "waitclean", "free", "done"}
                     ELSE {"idle", "clear", "set", "unlock"}
        /\ At(c) = "set" => state = "not_set"

\* The places of a fibril that destroys the timer.
Ending == {"destroy", "waitclean", "free"}

\* The end of the timer: one fibril destroys it, after the last reference has
\* been dropped and before it is freed.
EndInv ==
    /\ \A f \in Fibrils : At(f) \in Ending =>
          refcnt = 0 /\ ~freed /\ \A g \in Fibrils : At(g) \in Ending => g = f
    /\ \A f \in Fibrils : At(f) = "destroy" => state \notin {"cleanup", "clean"}
    /\ \A f \in Fibrils : At(f) = "waitclean" => state \in {"cleanup", "clean"}
    /\ \A f \in Fibrils : At(f) = "free" => state = "clean" /\ At(Timer) = "done"
    /\ state \in {"cleanup", "clean"} =>
          refcnt = 0 /\ (freed \/ \E f \in Fibrils : At(f) \in {"waitclean", "free"})
    /\ state = "clean" => cv = <<>>
    /\ freed => At(Timer) = "done"

\* No function has been called for a set that is pending.
CalledInv ==
    /\ \A f \in Fibrils : At(f) = "set" => sets < MaxSets
    /\ fun <= sets
    /\ \A n \in 1..MaxSets : called[n] <= 1 /\ (n > sets => called[n] = 0)
    /\ state = "active" \/ At(Timer) = "call" => fun > 0 /\ called[fun] = 0

IInv ==
    /\ TypeOK
    /\ MutexInv
    /\ CvInv
    /\ HandlerInv
    /\ ClientInv
    /\ EndInv
    /\ CalledInv
    /\ SetsAccountedFor
    /\ ReferencesExact

-----------------------------------------------------------------------------
(* The mutex.                                                              *)

LEMMA FibrilsFinite == IsFiniteSet(Fibrils) /\ Timer \in Fibrils /\ None \notin Fibrils
BY TimerAssumption, FS_AddElement DEF Fibrils

\* The counter of a mutex on which every fibril waits at most once.
LEMMA CounterBound ==
    ASSUME NEW w \in Seq(Fibrils), IsInjective(w), NEW o \in Fibrils \cup {None},
           o = None => w = <<>>, o \notin ToSet(w)
    PROVE  (IF o = None THEN 1 ELSE 0) - Len(w) \in 1 - Cardinality(Fibrils) .. 1
<1>1. Cardinality(Fibrils) \in Nat /\ Cardinality(Fibrils) > 0 /\ Len(w) \in Nat
  BY FibrilsFinite, FS_CardinalityType, FS_EmptySet, ListIsFunction
<1>2. CASE o = None
  <2>1. Len(w) = 0
    BY <1>2
  <2> QED BY <1>1, <1>2, <2>1
<1>3. CASE o # None
  <2>1. IsFiniteSet(Fibrils \ {o}) /\ Cardinality(Fibrils \ {o}) = Cardinality(Fibrils) - 1
    BY <1>3, FibrilsFinite, FS_RemoveElement
  <2>2. w \in Seq(Fibrils \ {o})
    <3>1. \A i \in 1..Len(w) : w[i] \in Fibrils \ {o}
      BY ListIsFunction
    <3> QED BY <3>1, <1>1
  <2>3. Len(w) <= Cardinality(Fibrils) - 1
    BY <2>1, <2>2, InjectiveLen
  <2> QED BY <1>1, <1>3, <2>3
<1> QED BY <1>2, <1>3

-----------------------------------------------------------------------------
(* How a step moves the fibrils.                                           *)

\* Fibril f goes to x, everybody else stays where it was.
Moves(f, x) == At(f)' = x /\ \A g \in Fibrils : g # f => At(g)' = At(g)

\* What the steps of the lock and the condition variable have to preserve.
SyncInv ==
    /\ pc \in [Fibrils -> Inside \cup Outside] /\ next \in [Fibrils -> Entries]
    /\ owned_by \in Fibrils \cup {None}
    /\ waiters \in Seq(Fibrils) /\ cv \in Seq(Fibrils)
    /\ MutexInv
    /\ CvInv

\* The lock is released: it goes to the first waiter, who goes on where it
\* wanted to, or it is free.
LEMMA UnlockMoves ==
    ASSUME SyncInv, NEW f \in Fibrils, pc[f] \in Inside,
           NEW x \in {"idle", "lock", "wait", "call", "delref", "done", "free"},
           Unlock(f, [pc EXCEPT ![f] = x]),
           next' \in [Fibrils -> Entries], \A g \in Fibrils : g # f => next'[g] = next[g]
    PROVE  /\ pc' \in [Fibrils -> Inside \cup Outside] /\ owned_by' \in Fibrils \cup {None}
           /\ waiters' \in Seq(Fibrils) /\ MutexInv'
           /\ pc'[f] = x
           /\ \A g \in Fibrils : g # f => /\ At(g)' = At(g)
                                          /\ pc'[g] = pc[g] \/ (pc[g] = "blocked" /\ pc'[g] = next[g])
<1>1. /\ pc \in [Fibrils -> Inside \cup Outside] /\ next \in [Fibrils -> Entries]
      /\ waiters \in Seq(Fibrils) /\ IsInjective(waiters)
      /\ \A g \in Fibrils : owned_by = g <=> pc[g] \in Inside
      /\ \A g \in Fibrils : g \in ToSet(waiters) <=> pc[g] = "blocked"
      /\ counter = (IF owned_by = None THEN 1 ELSE 0) - Len(waiters)
  BY DEF SyncInv, MutexInv
<1>2. owned_by = f /\ None \notin Fibrils /\ f # None
  BY <1>1, FibrilsFinite
<1>3. Len(waiters) \in Nat /\ counter = 0 - Len(waiters) /\ counter' = counter + 1
  BY <1>1, <1>2, ListIsFunction DEF Unlock
<1>4. CASE counter < 0
  <2> DEFINE g == Head(waiters)
  <2>1. waiters # <<>>
    BY <1>3, <1>4
  <2>2. /\ owned_by' = g /\ waiters' = Tail(waiters)
        /\ pc' = [[pc EXCEPT ![f] = x] EXCEPT ![g] = next[g]]
    BY <1>4 DEF Unlock
  <2>3. /\ waiters' \in Seq(Fibrils) /\ Len(waiters') = Len(waiters) - 1 /\ g \in Fibrils
        /\ g \in ToSet(waiters) /\ IsInjective(waiters') /\ ToSet(waiters') = ToSet(waiters) \ {g}
    BY <1>1, <2>1, <2>2, TailList
  <2> HIDE DEF g
  <2>4. pc[g] = "blocked" /\ g # f /\ g # None
    BY <1>1, <1>2, <2>3 DEF Inside, Entries
  <2>5. /\ pc' \in [Fibrils -> Inside \cup Outside] /\ pc'[f] = x /\ pc'[g] = next[g]
        /\ \A h \in Fibrils : h # f /\ h # g => pc'[h] = pc[h]
        /\ next[g] \in Inside /\ x \notin Inside /\ x # "blocked" /\ next[g] # "blocked"
    BY <1>1, <2>2, <2>3, <2>4 DEF Inside, Outside, Entries
  <2>6. \A h \in Fibrils : owned_by' = h <=> pc'[h] \in Inside
    BY <1>1, <1>2, <2>2, <2>5
  <2>7. \A h \in Fibrils : h \in ToSet(waiters') <=> pc'[h] = "blocked"
    BY <1>1, <2>3, <2>4, <2>5 DEF Inside, Entries
  <2>8. counter' = 0 - Len(waiters')
    BY <1>3, <2>3
  <2>9. MutexInv'
    BY <2>2, <2>3, <2>4, <2>6, <2>7, <2>8 DEF MutexInv
  <2>10. ASSUME NEW h \in Fibrils, h # f
         PROVE  At(h)' = At(h) /\ (pc'[h] = pc[h] \/ (pc[h] = "blocked" /\ pc'[h] = next[h]))
    BY <1>1, <2>4, <2>5, <2>10 DEF At, Inside, Entries
  <2> QED BY <2>2, <2>3, <2>5, <2>9, <2>10
<1>5. CASE ~(counter < 0)
  <2>1. owned_by' = None /\ waiters' = waiters /\ pc' = [pc EXCEPT ![f] = x] /\ Len(waiters) = 0
    BY <1>3, <1>5 DEF Unlock
  <2>2. /\ pc' \in [Fibrils -> Inside \cup Outside] /\ pc'[f] = x
        /\ \A h \in Fibrils : h # f => pc'[h] = pc[h]
        /\ x \notin Inside /\ x # "blocked"
    BY <1>1, <2>1 DEF Inside, Outside, Entries
  <2>3. waiters = <<>>
    BY <1>1, <2>1, EmptySeq
  <2>4. \A h \in Fibrils : owned_by' = h <=> pc'[h] \in Inside
    BY <1>1, <1>2, <2>1, <2>2
  <2>5. \A h \in Fibrils : h \in ToSet(waiters') <=> pc'[h] = "blocked"
    BY <1>1, <2>1, <2>2 DEF Inside, Entries
  <2>6. counter' = 1 - Len(waiters')
    BY <1>3, <2>1
  <2>7. MutexInv'
    BY <1>1, <2>1, <2>3, <2>4, <2>5, <2>6 DEF MutexInv
  <2>8. ASSUME NEW h \in Fibrils, h # f PROVE At(h)' = At(h)
    BY <2>2, <2>8 DEF At
  <2> QED BY <1>1, <2>1, <2>2, <2>7, <2>8
<1> QED BY <1>4, <1>5

\* fibril_mutex_unlock(): f leaves for x, where it may wait for the lock again.
LEMMA UnlockSync ==
    ASSUME SyncInv, NEW f \in Fibrils, pc[f] \in Inside,
           NEW x \in {"idle", "lock", "call", "delref", "done", "free"},
           Unlock(f, [pc EXCEPT ![f] = x]), cv' = cv,
           next' \in [Fibrils -> Entries], \A g \in Fibrils : g # f => next'[g] = next[g]
    PROVE  SyncInv' /\ Moves(f, IF x = "lock" THEN next'[f] ELSE x)
<1>1. /\ pc' \in [Fibrils -> Inside \cup Outside] /\ owned_by' \in Fibrils \cup {None}
      /\ waiters' \in Seq(Fibrils) /\ MutexInv' /\ pc'[f] = x
      /\ \A g \in Fibrils : g # f => /\ At(g)' = At(g)
                                     /\ pc'[g] = pc[g] \/ (pc[g] = "blocked" /\ pc'[g] = next[g])
  BY UnlockMoves
<1>2. next \in [Fibrils -> Entries] /\ cv \in Seq(Fibrils) /\ CvInv
  BY DEF SyncInv
<1>3. \A g \in Fibrils : g # f => At(g)' = At(g)
  BY <1>1
<1>4. CvInv'
  BY <1>1, <1>2 DEF CvInv, Inside, Entries
<1>5. At(f)' = IF x = "lock" THEN next'[f] ELSE x
  BY <1>1 DEF At
<1>6. Moves(f, IF x = "lock" THEN next'[f] ELSE x)
  BY <1>3, <1>5 DEF Moves
<1>7. SyncInv'
  BY <1>1, <1>2, <1>4 DEF SyncInv
<1> QED BY <1>6, <1>7

\* fibril_condvar_wait_timeout(): f joins the condition variable.
LEMMA CondvarWaitSync ==
    ASSUME SyncInv, NEW f \in Fibrils, pc[f] \in Inside, NEW n \in Entries, CondvarWait(f, n)
    PROVE  SyncInv' /\ Moves(f, n)
<1>1. next \in [Fibrils -> Entries] /\ cv \in Seq(Fibrils) /\ CvInv
  BY DEF SyncInv
<1>2. /\ next' \in [Fibrils -> Entries] /\ \A g \in Fibrils : g # f => next'[g] = next[g]
      /\ next'[f] = n /\ cv' = Append(cv, f) /\ Unlock(f, [pc EXCEPT ![f] = "wait"])
  BY <1>1 DEF CondvarWait
<1>3. /\ pc' \in [Fibrils -> Inside \cup Outside] /\ owned_by' \in Fibrils \cup {None}
      /\ waiters' \in Seq(Fibrils) /\ MutexInv' /\ pc'[f] = "wait"
      /\ \A g \in Fibrils : g # f => /\ At(g)' = At(g)
                                     /\ pc'[g] = pc[g] \/ (pc[g] = "blocked" /\ pc'[g] = next[g])
  BY <1>2, UnlockMoves
<1>4. f \notin ToSet(cv)
  BY <1>1 DEF CvInv, Inside, Entries
<1>5. cv' \in Seq(Fibrils) /\ ToSet(cv') = ToSet(cv) \cup {f} /\ IsInjective(cv')
  BY <1>1, <1>2, <1>4, AppendList DEF CvInv
<1>6. CvInv'
  BY <1>1, <1>3, <1>5 DEF CvInv, Inside, Entries
<1>7. At(f)' = n
  BY <1>2, <1>3 DEF At
<1>8. Moves(f, n)
  BY <1>3, <1>7 DEF Moves
<1>9. SyncInv'
  BY <1>2, <1>3, <1>5, <1>6 DEF SyncInv
<1> QED BY <1>8, <1>9

\* fibril_condvar_broadcast(), and f goes on to x inside its critical section.
LEMMA BroadcastSync ==
    ASSUME SyncInv, NEW f \in Fibrils, pc[f] \in Inside, NEW x \in {"exit", "set", "unlock", "waitclean"},
           Broadcast([pc EXCEPT ![f] = x]), UNCHANGED <<lock, next>>
    PROVE  SyncInv' /\ Moves(f, x)
<1>1. /\ pc \in [Fibrils -> Inside \cup Outside] /\ next \in [Fibrils -> Entries]
      /\ MutexInv /\ CvInv /\ waiters \in Seq(Fibrils)
  BY DEF SyncInv
<1>2. cv' = <<>> /\ UNCHANGED <<counter, owned_by, waiters, next>> /\ ToSet(<<>>) = {}
      /\ IsInjective(<<>>) /\ <<>> \in Seq(Fibrils)
  BY EmptySeq DEF Broadcast, lock, ToSet, IsInjective
<1>3. /\ pc'[f] = x /\ pc' \in [Fibrils -> Inside \cup Outside]
      /\ \A g \in Fibrils : g # f => pc'[g] = IF pc[g] = "wait" THEN "woken" ELSE pc[g]
  BY <1>1 DEF Broadcast, Notified, CvInv, Inside, Outside, Entries
<1>4. x \in Inside /\ x # "blocked" /\ pc[f] # "blocked"
  BY DEF Inside, Entries
<1>5. MutexInv'
  BY <1>1, <1>2, <1>3, <1>4 DEF MutexInv, Inside, Entries
<1>6. CvInv'
  BY <1>2, <1>3 DEF CvInv
<1>7. Moves(f, x)
  BY <1>2, <1>3 DEF Moves, At
<1> QED BY <1>1, <1>2, <1>3, <1>5, <1>6, <1>7 DEF SyncInv

\* f moves inside its critical section.
LEMMA InsideSync ==
    ASSUME SyncInv, NEW f \in Fibrils, pc[f] \in Inside, NEW x \in {"loop", "set", "unlock"},
           pc' = [pc EXCEPT ![f] = x], UNCHANGED <<lock, cv, next>>
    PROVE  SyncInv' /\ Moves(f, x)
<1>1. /\ pc'[f] = x /\ pc' \in [Fibrils -> Inside \cup Outside]
      /\ \A g \in Fibrils : g # f => pc'[g] = pc[g]
      /\ UNCHANGED <<counter, owned_by, waiters, cv, next>>
  BY DEF SyncInv, Inside, Entries, lock
<1>2. MutexInv'
  BY <1>1 DEF SyncInv, MutexInv, Inside, Entries
<1>3. CvInv'
  BY <1>1 DEF SyncInv, CvInv, Inside, Entries
<1> QED BY <1>1, <1>2, <1>3 DEF SyncInv, Moves, At

\* f moves outside of critical sections, and is not in the condition variable.
LEMMA OutsideSync ==
    ASSUME SyncInv, NEW f \in Fibrils, pc[f] \in {"call", "idle", "free", "delref"},
           NEW x \in {"lock", "done"}, pc' = [pc EXCEPT ![f] = x], UNCHANGED <<lock, cv>>,
           next' \in [Fibrils -> Entries], \A g \in Fibrils : g # f => next'[g] = next[g]
    PROVE  SyncInv' /\ Moves(f, IF x = "lock" THEN next'[f] ELSE x)
<1>1. /\ pc'[f] = x /\ pc' \in [Fibrils -> Inside \cup Outside]
      /\ \A g \in Fibrils : g # f => pc'[g] = pc[g]
      /\ UNCHANGED <<counter, owned_by, waiters, cv>>
  BY DEF SyncInv, Outside, lock
<1>2. MutexInv'
  BY <1>1 DEF SyncInv, MutexInv, Inside, Entries
<1>3. CvInv'
  BY <1>1 DEF SyncInv, CvInv
<1> QED BY <1>1, <1>2, <1>3 DEF SyncInv, Moves, At

\* fibril_mutex_lock(): the fibril gets the lock or is queued for it.
LEMMA LockSync ==
    ASSUME SyncInv, NEW f \in Fibrils, Lock(f)
    PROVE  SyncInv' /\ Moves(f, At(f))
<1>1. /\ pc \in [Fibrils -> Inside \cup Outside] /\ next \in [Fibrils -> Entries]
      /\ waiters \in Seq(Fibrils) /\ MutexInv /\ CvInv /\ owned_by \in Fibrils \cup {None}
      /\ pc[f] = "lock" /\ UNCHANGED <<cv, next>> /\ counter' = counter - 1
      /\ Len(waiters) \in Nat /\ f # None
  BY FibrilsFinite, ListIsFunction DEF SyncInv, Lock
<1>2. owned_by # f /\ f \notin ToSet(waiters)
  BY <1>1 DEF MutexInv, Inside, Entries
<1>3. CASE counter > 0
  <2>1. owned_by' = f /\ pc' = [pc EXCEPT ![f] = next[f]] /\ waiters' = waiters
    BY <1>3 DEF Lock
  <2>2. owned_by = None /\ waiters = <<>> /\ counter' = 0 - Len(waiters')
    BY <1>1, <1>3, <2>1 DEF MutexInv
  <2>3. /\ pc'[f] = next[f] /\ pc' \in [Fibrils -> Inside \cup Outside] /\ next[f] \in Inside
        /\ \A g \in Fibrils : g # f => pc'[g] = pc[g]
    BY <1>1, <2>1 DEF Inside
  <2>4. \A g \in Fibrils : pc[g] \notin Inside /\ g # None
    BY <1>1, <2>2, FibrilsFinite DEF MutexInv
  <2>5. \A g \in Fibrils : owned_by' = g <=> pc'[g] \in Inside
    BY <2>1, <2>3, <2>4
  <2>6. \A g \in Fibrils : g \in ToSet(waiters') <=> pc'[g] = "blocked"
    BY <1>1, <1>2, <2>1, <2>3 DEF MutexInv, Inside, Entries
  <2>7. MutexInv'
    BY <1>1, <2>1, <2>2, <2>5, <2>6 DEF MutexInv
  <2>8. CvInv'
    BY <1>1, <2>3 DEF CvInv, Inside, Entries
  <2>9. Moves(f, At(f))
    BY <1>1, <2>3 DEF Moves, At, Inside, Entries
  <2> QED BY <1>1, <2>1, <2>3, <2>7, <2>8, <2>9 DEF SyncInv
<1>4. CASE ~(counter > 0)
  <2>1. /\ owned_by' = owned_by /\ pc' = [pc EXCEPT ![f] = "blocked"]
        /\ waiters' = Append(waiters, f)
    BY <1>2, <1>4 DEF Lock
  <2>2. owned_by # None
    <3>1. ASSUME owned_by = None PROVE FALSE
      <4>1. Len(waiters) = 0 /\ counter = 1 - Len(waiters)
        BY <1>1, <3>1 DEF MutexInv
      <4> QED BY <1>4, <4>1
    <3> QED BY <3>1
  <2>3. /\ pc'[f] = "blocked" /\ pc' \in [Fibrils -> Inside \cup Outside]
        /\ \A g \in Fibrils : g # f => pc'[g] = pc[g]
    BY <1>1, <2>1 DEF Outside
  <2>4. /\ waiters' \in Seq(Fibrils) /\ Len(waiters') = Len(waiters) + 1 /\ IsInjective(waiters')
        /\ ToSet(waiters') = ToSet(waiters) \cup {f}
    BY <1>1, <1>2, <2>1, AppendList DEF MutexInv
  <2>5. counter' = 0 - Len(waiters')
    BY <1>1, <2>2, <2>4 DEF MutexInv
  <2>6. MutexInv'
    BY <1>1, <2>1, <2>2, <2>3, <2>4, <2>5 DEF MutexInv, Inside, Entries
  <2>7. CvInv'
    BY <1>1, <2>3 DEF CvInv
  <2>8. Moves(f, At(f))
    BY <1>1, <2>3 DEF Moves, At
  <2> QED BY <1>1, <2>1, <2>3, <2>4, <2>6, <2>7, <2>8 DEF SyncInv
<1> QED BY <1>3, <1>4

\* The end of a wait: the fibril leaves the condition variable.
LEMMA WokenSync ==
    ASSUME SyncInv, NEW f \in Fibrils, Woken(f)
    PROVE  SyncInv' /\ Moves(f, At(f))
<1>1. /\ pc \in [Fibrils -> Inside \cup Outside] /\ cv \in Seq(Fibrils) /\ CvInv /\ MutexInv
      /\ pc[f] = "woken" /\ pc' = [pc EXCEPT ![f] = "lock"]
      /\ UNCHANGED <<counter, owned_by, waiters, next>>
  BY DEF SyncInv, Woken, lock
<1>2. /\ pc'[f] = "lock" /\ pc' \in [Fibrils -> Inside \cup Outside]
      /\ \A g \in Fibrils : g # f => pc'[g] = pc[g]
  BY <1>1 DEF Outside
<1>3. cv' \in Seq(Fibrils) /\ IsInjective(cv') /\ ToSet(cv') = ToSet(cv) \ {f}
  <2>1. CASE f \notin ToSet(cv) /\ cv' = cv
    <3>1. ToSet(cv) \ {f} = ToSet(cv)
      BY <2>1
    <3> QED BY <1>1, <2>1, <3>1 DEF CvInv
  <2>2. CASE \E i \in 1..Len(cv) : cv[i] = f /\ cv' = RemoveAt(cv, i)
    BY <1>1, <2>2, RemoveAtList DEF CvInv
  <2> QED BY <2>1, <2>2 DEF Woken
<1>4. CvInv'
  BY <1>1, <1>2, <1>3 DEF CvInv
<1>5. MutexInv'
  BY <1>1, <1>2 DEF MutexInv, Inside, Entries
<1>6. Moves(f, At(f))
  BY <1>1, <1>2 DEF Moves, At
<1> QED BY <1>1, <1>2, <1>3, <1>4, <1>5, <1>6 DEF SyncInv

\* The timeout of the timer fibril: it is runnable, but still linked.
LEMMA TimeoutSync ==
    ASSUME SyncInv, Timeout
    PROVE  SyncInv' /\ Moves(Timer, At(Timer))
<1>1. /\ pc[Timer] = "wait" /\ pc' = [pc EXCEPT ![Timer] = "woken"] /\ Timer \in Fibrils
      /\ UNCHANGED <<counter, owned_by, waiters, next, cv>>
  BY FibrilsFinite DEF Timeout, lock
<1>2. /\ pc'[Timer] = "woken" /\ pc' \in [Fibrils -> Inside \cup Outside]
      /\ \A g \in Fibrils : g # Timer => pc'[g] = pc[g]
  BY <1>1 DEF SyncInv, Outside
<1>3. CvInv'
  BY <1>1, <1>2 DEF CvInv, SyncInv
<1>4. MutexInv'
  BY <1>1, <1>2 DEF MutexInv, SyncInv, Inside, Entries
<1>5. Moves(Timer, At(Timer))
  BY <1>1, <1>2 DEF Moves, At
<1> QED BY <1>1, <1>2, <1>3, <1>4, <1>5 DEF SyncInv

-----------------------------------------------------------------------------
(* The timer.                                                              *)

\* The types of what is not the lock or the condition variable.
DataType ==
    /\ state \in {"not_set", "active", "fired", "cleanup", "clean"}
    /\ handler_fid \in {None, Timer} /\ fun \in 0..MaxSets /\ freed \in BOOLEAN
    /\ refcnt \in Nat
    /\ op \in [Fibrils -> {"none", "set", "clear", "drop"}]
    /\ timed_out \in [Fibrils -> BOOLEAN]
    /\ sets \in 0..MaxSets /\ fired \in Nat /\ cancelled \in Nat
    /\ called \in [1..MaxSets -> Nat]

\* What the steps of the timer fibril and the clients have to preserve.
TimerInv ==
    HandlerInv /\ ClientInv /\ EndInv /\ CalledInv /\ SetsAccountedFor /\ ReferencesExact

LEMMA Parts == IInv => SyncInv /\ DataType /\ TimerInv
BY DEF IInv, TypeOK, SyncInv, DataType, TimerInv

LEMMA Together ==
    ASSUME SyncInv', DataType', TimerInv'
    PROVE  IInv'
<1>1. /\ waiters' \in Seq(Fibrils) /\ IsInjective(waiters') /\ owned_by' \in Fibrils \cup {None}
      /\ owned_by' = None => waiters' = <<>>
      /\ counter' = (IF owned_by' = None THEN 1 ELSE 0) - Len(waiters')
      /\ \A f \in Fibrils : owned_by' = f <=> pc'[f] \in Inside
      /\ \A f \in Fibrils : f \in ToSet(waiters') <=> pc'[f] = "blocked"
  BY DEF SyncInv, MutexInv
<1>2. owned_by' \notin ToSet(waiters')
  <2>1. CASE owned_by' \in Fibrils
    BY <1>1, <2>1 DEF Inside, Entries
  <2>2. CASE owned_by' = None
    BY <1>1, <2>2, ListIsFunction, FibrilsFinite
  <2> QED BY <1>1, <2>1, <2>2
<1>3. counter' \in 1 - Cardinality(Fibrils) .. 1
  <2>1. (IF owned_by' = None THEN 1 ELSE 0) - Len(waiters') \in 1 - Cardinality(Fibrils) .. 1
    BY <1>1, <1>2, CounterBound
  <2> QED BY <1>1, <2>1
<1>4. TypeOK'
  BY <1>3 DEF SyncInv, DataType, TypeOK
<1> QED BY <1>4 DEF SyncInv, TimerInv, IInv

\* Who is inside a critical section is there alone.
LEMMA Alone ==
    ASSUME SyncInv, NEW f \in Fibrils, pc[f] \in Inside
    PROVE  /\ At(f) = pc[f]
           /\ \A g \in Fibrils : g # f => At(g) \notin {"exit", "set", "unlock"}
<1>1. \A g \in Fibrils : g # f => pc[g] \notin Inside
  BY DEF SyncInv, MutexInv
<1>2. \A g \in Fibrils : next[g] \notin {"exit", "set", "unlock"}
  BY DEF SyncInv, Entries
<1> QED BY <1>1, <1>2 DEF At, Inside, Entries

LEMMA Members ==
    /\ Clients \subseteq Fibrils /\ Timer \in Fibrils /\ Timer \notin Clients /\ None # Timer
    /\ Fibrils = Clients \cup {Timer} /\ MaxSets \in Nat
BY TimerAssumption DEF Fibrils

\* Whoever holds a reference is counted: without references everybody has
\* dropped theirs.
LEMMA Referrers ==
    ASSUME ReferencesExact
    PROVE  /\ IsFiniteSet(Holders) /\ Cardinality(Holders) \in Nat /\ refcnt \in Nat
           /\ refcnt = 0 => ~TimerHolds /\ \A c \in Clients : op[c] = "drop"
<1>1. IsFiniteSet(Holders) /\ Cardinality(Holders) \in Nat
  BY TimerAssumption, FS_Subset, FS_CardinalityType DEF Holders
<1>2. Cardinality(Holders) = 0 => Holders = {}
  BY <1>1, FS_EmptySet
<1>3. refcnt \in Nat /\ (refcnt = 0 => ~TimerHolds /\ Cardinality(Holders) = 0)
  BY <1>1 DEF ReferencesExact
<1> QED BY <1>1, <1>2, <1>3 DEF Holders

\* A step in which no reference is taken or dropped.
LEMMA RefsSame ==
    ASSUME ReferencesExact, refcnt' = refcnt, \A c \in Clients : op'[c] = op[c],
           TimerHolds' <=> TimerHolds
    PROVE  ReferencesExact'
<1>1. Holders' = Holders
  BY DEF Holders
<1>2. Cardinality(Holders)' = Cardinality(Holders)
  BY <1>1
<1> QED BY <1>2 DEF ReferencesExact

\* A step that neither begins nor ends the destruction of the timer.
LEMMA EndKept ==
    ASSUME EndInv, NEW f \in Fibrils, At(f) \notin Ending, At(f)' \notin Ending,
           \A g \in Fibrils : g # f => At(g)' = At(g),
           refcnt = 0 => refcnt' = 0, freed' = freed,
           state' = state \/ {state, state'} \cap {"cleanup", "clean"} = {},
           state' = "clean" => cv' = <<>>, At(Timer) = "done" => At(Timer)' = "done"
    PROVE  EndInv'
<1>1. \A g \in Fibrils : At(g)' \in Ending <=> At(g) \in Ending
  OBVIOUS
<1>2. \A g \in Fibrils : At(g)' \in Ending => At(g)' = At(g)
  OBVIOUS
<1>3. \A g \in Fibrils : At(g) \in Ending => At(g)' = At(g)
  OBVIOUS
<1>4. state' \in {"cleanup", "clean"} <=> state \in {"cleanup", "clean"}
  OBVIOUS
<1>5. \A g \in Fibrils : At(g)' \in Ending =>
          refcnt' = 0 /\ ~freed' /\ \A h \in Fibrils : At(h)' \in Ending => h = g
  BY <1>1 DEF EndInv
<1>6. /\ \A g \in Fibrils : At(g)' = "destroy" => state' \notin {"cleanup", "clean"}
      /\ \A g \in Fibrils : At(g)' = "waitclean" => state' \in {"cleanup", "clean"}
  BY <1>2, <1>4 DEF EndInv, Ending
<1>7. \A g \in Fibrils : At(g)' = "free" => state' = "clean" /\ At(Timer)' = "done"
  BY <1>2 DEF EndInv, Ending
<1>8. state' \in {"cleanup", "clean"} =>
          refcnt' = 0 /\ (freed' \/ \E g \in Fibrils : At(g)' \in {"waitclean", "free"})
  BY <1>3, <1>4 DEF EndInv, Ending
<1>9. freed' => At(Timer)' = "done"
  BY DEF EndInv
<1> QED BY <1>5, <1>6, <1>7, <1>8, <1>9 DEF EndInv

\* A step in which nobody moves and the timer is left alone.
LEMMA Quiet ==
    ASSUME TimerInv, DataType, \A f \in Fibrils : At(f)' = At(f),
           UNCHANGED <<timer, refcnt, op, history>>, state = "clean" => cv' = <<>>
    PROVE  TimerInv'
<1>1. UNCHANGED <<state, handler_fid, fun, freed, refcnt, op, sets, fired, cancelled, called>>
  BY DEF timer, history
<1>2. HandlerInv'
  BY <1>1, Members DEF TimerInv, HandlerInv
<1>3. ClientInv'
  BY <1>1, Members DEF TimerInv, ClientInv
<1>4. EndInv'
  BY <1>1, Members DEF TimerInv, EndInv
<1>5. CalledInv'
  BY <1>1, Members DEF TimerInv, CalledInv
<1>6. SetsAccountedFor'
  BY <1>1 DEF TimerInv, SetsAccountedFor
<1>7. ReferencesExact'
  BY <1>1, Members, RefsSame DEF TimerInv, TimerHolds
<1> QED BY <1>2, <1>3, <1>4, <1>5, <1>6, <1>7 DEF TimerInv

LEMMA LockStep ==
    ASSUME IInv, NEW f \in Fibrils, Lock(f)
    PROVE  IInv'
<1>1. SyncInv /\ DataType /\ TimerInv
  BY Parts
<1>2. SyncInv' /\ \A g \in Fibrils : At(g)' = At(g)
  BY <1>1, LockSync DEF Moves
<1>3. UNCHANGED <<cv, timer, refcnt, op, timed_out, history>>
  BY DEF Lock
<1>4. DataType'
  BY <1>1, <1>3 DEF DataType, timer, history
<1>5. TimerInv'
  BY <1>1, <1>2, <1>3, Quiet DEF TimerInv, EndInv
<1> QED BY <1>2, <1>4, <1>5, Together

LEMMA WokenStep ==
    ASSUME IInv, NEW f \in Fibrils, Woken(f)
    PROVE  IInv'
<1>1. SyncInv /\ DataType /\ TimerInv
  BY Parts
<1>2. SyncInv' /\ \A g \in Fibrils : At(g)' = At(g)
  BY <1>1, WokenSync DEF Moves
<1>3. /\ UNCHANGED <<timer, refcnt, op, history>>
      /\ timed_out' = [timed_out EXCEPT ![f] = f \in ToSet(cv)]
  BY DEF Woken
<1>4. DataType'
  BY <1>1, <1>3 DEF DataType, timer, history
<1>5. state = "clean" => cv' = <<>>
  <2>1. SUFFICES ASSUME cv = <<>> PROVE cv' = <<>>
    BY <1>1 DEF TimerInv, EndInv
  <2>2. \A i \in 1..Len(cv) : FALSE
    BY <2>1
  <2> QED BY <2>1, <2>2 DEF Woken
<1>6. TimerInv'
  BY <1>1, <1>2, <1>3, <1>5, Quiet
<1> QED BY <1>2, <1>4, <1>6, Together

LEMMA TimeoutStep ==
    ASSUME IInv, Timeout
    PROVE  IInv'
<1>1. SyncInv /\ DataType /\ TimerInv
  BY Parts
<1>2. SyncInv' /\ \A g \in Fibrils : At(g)' = At(g)
  BY <1>1, TimeoutSync DEF Moves
<1>3. UNCHANGED <<cv, timer, refcnt, op, timed_out, history>>
  BY DEF Timeout
<1>4. DataType'
  BY <1>1, <1>3 DEF DataType, timer, history
<1>5. TimerInv'
  BY <1>1, <1>2, <1>3, Quiet DEF TimerInv, EndInv
<1> QED BY <1>2, <1>4, <1>5, Together

\* A client waits for the handler, or somebody for the timer fibril to end.
LEMMA WaitStep ==
    ASSUME IInv, NEW f \in Fibrils, ClearWait(f) \/ DestroyWait(f)
    PROVE  IInv'
<1>1. SyncInv /\ DataType /\ TimerInv
  BY Parts
<1>2. /\ pc[f] \in {"clear", "waitclean"} /\ CondvarWait(f, pc[f])
      /\ UNCHANGED <<timer, refcnt, op, timed_out, history>>
      /\ handler_fid # None \/ state # "clean"
  BY DEF ClearWait, DestroyWait, HandlerRuns
<1>3. pc[f] \in Inside /\ pc[f] \in Entries
  BY <1>2 DEF Inside, Entries
<1>4. SyncInv' /\ Moves(f, pc[f]) /\ At(f) = pc[f]
  BY <1>1, <1>2, <1>3, CondvarWaitSync, Alone
<1>5. \A g \in Fibrils : At(g)' = At(g)
  BY <1>4 DEF Moves
<1>6. state # "clean"
  BY <1>1, <1>2, Members DEF TimerInv, HandlerInv
<1>7. DataType'
  BY <1>1, <1>2 DEF DataType, timer, history
<1>8. TimerInv'
  BY <1>1, <1>2, <1>5, <1>6, Quiet
<1> QED BY <1>4, <1>7, <1>8, Together

-----------------------------------------------------------------------------
(* The steps of the timer fibril.                                          *)

\* The timer fibril waits or looks at the state again.
LEMMA TimerIdles ==
    ASSUME TimerInv, DataType, NEW x \in {"loop", "waited"}, At(Timer) \in {"loop", "waited"},
           Moves(Timer, x), UNCHANGED <<timer, refcnt, op, history>>
    PROVE  TimerInv'
<1>1. /\ UNCHANGED <<state, handler_fid, fun, freed, refcnt, op, sets, fired, cancelled, called>>
      /\ At(Timer)' = x /\ \A c \in Clients : At(c)' = At(c)
      /\ \A g \in Fibrils : g # Timer => At(g)' = At(g)
      /\ \A g \in Fibrils : At(g)' = "set" => At(g) = "set"
  BY Members DEF timer, history, Moves
<1>2. state # "clean" /\ HandlerInv'
  BY <1>1, Members DEF TimerInv, HandlerInv
<1>3. ClientInv'
  BY <1>1, Members DEF TimerInv, ClientInv
<1>4. EndInv'
  BY <1>1, <1>2, Members, EndKept DEF TimerInv, Ending
<1>5. CalledInv'
  BY <1>1, Members DEF TimerInv, CalledInv
<1>6. SetsAccountedFor'
  BY <1>1 DEF TimerInv, SetsAccountedFor
<1>7. ReferencesExact'
  BY <1>1, RefsSame DEF TimerInv, TimerHolds
<1> QED BY <1>2, <1>3, <1>4, <1>5, <1>6, <1>7 DEF TimerInv

LEMMA TimerLoopStep ==
    ASSUME IInv, TimerLoop
    PROVE  IInv'
<1>1. /\ SyncInv /\ DataType /\ TimerInv /\ pc[Timer] = "loop" /\ pc[Timer] \in Inside
      /\ UNCHANGED <<handler_fid, fun, freed, refcnt, op, timed_out, history>>
  BY Parts DEF TimerLoop, Inside, Entries
<1>2. /\ Timer \in Fibrils /\ At(Timer) = "loop"
      /\ \A g \in Fibrils : g # Timer => At(g) \notin {"exit", "set", "unlock"}
  BY <1>1, Members, Alone
<1>3. ASSUME NEW n \in {"loop", "waited"}, CondvarWait(Timer, n), UNCHANGED state PROVE IInv'
  <2>1. SyncInv' /\ Moves(Timer, n)
    BY <1>1, <1>2, <1>3, CondvarWaitSync DEF Entries
  <2>2. TimerInv'
    BY <1>1, <1>2, <1>3, <2>1, TimerIdles DEF timer
  <2>3. DataType'
    BY <1>1, <1>3 DEF DataType, history
  <2> QED BY <2>1, <2>2, <2>3, Together
<1>4. CASE /\ state = "cleanup" /\ state' = "clean" /\ Broadcast([pc EXCEPT ![Timer] = "exit"])
           /\ UNCHANGED <<lock, next>>
  <2>1. SyncInv' /\ Moves(Timer, "exit") /\ cv' = <<>>
    BY <1>1, <1>2, <1>4, BroadcastSync DEF Broadcast
  <2>2. /\ UNCHANGED <<handler_fid, fun, freed, refcnt, op, sets, fired, cancelled, called>>
        /\ At(Timer)' = "exit" /\ \A c \in Clients : At(c)' = At(c)
        /\ \A g \in Fibrils : g # Timer => At(g)' = At(g)
        /\ \A g \in Fibrils : At(g)' = "set" => At(g) = "set"
    BY <1>1, <2>1, Members DEF history, Moves
  <2>3. HandlerInv'
    BY <1>1, <1>2, <1>4, <2>2, Members DEF TimerInv, HandlerInv
  <2>4. ClientInv'
    BY <1>1, <1>4, <2>2, Members DEF TimerInv, ClientInv
  <2>5. EndInv'
    <3>1. /\ refcnt = 0 /\ ~freed /\ \A f \in Fibrils : At(f) \notin {"free", "destroy"}
          /\ \E f \in Fibrils : At(f) = "waitclean"
      BY <1>1, <1>2, <1>4 DEF TimerInv, EndInv
    <3>2. \A f \in Fibrils : At(f)' \in Ending => At(f)' = "waitclean" /\ At(f) = "waitclean"
      BY <1>2, <2>2, <3>1 DEF Ending
    <3>3. \A f, g \in Fibrils : At(f) = "waitclean" /\ At(g) = "waitclean" => f = g
      BY <1>1 DEF TimerInv, EndInv, Ending
    <3>4. \E f \in Fibrils : At(f)' = "waitclean"
      BY <1>2, <2>2, <3>1
    <3> QED BY <1>4, <2>1, <2>2, <3>1, <3>2, <3>3, <3>4 DEF EndInv, Ending
  <2>6. CalledInv'
    BY <1>1, <1>4, <2>2 DEF TimerInv, CalledInv
  <2>7. SetsAccountedFor'
    BY <1>1, <1>4, <2>2 DEF TimerInv, SetsAccountedFor
  <2>8. DataType'
    BY <1>1, <1>4 DEF DataType, history
  <2>9. ReferencesExact'
    BY <1>1, <1>2, <1>4, <2>2, RefsSame DEF TimerInv, TimerHolds
  <2> QED BY <2>1, <2>3, <2>4, <2>5, <2>6, <2>7, <2>8, <2>9, Together DEF TimerInv
<1> QED BY <1>3, <1>4 DEF TimerLoop

\* The timer fires only from fts_active; the function has not been called yet.
LEMMA WaitedStep ==
    ASSUME IInv, Waited
    PROVE  IInv'
<1>1. /\ SyncInv /\ DataType /\ TimerInv /\ pc[Timer] = "waited" /\ pc[Timer] \in Inside
      /\ UNCHANGED <<cv, fun, freed, refcnt, next, op, timed_out, sets, cancelled, called>>
  BY Parts DEF Waited, Inside, Entries
<1>2. Timer \in Fibrils /\ At(Timer) = "waited" /\ next \in [Fibrils -> Entries]
  BY <1>1, Members, Alone DEF SyncInv
<1>3. CASE ~Fires
  <2>1. pc' = [pc EXCEPT ![Timer] = "loop"] /\ UNCHANGED <<lock, state, handler_fid, fired>>
    BY <1>3 DEF Waited
  <2>2. SyncInv' /\ Moves(Timer, "loop")
    BY <1>1, <1>2, <2>1, InsideSync
  <2>3. TimerInv'
    BY <1>1, <1>2, <2>1, <2>2, TimerIdles DEF timer, history
  <2>4. DataType'
    BY <1>1, <2>1 DEF DataType
  <2> QED BY <2>2, <2>3, <2>4, Together
<1>4. CASE Fires
  <2>1. /\ state = "active" /\ state' = "fired" /\ handler_fid' = Timer /\ fired' = fired + 1
        /\ Unlock(Timer, [pc EXCEPT ![Timer] = "call"])
    BY <1>4 DEF Waited, Fires
  <2>2. SyncInv' /\ Moves(Timer, "call")
    BY <1>1, <1>2, <2>1, UnlockSync
  <2>3. /\ At(Timer)' = "call" /\ \A c \in Clients : At(c)' = At(c)
        /\ \A g \in Fibrils : g # Timer => At(g)' = At(g)
        /\ \A g \in Fibrils : At(g)' = "set" => At(g) = "set"
    BY <2>2, Members DEF Moves
  <2>4. HandlerInv'
    BY <2>1, <2>3, Members DEF HandlerInv
  <2>5. ClientInv'
    BY <1>1, <2>1, <2>3, Members DEF TimerInv, ClientInv
  <2>6. EndInv'
    BY <1>1, <1>2, <2>1, <2>3, EndKept DEF TimerInv, Ending
  <2>7. CalledInv'
    BY <1>1, <2>1, <2>3 DEF TimerInv, CalledInv
  <2>8. SetsAccountedFor'
    BY <1>1, <2>1 DEF TimerInv, SetsAccountedFor, DataType
  <2>9. DataType'
    BY <1>1, <2>1 DEF DataType
  <2>10. ReferencesExact'
    BY <1>1, <2>1, <2>3, RefsSame DEF TimerInv, TimerHolds
  <2> QED BY <2>2, <2>4, <2>5, <2>6, <2>7, <2>8, <2>9, <2>10, Together DEF TimerInv
<1> QED BY <1>3, <1>4

LEMMA CallHandlerStep ==
    ASSUME IInv, CallHandler
    PROVE  IInv'
<1>1. /\ SyncInv /\ DataType /\ TimerInv /\ pc[Timer] = "call" /\ Timer \in Fibrils
      /\ next \in [Fibrils -> Entries]
  BY Parts, Members DEF CallHandler, SyncInv
<1>2. /\ UNCHANGED <<lock, cv, state, handler_fid, fun, freed, refcnt, op, timed_out, sets, fired, cancelled>>
      /\ called' = [called EXCEPT ![fun] = @ + 1] /\ pc' = [pc EXCEPT ![Timer] = "lock"]
      /\ next' = [next EXCEPT ![Timer] = "handler"]
  BY DEF CallHandler, timer
<1>3. /\ next' \in [Fibrils -> Entries] /\ \A g \in Fibrils : g # Timer => next'[g] = next[g]
      /\ next'[Timer] = "handler"
  BY <1>1, <1>2 DEF Entries
<1>4. SyncInv' /\ Moves(Timer, "handler")
  BY <1>1, <1>2, <1>3, OutsideSync
<1>5. /\ At(Timer) = "call" /\ At(Timer)' = "handler"
      /\ \A c \in Clients : At(c)' = At(c)
      /\ \A g \in Fibrils : g # Timer => At(g)' = At(g)
      /\ \A g \in Fibrils : At(g)' = "set" => At(g) = "set"
  BY <1>1, <1>3, <1>4, Members DEF Moves, At
<1>6. state = "fired" /\ fun \in 1..MaxSets /\ called[fun] = 0 /\ called \in [1..MaxSets -> Nat]
  BY <1>1, <1>5, Members DEF TimerInv, HandlerInv, CalledInv, DataType
<1>7. HandlerInv'
  BY <1>1, <1>2, <1>5, <1>6 DEF TimerInv, HandlerInv
<1>8. ClientInv'
  BY <1>1, <1>2, <1>5, <1>6 DEF TimerInv, ClientInv
<1>9. EndInv'
  BY <1>1, <1>2, <1>5, <1>6, EndKept DEF TimerInv, Ending
<1>10. CalledInv'
  <2>1. /\ called' \in [1..MaxSets -> Nat] /\ called'[fun] = 1
        /\ \A n \in 1..MaxSets : n # fun => called'[n] = called[n]
    BY <1>2, <1>6
  <2>2. fun <= sets /\ fun \in Int /\ sets \in Int /\ MaxSets \in Int
    BY <1>1, Members DEF TimerInv, CalledInv, DataType
  <2>3. \A n \in 1..MaxSets : called'[n] <= 1 /\ (n > sets => called'[n] = 0)
    BY <1>1, <2>1, <2>2 DEF TimerInv, CalledInv
  <2> QED BY <1>1, <1>2, <1>5, <1>6, <2>2, <2>3 DEF TimerInv, CalledInv
<1>11. SetsAccountedFor'
  BY <1>1, <1>2 DEF TimerInv, SetsAccountedFor
<1>12. DataType'
  BY <1>1, <1>2, <1>6 DEF DataType
<1>13. ReferencesExact'
  BY <1>1, <1>2, <1>5, RefsSame DEF TimerInv, TimerHolds
<1> QED BY <1>4, <1>7, <1>8, <1>9, <1>10, <1>11, <1>12, <1>13, Together DEF TimerInv

\* The handler holds the lock: it sets the timer again or gives it up.
LEMMA HandlerStep ==
    ASSUME IInv, Handler
    PROVE  IInv'
<1>1. /\ SyncInv /\ DataType /\ TimerInv /\ Timer \in Fibrils
      /\ pc[Timer] = "handler" /\ pc[Timer] \in Inside
      /\ UNCHANGED <<lock, cv, state, handler_fid, fun, freed, refcnt, next, timed_out, sets,
                     fired, cancelled, called>>
  BY Parts, Members DEF Handler, Inside, Entries, timer, history
<1>2. At(Timer) = "handler"
  BY <1>1, Alone
<1>3. PICK x \in {"set", "unlock"} :
         /\ pc' = [pc EXCEPT ![Timer] = x]
         /\ x = "set" => sets < MaxSets
         /\ op' = [op EXCEPT ![Timer] = IF x = "set" THEN "set" ELSE "drop"]
  BY DEF Handler
<1>4. SyncInv' /\ Moves(Timer, x)
  BY <1>1, <1>3, InsideSync
<1>5. /\ At(Timer)' = x /\ \A c \in Clients : At(c)' = At(c)
      /\ \A g \in Fibrils : g # Timer => At(g)' = At(g)
  BY <1>4, Members DEF Moves
<1>6. /\ op'[Timer] = IF x = "set" THEN "set" ELSE "drop"
      /\ \A c \in Clients : op'[c] = op[c]
  BY <1>1, <1>3, Members DEF DataType
<1>7. state = "fired" /\ handler_fid = Timer
  BY <1>1, <1>2 DEF TimerInv, HandlerInv
<1>8. HandlerInv'
  BY <1>1, <1>5, <1>6, <1>7, Members DEF HandlerInv
<1>9. ClientInv'
  BY <1>1, <1>5, <1>6 DEF TimerInv, ClientInv
<1>10. EndInv'
  BY <1>1, <1>2, <1>5, <1>7, EndKept DEF TimerInv, Ending
<1>11. CalledInv'
  <2>1. \A g \in Fibrils : At(g)' = "set" => sets < MaxSets
    BY <1>1, <1>3, <1>5, Members DEF TimerInv, CalledInv
  <2> QED BY <1>1, <1>5, <2>1 DEF TimerInv, CalledInv
<1>12. SetsAccountedFor'
  BY <1>1 DEF TimerInv, SetsAccountedFor
<1>13. DataType'
  BY <1>1, <1>3 DEF DataType
<1>14. ReferencesExact'
  BY <1>1, <1>2, <1>5, <1>6, RefsSame DEF TimerInv, TimerHolds
<1> QED BY <1>4, <1>8, <1>9, <1>10, <1>11, <1>12, <1>13, <1>14, Together DEF TimerInv

\* The timer fibril is back from the handler; perhaps it finds the timer being
\* destroyed.
LEMMA HandledStep ==
    ASSUME IInv, Handled
    PROVE  IInv'
<1>1. /\ SyncInv /\ DataType /\ TimerInv /\ Timer \in Fibrils
      /\ pc[Timer] = "handled" /\ pc[Timer] \in Inside
      /\ pc' = [pc EXCEPT ![Timer] = "loop"] /\ handler_fid' = None
      /\ UNCHANGED <<lock, cv, state, fun, freed, refcnt, next, op, timed_out, sets, fired,
                     cancelled, called>>
  BY Parts, Members DEF Handled, Inside, Entries, history
<1>2. At(Timer) = "handled" /\ SyncInv' /\ Moves(Timer, "loop")
  BY <1>1, Alone, InsideSync
<1>3. /\ At(Timer)' = "loop" /\ \A c \in Clients : At(c)' = At(c)
      /\ \A g \in Fibrils : g # Timer => At(g)' = At(g)
      /\ \A g \in Fibrils : At(g)' = "set" => At(g) = "set"
  BY <1>2, Members DEF Moves
<1>4. state # "clean"
  BY <1>1, <1>2 DEF TimerInv, HandlerInv
<1>5. HandlerInv'
  BY <1>1, <1>3, <1>4 DEF HandlerInv
<1>6. ClientInv'
  BY <1>1, <1>3, Members DEF TimerInv, ClientInv
<1>7. EndInv'
  BY <1>1, <1>2, <1>3, <1>4, EndKept DEF TimerInv, Ending
<1>8. CalledInv'
  BY <1>1, <1>3 DEF TimerInv, CalledInv
<1>9. SetsAccountedFor' /\ DataType'
  BY <1>1 DEF TimerInv, SetsAccountedFor, DataType
<1>10. ReferencesExact'
  BY <1>1, <1>2, <1>3, RefsSame DEF TimerInv, TimerHolds
<1> QED BY <1>2, <1>5, <1>6, <1>7, <1>8, <1>9, <1>10, Together DEF TimerInv

LEMMA TimerExitStep ==
    ASSUME IInv, TimerExit
    PROVE  IInv'
<1>1. /\ SyncInv /\ DataType /\ TimerInv /\ Timer \in Fibrils
      /\ pc[Timer] = "exit" /\ pc[Timer] \in Inside /\ next \in [Fibrils -> Entries]
      /\ Unlock(Timer, [pc EXCEPT ![Timer] = "done"])
      /\ UNCHANGED <<cv, state, handler_fid, fun, freed, refcnt, next, op, timed_out, sets, fired,
                     cancelled, called>>
  BY Parts, Members DEF TimerExit, Inside, Entries, timer, history, SyncInv
<1>2. At(Timer) = "exit" /\ SyncInv' /\ Moves(Timer, "done")
  BY <1>1, Alone, UnlockSync
<1>3. /\ At(Timer)' = "done" /\ \A c \in Clients : At(c)' = At(c)
      /\ \A g \in Fibrils : g # Timer => At(g)' = At(g)
      /\ \A g \in Fibrils : At(g)' = "set" => At(g) = "set"
  BY <1>2, Members DEF Moves
<1>4. HandlerInv'
  BY <1>1, <1>2, <1>3, Members DEF TimerInv, HandlerInv
<1>5. ClientInv'
  BY <1>1, <1>3, Members DEF TimerInv, ClientInv
<1>6. EndInv'
  <2>1. state = "clean" => cv' = <<>>
    BY <1>1 DEF TimerInv, EndInv
  <2> QED BY <1>1, <1>2, <1>3, <2>1, EndKept DEF TimerInv, Ending
<1>7. CalledInv'
  BY <1>1, <1>2, <1>3 DEF TimerInv, CalledInv
<1>8. SetsAccountedFor' /\ DataType'
  BY <1>1 DEF TimerInv, SetsAccountedFor, DataType
<1>9. ReferencesExact'
  BY <1>1, <1>2, <1>3, RefsSame DEF TimerInv, TimerHolds
<1> QED BY <1>2, <1>4, <1>5, <1>6, <1>7, <1>8, <1>9, Together DEF TimerInv

-----------------------------------------------------------------------------
(* The operations on the timer.                                            *)

\* fibril_timer_set_locked(): the assertion on the state holds, for a client
\* that has cleared the timer and for the handler of a timer that has fired.
LEMMA SetStep ==
    ASSUME IInv, NEW f \in Fibrils, Set(f)
    PROVE  IInv'
<1>1. /\ SyncInv /\ DataType /\ TimerInv /\ pc[f] = "set" /\ pc[f] \in Inside
      /\ UNCHANGED <<lock, handler_fid, freed, next, op, timed_out, fired, cancelled, called>>
      /\ refcnt' = refcnt + (IF f = Timer THEN 0 ELSE 1)
  BY Parts DEF Set, Addref, Inside
<1>2. At(f) = "set" /\ \A g \in Fibrils : g # f => At(g) \notin {"exit", "set", "unlock"}
  BY <1>1, Alone
<1>3. /\ f = Timer => state = "fired" /\ op[Timer] = "set"
      /\ f # Timer => f \in Clients /\ state = "not_set" /\ op[f] # "drop"
      /\ sets < MaxSets
  BY <1>1, <1>2, Members DEF TimerInv, HandlerInv, ClientInv, CalledInv
<1>4. /\ state' = "active" /\ sets' = sets + 1 /\ fun' = sets + 1
      /\ Broadcast([pc EXCEPT ![f] = "unlock"])
  BY <1>3 DEF Set
<1>5. SyncInv' /\ Moves(f, "unlock")
  BY <1>1, <1>4, BroadcastSync
<1>6. At(f)' = "unlock" /\ \A g \in Fibrils : g # f => At(g)' = At(g)
  BY <1>5 DEF Moves
<1>7. /\ sets \in 0..MaxSets /\ MaxSets \in Nat /\ sets + 1 \in 1..MaxSets
      /\ called \in [1..MaxSets -> Nat] /\ refcnt \in Nat
  BY <1>1, <1>3, Members DEF DataType
<1>8. HandlerInv'
  <2>1. CASE f = Timer
    <3>1. At(Timer) = "set" /\ At(Timer)' = "unlock" /\ op'[Timer] = "set"
      BY <1>1, <1>2, <1>3, <1>6, <2>1
    <3>2. handler_fid' = Timer
      BY <1>1, <3>1 DEF TimerInv, HandlerInv
    <3> QED BY <1>4, <3>1, <3>2 DEF HandlerInv
  <2>2. CASE f # Timer
    <3>1. /\ At(Timer)' = At(Timer) /\ state = "not_set"
          /\ At(Timer) \notin {"exit", "set", "unlock"}
      BY <1>2, <1>3, <1>6, <2>2, Members
    <3> QED BY <1>1, <1>4, <3>1 DEF TimerInv, HandlerInv
  <2> QED BY <2>1, <2>2
<1>9. ClientInv'
  BY <1>1, <1>2, <1>3, <1>4, <1>6, Members DEF TimerInv, ClientInv
<1>10. EndInv'
  <2>1. refcnt # 0
    <3>1. CASE f = Timer
      BY <1>1, <1>2, <3>1, Referrers DEF TimerInv, TimerHolds
    <3>2. CASE f # Timer
      BY <1>1, <1>3, <3>2, Referrers DEF TimerInv
    <3> QED BY <3>1, <3>2
  <2> QED BY <1>1, <1>2, <1>3, <1>4, <1>6, <2>1, Members, EndKept DEF TimerInv, Ending
<1>11. CalledInv'
  <2>1. \A g \in Fibrils : At(g)' # "set"
    BY <1>2, <1>6
  <2>2. called[sets + 1] = 0 /\ sets + 1 > sets /\ sets + 1 > 0
    BY <1>1, <1>7 DEF TimerInv, CalledInv
  <2>3. \A n \in 1..MaxSets : called[n] <= 1 /\ (n > sets + 1 => called[n] = 0)
    BY <1>1, <1>7 DEF TimerInv, CalledInv
  <2> QED BY <1>1, <1>4, <2>1, <2>2, <2>3 DEF CalledInv
<1>12. SetsAccountedFor'
  BY <1>1, <1>3, <1>4 DEF TimerInv, SetsAccountedFor, DataType
<1>13. DataType'
  BY <1>1, <1>4, <1>7 DEF DataType
<1>14. ReferencesExact'
  <2>1. TimerHolds' /\ (TimerHolds <=> f = Timer)
    BY <1>1, <1>2, <1>3, <1>4, <1>6, Members DEF TimerInv, HandlerInv, TimerHolds
  <2>2. Cardinality(Holders)' = Cardinality(Holders) /\ Cardinality(Holders) \in Nat
    BY <1>1, Referrers DEF TimerInv, Holders
  <2> QED BY <1>1, <2>1, <2>2 DEF TimerInv, ReferencesExact
<1> QED BY <1>5, <1>8, <1>9, <1>10, <1>11, <1>12, <1>13, <1>14, Together DEF TimerInv

\* fibril_mutex_unlock() at the end of an operation or of the handler.
LEMMA ReleaseStep ==
    ASSUME IInv, NEW f \in Fibrils, Release(f)
    PROVE  IInv'
<1>1. /\ SyncInv /\ DataType /\ TimerInv /\ pc[f] = "unlock" /\ pc[f] \in Inside
      /\ UNCHANGED <<cv, state, handler_fid, fun, freed, refcnt, op, timed_out, sets, fired, cancelled, called>>
      /\ Unlock(f, [pc EXCEPT ![f] = AfterUnlock(f)])
      /\ next' = [next EXCEPT ![f] = IF f = Timer THEN "handled" ELSE @]
      /\ next \in [Fibrils -> Entries]
  BY Parts DEF Release, Inside, timer, history, SyncInv
<1>2. At(f) = "unlock" /\ \A g \in Fibrils : g # f => At(g) \notin {"exit", "set", "unlock"}
  BY <1>1, Alone
<1>3. /\ next' \in [Fibrils -> Entries] /\ \A g \in Fibrils : g # f => next'[g] = next[g]
      /\ f = Timer => next'[f] = "handled"
  BY <1>1 DEF Entries
<1>4. /\ f # Timer => f \in Clients /\ op[f] # "drop"
      /\ f = Timer => \/ op[f] = "set" /\ state = "active"
                      \/ op[f] = "drop" /\ state = "fired"
  BY <1>1, <1>2, Members DEF TimerInv, HandlerInv, ClientInv
<1>5. PICK x \in {"idle", "handled", "delref"} :
         /\ SyncInv' /\ Moves(f, x)
         /\ x = IF f # Timer THEN "idle" ELSE IF op[f] = "set" THEN "handled" ELSE "delref"
  <2>1. CASE f # Timer
    BY <1>1, <1>3, <2>1, UnlockSync DEF AfterUnlock
  <2>2. CASE f = Timer /\ op[f] = "set"
    BY <1>1, <1>3, <2>2, UnlockSync DEF AfterUnlock
  <2>3. CASE f = Timer /\ op[f] # "set"
    BY <1>1, <1>3, <2>3, UnlockSync DEF AfterUnlock
  <2> QED BY <2>1, <2>2, <2>3
<1>6. /\ At(f)' = x /\ \A g \in Fibrils : g # f => At(g)' = At(g)
      /\ \A g \in Fibrils : At(g)' # "set"
  BY <1>2, <1>5 DEF Moves
<1>7. HandlerInv'
  BY <1>1, <1>2, <1>4, <1>5, <1>6, Members DEF TimerInv, HandlerInv
<1>8. ClientInv'
  BY <1>1, <1>4, <1>5, <1>6, Members DEF TimerInv, ClientInv
<1>9. EndInv'
  <2>1. state = "clean" => cv' = <<>>
    BY <1>1 DEF TimerInv, EndInv
  <2>2. At(f) \notin Ending /\ At(f)' \notin Ending /\ (At(Timer) = "done" => At(Timer)' = "done")
    BY <1>2, <1>5, <1>6, Members DEF Ending
  <2> QED BY <1>1, <1>6, <2>1, <2>2, EndKept DEF TimerInv
<1>10. CalledInv'
  BY <1>1, <1>2, <1>5, <1>6, Members DEF TimerInv, CalledInv
<1>11. SetsAccountedFor' /\ DataType'
  BY <1>1 DEF TimerInv, SetsAccountedFor, DataType
<1>12. ReferencesExact'
  <2>1. TimerHolds' <=> TimerHolds
    BY <1>1, <1>2, <1>4, <1>5, <1>6, Members DEF TimerHolds
  <2> QED BY <1>1, <2>1, RefsSame DEF TimerInv
<1> QED BY <1>5, <1>7, <1>8, <1>9, <1>10, <1>11, <1>12, Together DEF TimerInv

LEMMA BeginStep ==
    ASSUME IInv, NEW c \in Clients, NEW o \in {"set", "clear"}, Begin(c, o)
    PROVE  IInv'
<1>1. /\ SyncInv /\ DataType /\ TimerInv /\ pc[c] = "idle" /\ c \in Fibrils
      /\ UNCHANGED <<lock, cv, state, handler_fid, fun, freed, refcnt, timed_out, sets, fired, cancelled, called>>
      /\ op' = [op EXCEPT ![c] = o] /\ pc' = [pc EXCEPT ![c] = "lock"]
      /\ next' = [next EXCEPT ![c] = "clear"] /\ next \in [Fibrils -> Entries]
  BY Parts, Members DEF Begin, timer, history, SyncInv
<1>2. /\ next' \in [Fibrils -> Entries] /\ \A g \in Fibrils : g # c => next'[g] = next[g]
      /\ next'[c] = "clear"
  BY <1>1 DEF Entries
<1>3. SyncInv' /\ Moves(c, "clear")
  BY <1>1, <1>2, OutsideSync
<1>4. /\ At(c) = "idle" /\ At(c)' = "clear" /\ \A g \in Fibrils : g # c => At(g)' = At(g)
      /\ At(Timer)' = At(Timer)
  BY <1>1, <1>3, Members DEF Moves, At
<1>5. /\ op[c] # "drop" /\ op'[c] = o /\ op'[Timer] = op[Timer]
      /\ \A d \in Clients : d # c => op'[d] = op[d]
  BY <1>1, <1>4, Members DEF DataType, TimerInv, ClientInv
<1>6. HandlerInv'
  BY <1>1, <1>4, <1>5 DEF TimerInv, HandlerInv
<1>7. ClientInv'
  BY <1>1, <1>4, <1>5, Members DEF TimerInv, ClientInv
<1>8. EndInv'
  <2>1. state = "clean" => cv' = <<>>
    BY <1>1 DEF TimerInv, EndInv
  <2> QED BY <1>1, <1>4, <2>1, EndKept DEF TimerInv, Ending
<1>9. CalledInv'
  BY <1>1, <1>4, Members DEF TimerInv, CalledInv
<1>10. SetsAccountedFor' /\ DataType'
  BY <1>1 DEF TimerInv, SetsAccountedFor, DataType
<1>11. ReferencesExact'
  <2>1. Holders' = Holders /\ (TimerHolds' <=> TimerHolds)
    BY <1>1, <1>4, <1>5 DEF Holders, TimerHolds
  <2>2. Cardinality(Holders)' = Cardinality(Holders)
    BY <2>1
  <2> QED BY <1>1, <2>1, <2>2 DEF TimerInv, ReferencesExact
<1> QED BY <1>3, <1>6, <1>7, <1>8, <1>9, <1>10, <1>11, Together DEF TimerInv

\* tcp_conn_delref(): with the last reference f begins to destroy the timer, and
\* nobody else does; the timer is not active.
LEMMA DelrefStep ==
    ASSUME IInv, NEW f \in Fibrils, Delref(f), pc[f] \in {"idle", "delref"},
           UNCHANGED <<lock, cv, timer, timed_out, history>>,
           \/ f = Timer /\ pc[f] = "delref" /\ UNCHANGED op
           \/ f \in Clients /\ pc[f] = "idle" /\ op' = [op EXCEPT ![f] = "drop"]
    PROVE  IInv'
<1>1. /\ SyncInv /\ DataType /\ TimerInv /\ next \in [Fibrils -> Entries] /\ At(f) = pc[f]
      /\ UNCHANGED <<state, handler_fid, fun, freed, timed_out, sets, fired, cancelled, called>>
      /\ refcnt' = refcnt - 1 /\ refcnt \in Nat
  BY Parts DEF SyncInv, At, timer, history, Delref, DataType
<1>2. /\ f = Timer => TimerHolds /\ state = "fired"
      /\ f # Timer => op[f] # "drop" /\ op'[f] = "drop"
      /\ op'[Timer] = op[Timer] /\ \A d \in Clients : d # f => op'[d] = op[d]
  BY <1>1, Members DEF TimerInv, HandlerInv, ClientInv, TimerHolds, DataType
<1>3. refcnt > 0 /\ refcnt' \in Nat
  BY <1>1, <1>2, Members, Referrers DEF TimerInv
<1>4. PICK x \in {"destroy", "handled", "done"} :
         /\ SyncInv' /\ Moves(f, x)
         /\ x = IF refcnt' = 0 THEN "destroy" ELSE IF f = Timer THEN "handled" ELSE "done"
  <2>1. CASE refcnt = 1
    <3>1. pc' = [pc EXCEPT ![f] = "lock"] /\ next' = [next EXCEPT ![f] = "destroy"]
      BY <2>1 DEF Delref
    <3>2. /\ next' \in [Fibrils -> Entries] /\ \A g \in Fibrils : g # f => next'[g] = next[g]
          /\ next'[f] = "destroy"
      BY <1>1, <3>1 DEF Entries
    <3>3. SyncInv' /\ Moves(f, "destroy")
      BY <1>1, <3>1, <3>2, OutsideSync
    <3> QED BY <1>1, <2>1, <3>3
  <2>2. CASE refcnt # 1 /\ f = Timer
    <3>1. pc' = [pc EXCEPT ![f] = "lock"] /\ next' = [next EXCEPT ![f] = "handled"]
      BY <2>2 DEF Delref, Left
    <3>2. /\ next' \in [Fibrils -> Entries] /\ \A g \in Fibrils : g # f => next'[g] = next[g]
          /\ next'[f] = "handled"
      BY <1>1, <3>1 DEF Entries
    <3>3. SyncInv' /\ Moves(f, "handled")
      BY <1>1, <3>1, <3>2, OutsideSync
    <3> QED BY <1>1, <2>2, <3>3
  <2>3. CASE refcnt # 1 /\ f # Timer
    <3>1. pc' = [pc EXCEPT ![f] = "done"] /\ next' = [next EXCEPT ![f] = @]
      BY <2>3 DEF Delref, Left
    <3>2. /\ next' \in [Fibrils -> Entries] /\ \A g \in Fibrils : g # f => next'[g] = next[g]
      BY <1>1, <3>1
    <3>3. SyncInv' /\ Moves(f, "done")
      BY <1>1, <3>1, <3>2, OutsideSync
    <3> QED BY <1>1, <2>3, <3>3
  <2> QED BY <2>1, <2>2, <2>3
<1>5. /\ At(f)' = x /\ \A g \in Fibrils : g # f => At(g)' = At(g)
      /\ \A g \in Fibrils : At(g)' = "set" => At(g) = "set"
  BY <1>4 DEF Moves
<1>6. /\ state \notin {"cleanup", "clean"} /\ ~freed
      /\ \A g \in Fibrils : At(g) \notin Ending
  BY <1>1, <1>3 DEF TimerInv, EndInv, HandlerInv
<1>7. HandlerInv'
  BY <1>1, <1>2, <1>4, <1>5, <1>6, Members DEF TimerInv, HandlerInv
<1>8. ClientInv'
  BY <1>1, <1>2, <1>4, <1>5, Members DEF TimerInv, ClientInv
<1>9. EndInv'
  <2>1. \A g \in Fibrils : At(g)' \in Ending => g = f /\ x = "destroy"
    BY <1>4, <1>5, <1>6 DEF Ending
  <2> QED BY <1>1, <1>4, <1>5, <1>6, <2>1 DEF EndInv, Ending
<1>10. CalledInv'
  BY <1>1, <1>4, <1>5, Members DEF TimerInv, CalledInv
<1>11. SetsAccountedFor' /\ DataType'
  BY <1>1, <1>3, Members DEF TimerInv, SetsAccountedFor, DataType
<1>12. ReferencesExact'
  <2>1. CASE f = Timer
    <3>1. ~TimerHolds' /\ TimerHolds
      BY <1>1, <1>2, <1>4, <1>5, <2>1 DEF TimerHolds
    <3>2. Holders' = Holders
      BY <1>2, <2>1, Members DEF Holders
    <3>3. Cardinality(Holders)' = Cardinality(Holders) /\ Cardinality(Holders) \in Nat
      BY <1>1, <3>2, Referrers DEF TimerInv
    <3> QED BY <1>1, <3>1, <3>3 DEF TimerInv, ReferencesExact
  <2>2. CASE f # Timer
    <3>1. f \in Clients /\ (TimerHolds' <=> TimerHolds)
      BY <1>1, <1>2, <1>5, <2>2, Members DEF TimerHolds
    <3>2. f \in Holders /\ Holders' = Holders \ {f}
      BY <1>2, <2>2, <3>1 DEF Holders
    <3>3. Cardinality(Holders)' = Cardinality(Holders) - 1 /\ Cardinality(Holders) \in Nat
      BY <1>1, <3>2, Referrers, FS_RemoveElement DEF TimerInv
    <3> QED BY <1>1, <3>1, <3>3 DEF TimerInv, ReferencesExact
  <2> QED BY <2>1, <2>2
<1> QED BY <1>4, <1>7, <1>8, <1>9, <1>10, <1>11, <1>12, Together DEF TimerInv

\* fibril_timer_clear_locked() after the wait: no handler runs.
LEMMA ClearStep ==
    ASSUME IInv, NEW c \in Clients, Clear(c)
    PROVE  IInv'
<1>1. /\ SyncInv /\ DataType /\ TimerInv /\ c \in Fibrils /\ pc[c] = "clear" /\ pc[c] \in Inside
      /\ handler_fid = None /\ state' = "not_set" /\ fun' = 0
      /\ cancelled' = cancelled + (IF state = "active" THEN 1 ELSE 0)
      /\ refcnt' = refcnt - (IF state = "active" THEN 1 ELSE 0)
      /\ UNCHANGED <<lock, handler_fid, freed, next, op, timed_out, sets, fired, called>>
  BY Parts, Members DEF Clear, HandlerRuns, Inside, Entries
<1>2. PICK x \in {"set", "unlock"} :
         /\ x = "set" <=> op[c] = "set" /\ sets < MaxSets
         /\ Broadcast([pc EXCEPT ![c] = x])
  BY DEF Clear
<1>3. At(c) = "clear" /\ \A g \in Fibrils : g # c => At(g) \notin {"exit", "set", "unlock"}
  BY <1>1, Alone
<1>4. SyncInv' /\ Moves(c, x)
  BY <1>1, <1>2, BroadcastSync
<1>5. /\ At(c)' = x /\ \A g \in Fibrils : g # c => At(g)' = At(g)
      /\ At(Timer)' = At(Timer)
  BY <1>4, Members DEF Moves
<1>6. op[c] # "drop" /\ refcnt # 0
  BY <1>1, <1>3, Referrers DEF TimerInv, ClientInv
<1>7. state \notin {"cleanup", "clean"}
  BY <1>1, <1>6 DEF TimerInv, EndInv
<1>8. At(Timer) \in {"loop", "waited"} /\ HandlerInv'
  BY <1>1, <1>5, <1>7, Members DEF TimerInv, HandlerInv
<1>9. ClientInv'
  BY <1>1, <1>5, <1>6, Members DEF TimerInv, ClientInv
<1>10. EndInv'
  BY <1>1, <1>3, <1>5, <1>6, <1>7, EndKept DEF TimerInv, Ending
<1>11. CalledInv'
  <2>1. \A g \in Fibrils : At(g)' = "set" => sets < MaxSets
    BY <1>2, <1>3, <1>5
  <2>2. sets >= 0
    BY <1>1, Members DEF DataType
  <2> QED BY <1>1, <1>5, <1>8, <2>1, <2>2 DEF TimerInv, CalledInv
<1>12. SetsAccountedFor'
  BY <1>1 DEF TimerInv, SetsAccountedFor, DataType
<1>13. ReferencesExact'
  <2>1. ~TimerHolds' /\ (TimerHolds <=> state = "active")
    BY <1>1, <1>5, <1>8 DEF TimerHolds
  <2>2. Cardinality(Holders)' = Cardinality(Holders) /\ Cardinality(Holders) \in Nat
    BY <1>1, Referrers DEF TimerInv, Holders
  <2> QED BY <1>1, <2>1, <2>2 DEF TimerInv, ReferencesExact
<1>14. DataType'
  BY <1>1, <1>6, Members DEF DataType
<1> QED BY <1>4, <1>8, <1>9, <1>10, <1>11, <1>12, <1>13, <1>14, Together DEF TimerInv

\* fibril_timer_destroy(): the assertion on the state holds.
LEMMA DestroyStep ==
    ASSUME IInv, NEW f \in Fibrils, Destroy(f)
    PROVE  IInv'
<1>1. /\ SyncInv /\ DataType /\ TimerInv /\ pc[f] = "destroy" /\ pc[f] \in Inside
      /\ UNCHANGED <<lock, handler_fid, fun, freed, refcnt, next, op, timed_out, sets, fired, cancelled, called>>
  BY Parts DEF Destroy, Inside, Entries, history
<1>2. At(f) = "destroy"
  BY <1>1, Alone
<1>3. /\ refcnt = 0 /\ ~freed /\ \A g \in Fibrils : At(g) \in Ending => g = f
      /\ ~TimerHolds /\ state \in {"not_set", "fired"}
  BY <1>1, <1>2, Referrers DEF TimerInv, EndInv, Ending, TimerHolds, DataType
<1>4. state' = "cleanup" /\ Broadcast([pc EXCEPT ![f] = "waitclean"])
  BY <1>3 DEF Destroy
<1>5. SyncInv' /\ Moves(f, "waitclean")
  BY <1>1, <1>4, BroadcastSync
<1>6. At(f)' = "waitclean" /\ \A g \in Fibrils : g # f => At(g)' = At(g)
  BY <1>5 DEF Moves
<1>7. HandlerInv'
  <2>1. At(Timer) \notin {"call", "handler", "set", "delref", "unlock"}
    BY <1>1, <1>2, <1>3, Alone, Members DEF TimerHolds
  <2>2. At(Timer)' = IF f = Timer THEN "waitclean" ELSE At(Timer)
    BY <1>6, Members
  <2>3. At(Timer)' # "destroy" /\ (At(Timer)' = At(Timer) \/ At(Timer) = "destroy")
    BY <1>2, <1>3, <2>2, Members DEF Ending
  <2> QED BY <1>1, <1>3, <1>4, <2>1, <2>2, <2>3, Members DEF TimerInv, HandlerInv
<1>8. ClientInv'
  <2>1. \A c \in Clients : op[c] = "drop" /\ At(c) # "set"
    BY <1>1, <1>3, Referrers DEF TimerInv, ClientInv
  <2> QED BY <1>1, <1>6, <2>1, Members DEF TimerInv, ClientInv
<1>9. EndInv'
  <2>1. \A g \in Fibrils : At(g)' \in Ending => g = f /\ At(g)' = "waitclean"
    BY <1>3, <1>6
  <2>2. refcnt' = 0 /\ ~freed' /\ state' = "cleanup" /\ At(f)' = "waitclean"
    BY <1>1, <1>3, <1>4, <1>6
  <2>3. \A g \in Fibrils : At(g)' \notin {"destroy", "free"}
    BY <2>1 DEF Ending
  <2> QED BY <2>1, <2>2, <2>3 DEF EndInv
<1>10. CalledInv'
  <2>1. /\ \A g \in Fibrils : At(g)' = "set" => At(g) = "set"
        /\ At(Timer)' = "call" => At(Timer) = "call"
    BY <1>6, Members
  <2> QED BY <1>1, <1>4, <2>1 DEF TimerInv, CalledInv
<1>11. SetsAccountedFor' /\ DataType'
  BY <1>1, <1>3, <1>4 DEF TimerInv, SetsAccountedFor, DataType
<1>12. ReferencesExact'
  <2>1. ~TimerHolds'
    BY <1>1, <1>3, <1>4, <1>6, Members DEF TimerHolds
  <2> QED BY <1>1, <1>3, <2>1, RefsSame DEF TimerInv
<1> QED BY <1>5, <1>7, <1>8, <1>9, <1>10, <1>11, <1>12, Together DEF TimerInv

\* fts_clean, seen with the lock: the timer fibril has left it for good, and it
\* is a client that sees it.
LEMMA DestroyEndStep ==
    ASSUME IInv, NEW f \in Fibrils, DestroyEnd(f) \/ Free(f)
    PROVE  IInv'
<1>1. /\ SyncInv /\ DataType /\ TimerInv /\ next \in [Fibrils -> Entries]
      /\ UNCHANGED <<cv, state, handler_fid, fun, refcnt, op, timed_out, sets, fired, cancelled, called>>
  BY Parts DEF DestroyEnd, Free, SyncInv, history, timer
<1>2. ASSUME NEW x \in {"free", "done"}, SyncInv', Moves(f, x), At(f) \in {"waitclean", "free"},
             state = "clean", At(Timer) = "done", freed' = (x = "done")
      PROVE  IInv'
  <2>1. /\ At(f)' = x /\ \A g \in Fibrils : g # f => At(g)' = At(g)
        /\ f # Timer /\ f \in Clients /\ At(Timer)' = At(Timer)
    BY <1>2, Members DEF Moves
  <2>2. refcnt = 0 /\ \A g \in Fibrils : At(g) \in Ending => g = f
    BY <1>1, <1>2 DEF TimerInv, EndInv, Ending
  <2>3. op[f] = "drop"
    BY <1>1, <2>1, <2>2, Referrers DEF TimerInv
  <2>4. HandlerInv'
    BY <1>1, <2>1, Members DEF TimerInv, HandlerInv
  <2>5. ClientInv'
    BY <1>1, <2>1, <2>3, Members DEF TimerInv, ClientInv
  <2>6. EndInv'
    <3>1. \A g \in Fibrils : At(g)' \in Ending => g = f /\ x = "free"
      BY <2>1, <2>2 DEF Ending
    <3>2. cv' = <<>>
      BY <1>1, <1>2 DEF TimerInv, EndInv
    <3> QED BY <1>1, <1>2, <2>1, <2>2, <3>1, <3>2 DEF EndInv, Ending
  <2>7. CalledInv'
    BY <1>1, <2>1 DEF TimerInv, CalledInv
  <2>8. SetsAccountedFor' /\ DataType'
    BY <1>1, <1>2 DEF TimerInv, SetsAccountedFor, DataType
  <2>9. ReferencesExact'
    BY <1>1, <2>1, Members, RefsSame DEF TimerInv, TimerHolds
  <2> QED BY <1>2, <2>4, <2>5, <2>6, <2>7, <2>8, <2>9, Together DEF TimerInv
<1>3. CASE DestroyEnd(f)
  <2>1. /\ pc[f] = "waitclean" /\ pc[f] \in Inside /\ state = "clean" /\ UNCHANGED <<freed, next>>
        /\ Unlock(f, [pc EXCEPT ![f] = "free"])
    BY <1>3 DEF DestroyEnd, Inside, Entries, timer
  <2>2. SyncInv' /\ Moves(f, "free")
    BY <1>1, <2>1, UnlockSync
  <2>3. At(f) = "waitclean" /\ (f # Timer => At(Timer) # "exit")
    BY <1>1, <2>1, Alone, Members
  <2>4. At(Timer) = "done" /\ ~freed
    BY <1>1, <2>1, <2>3 DEF TimerInv, HandlerInv, EndInv, Ending
  <2>5. freed' = ("free" = "done")
    BY <1>1, <2>1, <2>4 DEF DataType
  <2> QED BY <1>2, <2>1, <2>2, <2>3, <2>4, <2>5
<1>4. CASE Free(f)
  <2>1. pc[f] = "free" /\ At(f) = "free" /\ UNCHANGED lock /\ freed' = TRUE
    BY <1>4 DEF Free, At
  <2>2. state = "clean" /\ At(Timer) = "done" /\ f # Timer
    BY <1>1, <2>1 DEF TimerInv, EndInv
  <2>3. /\ pc' = [pc EXCEPT ![f] = "done"] /\ next' \in [Fibrils -> Entries]
        /\ \A g \in Fibrils : g # f => next'[g] = next[g]
    BY <1>1, <1>4, <2>2 DEF Free, Left
  <2>4. SyncInv' /\ Moves(f, "done")
    BY <1>1, <2>1, <2>3, OutsideSync
  <2> QED BY <1>2, <2>1, <2>2, <2>4
<1> QED BY <1>3, <1>4

-----------------------------------------------------------------------------
(* The theorems.                                                           *)

LEMMA InitIInv == Init => IInv
<1> SUFFICES ASSUME Init PROVE IInv
  OBVIOUS
<1> USE DEF Init
<1>1. Timer \in Fibrils /\ None \notin Fibrils /\ Clients \subseteq Fibrils /\ Timer \notin Clients
      /\ MaxSets \in Nat /\ Cardinality(Fibrils) \in Nat /\ Cardinality(Fibrils) > 0
      /\ Cardinality(Clients) \in Nat
  BY FibrilsFinite, Members, TimerAssumption, FS_CardinalityType, FS_EmptySet
<1>2. /\ \A f \in Fibrils : pc[f] \in {"idle", "lock"} /\ next[f] = "loop"
      /\ \A c \in Clients : pc[c] = "idle" /\ op[c] = "none"
      /\ pc[Timer] = "lock"
  BY <1>1
<1>3. /\ \A c \in Clients : At(c) = "idle" 
      /\ At(Timer) = "loop" /\ \A f \in Fibrils : At(f) \in {"idle", "loop"}
  BY <1>1, <1>2 DEF At
<1>4. ToSet(<<>>) = {} /\ IsInjective(<<>>) /\ <<>> \in Seq(Fibrils) /\ Len(<<>>) = 0
  BY EmptySeq DEF ToSet, IsInjective
<1>5. TypeOK
  <2>1. pc \in [Fibrils -> Inside \cup Outside] /\ next \in [Fibrils -> Entries]
    BY DEF Inside, Outside, Entries
  <2>2. counter \in 1 - Cardinality(Fibrils) .. 1
    BY <1>1
  <2>3. called \in [1..MaxSets -> Nat] /\ fun \in 0..MaxSets /\ sets \in 0..MaxSets
    BY <1>1
  <2>4. timed_out \in [Fibrils -> BOOLEAN]
    OBVIOUS
  <2> QED BY <1>1, <1>4, <2>1, <2>2, <2>3, <2>4 DEF TypeOK
<1>6. MutexInv
  BY <1>1, <1>2, <1>4 DEF MutexInv, Inside, Entries
<1>7. CvInv
  BY <1>2, <1>4 DEF CvInv
<1>8. HandlerInv
  BY <1>3 DEF HandlerInv
<1>9. ClientInv
  BY <1>2, <1>3 DEF ClientInv
<1>10. EndInv
  BY <1>3 DEF EndInv, Ending
<1>11. CalledInv
  BY <1>1, <1>3 DEF CalledInv
<1>12. SetsAccountedFor
  BY DEF SetsAccountedFor
<1>13. ReferencesExact
  <2>1. Holders = Clients /\ ~TimerHolds
    BY <1>2, <1>3 DEF Holders, TimerHolds
  <2> QED BY <1>1, <2>1 DEF ReferencesExact
<1> QED BY <1>5, <1>6, <1>7, <1>8, <1>9, <1>10, <1>11, <1>12, <1>13 DEF IInv

LEMMA StepIInv == IInv /\ [Next]_vars => IInv'
<1> SUFFICES ASSUME IInv, [Next]_vars PROVE IInv'
  OBVIOUS
<1>1. CASE UNCHANGED vars
  <2>1. /\ UNCHANGED <<counter, owned_by, waiters, cv, state, handler_fid, fun, freed, pc, next>>
        /\ UNCHANGED <<refcnt, op, timed_out, sets, fired, cancelled, called>>
    BY <1>1 DEF vars, lock, timer, history
  <2>2. \A f \in Fibrils : At(f)' = At(f)
    BY <2>1 DEF At
  <2>3. SyncInv'
    BY <2>1, Parts DEF SyncInv, MutexInv, CvInv
  <2>4. DataType'
    BY <2>1, Parts DEF DataType
  <2>5. TimerInv'
    BY <2>1, <2>2, Parts, Quiet DEF timer, history, TimerInv, EndInv
  <2> QED BY <2>3, <2>4, <2>5, Together
<1>2. CASE Timeout \/ TimerStep
  <2>1. CASE HandlerDelref
    BY <2>1, Members, DelrefStep DEF HandlerDelref
  <2> QED BY <1>2, <2>1, TimeoutStep, TimerLoopStep, WaitedStep, CallHandlerStep, HandlerStep,
             HandledStep, TimerExitStep DEF TimerStep
<1>3. CASE \E f \in Fibrils : FibrilStep(f)
  BY <1>3, LockStep, WokenStep, SetStep, ReleaseStep, DestroyStep, WaitStep, DestroyEndStep
     DEF FibrilStep
<1>4. CASE \E c \in Clients : ClientStep(c)
  BY <1>4, Members, WaitStep, ClearStep DEF ClientStep
<1>5. CASE \E c \in Clients, o \in {"set", "clear"} : Begin(c, o)
  BY <1>5, BeginStep
<1>6. CASE \E c \in Clients : Drop(c)
  BY <1>6, Members, DelrefStep DEF Drop
<1> QED BY <1>1, <1>2, <1>3, <1>4, <1>5, <1>6 DEF Next

\* The inductive invariant of the timer holds for any number of clients.
THEOREM Invariance == Spec => []IInv
BY InitIInv, StepIInv, PTL DEF Spec

\* Type correctness; the counter of the mutex counts each fibril at most once.
THEOREM TypeCorrect == Spec => []TypeOK
<1>1. IInv => TypeOK
  BY DEF IInv
<1> QED BY Invariance, <1>1, PTL

\* No assertion of the mutex and the timer fails: whoever is in a critical
\* section owns the mutex, nobody waits for itself, and the timer is not set or
\* destroyed while it is active, although a destroy is not preceded by a clear.
THEOREM NoAssertionFails == Spec => []AssertionsHold
<1>1. IInv => AssertionsHold
  <2> SUFFICES ASSUME IInv, NEW f \in Fibrils
               PROVE  pc[f] # "abort" /\ (pc[f] \in Inside => owned_by = f)
    BY DEF AssertionsHold
  <2>1. pc[f] \in Inside => owned_by = f
    BY DEF IInv, MutexInv
  <2>2. At(f) # "abort"
    BY Members DEF IInv, HandlerInv, ClientInv
  <2> QED BY <2>1, <2>2 DEF At
<1> QED BY Invariance, <1>1, PTL

\* Every set has fired, or was reported active by exactly one clear, or is
\* pending: fibril_timer_clear() tells its caller the truth.
THEOREM ClearTellsTheTruth == Spec => []SetsAccountedFor
<1>1. IInv => SetsAccountedFor
  BY DEF IInv
<1> QED BY Invariance, <1>1, PTL

\* The reference count of the connection is exact, so that the connection is
\* neither freed while a client or the timer uses it nor kept for nobody.
THEOREM CountedReferences == Spec => []ReferencesExact
<1>1. IInv => ReferencesExact
  BY DEF IInv
<1> QED BY Invariance, <1>1, PTL

\* After a clear the handler does not run until the next set, no function is
\* called twice for one set, and the timer is not used after it was freed.
THEOREM Quiescence == Spec => []TimerQuiescent
<1>1. IInv => TimerQuiescent
  <2> SUFFICES ASSUME IInv PROVE TimerQuiescent
    OBVIOUS
  <2>1. SyncInv /\ TimerInv /\ DataType
    BY Parts
  <2>2. state = "not_set" => At(Timer) \notin {"call", "handler"}
    BY <2>1, Members DEF TimerInv, HandlerInv
  <2>3. pc[Timer] \in {"call", "handler"} => At(Timer) = pc[Timer]
    BY DEF At
  <2>4. freed => pc[Timer] = "done" /\ cv = <<>>
    <3>1. At(Timer) = "done" => pc[Timer] = "done"
      BY <2>1, Members DEF At, SyncInv, Entries
    <3> QED BY <2>1, <3>1 DEF TimerInv, EndInv, HandlerInv
  <2>5. \A n \in DOMAIN called : called[n] <= 1
    BY <2>1 DEF TimerInv, CalledInv, DataType
  <2>6. state = "not_set" => handler_fid = None
    <3>1. state = "not_set" => At(Timer) \in {"loop", "waited"}
      BY <2>1, Members DEF TimerInv, HandlerInv, EndInv
    <3> QED BY <2>1, <3>1 DEF TimerInv, HandlerInv
  <2> QED BY <2>2, <2>3, <2>4, <2>5, <2>6 DEF TimerQuiescent
<1> QED BY Invariance, <1>1, PTL
=============================================================================
