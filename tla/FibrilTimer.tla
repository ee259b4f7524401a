----------------------------- MODULE FibrilTimer -----------------------------
(***************************************************************************)
(* A fibril timer, with the fibril mutex and the condition variable it is  *)
(* built from (uspace/lib/c/generic/thread/fibril_synch.c).                *)
(*                                                                         *)
(* One timer, its timer fibril, and the client fibrils that set, clear and *)
(* destroy it through the common lock *lockp.  Every section under         *)
(* fibril_synch_futex is one step.  A fibril that is notified is runnable  *)
(* at once; a fibril whose timed wait has expired is runnable but still    *)
(* linked in the condition variable, until it takes the futex again.       *)
(*                                                                         *)
(* The timer belongs to a TCP connection and *lockp is conn->lock: a set   *)
(* is preceded by a clear in the same critical section and takes a         *)
(* reference to the connection; the handler takes the lock and sets the    *)
(* timer again, or drops that reference.  Whoever drops the last reference *)
(* destroys the timer, without a clear: a client, or the handler itself.   *)
(***************************************************************************)
EXTENDS Integers, Sequences, FiniteSets, SequencesExt

CONSTANTS
    Clients,     \* fibrils that hold a reference to the connection
    Timer,       \* the timer fibril, running fibril_timer_func()
    None,
    MaxSets      \* bound on the number of times the timer is set

ASSUME TimerAssumption ==
    /\ Timer \notin Clients
    /\ None \notin Clients \cup {Timer}
    /\ IsFiniteSet(Clients)
    /\ MaxSets \in Nat

Fibrils == Clients \cup {Timer}

VARIABLES
    counter,      \* fm->counter
    owned_by,     \* fm->oi.owned_by
    waiters,      \* fm->waiters, FIFO
    cv,           \* timer->cv.waiters, FIFO
    state,        \* timer->state
    handler_fid,  \* timer->handler_fid
    fun,          \* timer->fun: the number of the set it comes from, 0 for NULL
    freed,        \* free(timer) has been called
    refcnt,       \* conn->refcnt
    pc,           \* where a fibril is
    next,         \* where it goes once it has the lock
    op,           \* what a client, or the handler, is doing
    timed_out,    \* result of the last fibril_condvar_wait_timeout()
    sets,         \* history: calls of fibril_timer_set_locked()
    fired,        \* history: transitions to fts_fired
    cancelled,    \* history: clears that returned fts_active
    called        \* history: how often the function of each set was called

lock == <<counter, owned_by, waiters>>
timer == <<state, handler_fid, fun, freed>>
history == <<sets, fired, cancelled, called>>
vars == <<lock, cv, timer, refcnt, pc, next, op, timed_out, history>>

\* fibril_timer_create(): the timer fibril is ready, about to lock *lockp.
\* The user, the connection map, the state (unless it is closed) and everybody
\* who has found the connection hold a reference: these are the clients.
Init ==
    /\ counter = 1 /\ owned_by = None /\ waiters = <<>>
    /\ cv = <<>>
    /\ state = "not_set" /\ handler_fid = None /\ fun = 0 /\ freed = FALSE
    /\ refcnt = Cardinality(Clients)
    /\ pc = [f \in Fibrils |-> IF f = Timer THEN "lock" ELSE "idle"]
    /\ next = [f \in Fibrils |-> "loop"]
    /\ op = [f \in Fibrils |-> "none"]
    /\ timed_out = [f \in Fibrils |-> FALSE]
    /\ sets = 0 /\ fired = 0 /\ cancelled = 0
    /\ called = [n \in 1..MaxSets |-> 0]

-----------------------------------------------------------------------------
(* fibril_mutex_t and fibril_condvar_t.                                    *)

\* Mutant: the waiter is woken, but the lock is not made its own.
UnlockNoHandOver(f, pcs) ==
    /\ counter' = counter + 1
    /\ owned_by' = None
    /\ IF counter < 0
         THEN /\ waiters' = Tail(waiters)
              /\ pc' = [pcs EXCEPT ![Head(waiters)] = next[Head(waiters)]]
         ELSE UNCHANGED waiters /\ pc' = pcs

\* _fibril_mutex_unlock_unsafe(): the lock goes straight to the first waiter.
\* pcs are the program counters the rest of the step leaves behind.
Unlock(f, pcs) ==
    /\ counter' = counter + 1
    /\ IF counter < 0
         THEN LET g == Head(waiters)
              IN  /\ owned_by' = g
                  /\ waiters' = Tail(waiters)
                  /\ pc' = [pcs EXCEPT ![g] = next[g]]
         ELSE /\ owned_by' = None
              /\ UNCHANGED waiters
              /\ pc' = pcs

\* Mutant: the slow path counts the fibril a second time.
LockCountsTwice(f) ==
    /\ pc[f] = "lock"
    /\ IF counter > 0
         THEN /\ counter' = counter - 1
              /\ owned_by' = f
              /\ pc' = [pc EXCEPT ![f] = next[f]]
              /\ UNCHANGED waiters
         ELSE /\ counter' = counter - 2
              /\ waiters' = Append(waiters, f)
              /\ pc' = [pc EXCEPT ![f] = "blocked"]
              /\ UNCHANGED owned_by
    /\ UNCHANGED <<cv, timer, refcnt, next, op, timed_out, history>>

\* fibril_mutex_lock(), with check_for_deadlock().
Lock(f) ==
    /\ pc[f] = "lock"
    /\ counter' = counter - 1
    /\ IF counter > 0
         THEN /\ owned_by' = f
              /\ pc' = [pc EXCEPT ![f] = next[f]]
              /\ UNCHANGED waiters
         ELSE /\ waiters' = Append(waiters, f)
              /\ pc' = [pc EXCEPT ![f] = IF owned_by = f THEN "abort" ELSE "blocked"]
              /\ UNCHANGED owned_by
    /\ UNCHANGED <<cv, timer, refcnt, next, op, timed_out, history>>

\* fibril_condvar_wait_timeout() up to fibril_wait_timeout(): unlocking and
\* queueing are one section.  The fibril resumes at n, with the lock.
CondvarWait(f, n) ==
    /\ Unlock(f, [pc EXCEPT ![f] = "wait"])
    /\ cv' = Append(cv, f)
    /\ next' = [next EXCEPT ![f] = n]

\* fibril_condvar_broadcast(): pcs with every fibril that sleeps on the
\* condition variable made runnable.  Those that have timed out already run.
Notified(pcs) ==
    [f \in Fibrils |-> IF pcs[f] = "wait" /\ f \in ToSet(cv) THEN "woken" ELSE pcs[f]]

\* Mutant: nobody is notified.
BroadcastNot(pcs) == UNCHANGED cv /\ pc' = pcs

Broadcast(pcs) == /\ cv' = <<>>
                  /\ pc' = Notified(pcs)

\* fibril_wait_timeout() gives up: only the timer fibril in fts_active waits
\* with a timeout.
Timeout ==
    /\ pc[Timer] = "wait" /\ next[Timer] = "waited"
    /\ pc' = [pc EXCEPT ![Timer] = "woken"]
    /\ UNCHANGED <<lock, cv, timer, refcnt, next, op, timed_out, history>>

\* fibril_condvar_wait_timeout() after fibril_wait_timeout(): the wait timed
\* out iff the link is still in use.  Locking the mutex is the next step.
Woken(f) ==
    /\ pc[f] = "woken"
    /\ timed_out' = [timed_out EXCEPT ![f] = f \in ToSet(cv)]
    /\ \/ f \notin ToSet(cv) /\ UNCHANGED cv
       \/ \E i \in 1..Len(cv) : cv[i] = f /\ cv' = RemoveAt(cv, i)
    /\ pc' = [pc EXCEPT ![f] = "lock"]
    /\ UNCHANGED <<lock, timer, refcnt, next, op, history>>

-----------------------------------------------------------------------------
(* fibril_timer_func().                                                    *)

TimerLoop ==
    /\ pc[Timer] = "loop"
    /\ \/ /\ state \in {"not_set", "fired"}
          /\ CondvarWait(Timer, "loop")
          /\ UNCHANGED state
       \/ /\ state = "active"
          /\ CondvarWait(Timer, "waited")
          /\ UNCHANGED state
       \/ /\ state = "cleanup"
          /\ state' = "clean"
          /\ Broadcast([pc EXCEPT ![Timer] = "exit"])
          /\ UNCHANGED <<lock, next>>
    /\ UNCHANGED <<handler_fid, fun, freed, refcnt, op, timed_out, history>>

\* Mutant: the state is not looked at again after the wait.
FiresOnTimeout == timed_out[Timer]

\* The wait of an active timer is over: fire, or look at the state again.
Fires == timed_out[Timer] /\ state = "active"

Waited ==
    /\ pc[Timer] = "waited"
    /\ IF Fires
         THEN /\ state' = "fired"
              /\ handler_fid' = Timer
              /\ fired' = fired + 1
              /\ Unlock(Timer, [pc EXCEPT ![Timer] = "call"])
         ELSE /\ pc' = [pc EXCEPT ![Timer] = "loop"]
              /\ UNCHANGED <<lock, state, handler_fid, fired>>
    /\ UNCHANGED <<cv, fun, freed, refcnt, next, op, timed_out, sets, cancelled, called>>

\* timer->fun(timer->arg), both read without the lock: retransmit_timeout_func()
\* and tw_timeout_func() begin with tcp_conn_lock().
CallHandler ==
    /\ pc[Timer] = "call"
    /\ called' = [called EXCEPT ![fun] = @ + 1]
    /\ pc' = [pc EXCEPT ![Timer] = "lock"]
    /\ next' = [next EXCEPT ![Timer] = "handler"]
    /\ UNCHANGED <<lock, cv, timer, refcnt, op, timed_out, sets, fired, cancelled>>

\* retransmit_timeout_func() has the lock.  It sets the timer again and keeps
\* the reference that came with the set; or it finds the connection closed,
\* nothing to retransmit or no memory, and drops it.
Handler ==
    /\ pc[Timer] = "handler"
    /\ \/ /\ sets < MaxSets
          /\ op' = [op EXCEPT ![Timer] = "set"]
          /\ pc' = [pc EXCEPT ![Timer] = "set"]
       \/ /\ op' = [op EXCEPT ![Timer] = "drop"]
          /\ pc' = [pc EXCEPT ![Timer] = "unlock"]
    /\ UNCHANGED <<lock, cv, timer, refcnt, next, timed_out, history>>

\* Fibril f is through with the connection: a client for good, the timer fibril
\* until it has locked *lockp and is back in fibril_timer_func().
Left(f) ==
    /\ pc' = [pc EXCEPT ![f] = IF f = Timer THEN "lock" ELSE "done"]
    /\ next' = [next EXCEPT ![f] = IF f = Timer THEN "handled" ELSE @]

\* tcp_conn_delref(): with the last reference tcp_conn_free() destroys the timer.
Delref(f) ==
    /\ refcnt' = refcnt - 1
    /\ IF refcnt = 1
         THEN /\ pc' = [pc EXCEPT ![f] = "lock"]
              /\ next' = [next EXCEPT ![f] = "destroy"]
         ELSE Left(f)

\* The handler has unlocked the connection and drops the reference of its set.
HandlerDelref ==
    /\ pc[Timer] = "delref"
    /\ Delref(Timer)
    /\ UNCHANGED <<lock, cv, timer, op, timed_out, history>>

\* The timer fibril has locked *lockp after the handler.  Nobody is notified.
Handled ==
    /\ pc[Timer] = "handled"
    /\ handler_fid' = None
    /\ pc' = [pc EXCEPT ![Timer] = "loop"]
    /\ UNCHANGED <<lock, cv, state, fun, freed, refcnt, next, op, timed_out, history>>

TimerExit ==
    /\ pc[Timer] = "exit"
    /\ Unlock(Timer, [pc EXCEPT ![Timer] = "done"])
    /\ UNCHANGED <<cv, timer, refcnt, next, op, timed_out, history>>

-----------------------------------------------------------------------------
(* The operations of the clients.                                          *)

\* A client locks the connection to clear the timer, and perhaps to set it.
Begin(c, o) ==
    /\ pc[c] = "idle"
    /\ o = "set" => sets < MaxSets
    /\ op' = [op EXCEPT ![c] = o]
    /\ pc' = [pc EXCEPT ![c] = "lock"]
    /\ next' = [next EXCEPT ![c] = "clear"]
    /\ UNCHANGED <<lock, cv, timer, refcnt, timed_out, history>>

\* A client drops its reference to the connection.
Drop(c) ==
    /\ pc[c] = "idle"
    /\ op' = [op EXCEPT ![c] = "drop"]
    /\ Delref(c)
    /\ UNCHANGED <<lock, cv, timer, timed_out, history>>

\* Mutant: a clear does not wait for the handler.
HandlerIgnored == FALSE

\* fibril_timer_clear_locked(): wait for the handler to end ...
HandlerRuns == handler_fid # None

ClearWait(c) ==
    /\ pc[c] = "clear"
    /\ HandlerRuns
    /\ CondvarWait(c, "clear")
    /\ UNCHANGED <<timer, refcnt, op, timed_out, history>>

\* ... and cancel the timer.  If it was active, its reference is dropped; it is
\* never the last one, as the client has its own.
Clear(c) ==
    /\ pc[c] = "clear"
    /\ ~HandlerRuns
    /\ LET pending == IF state = "active" THEN 1 ELSE 0
       IN  cancelled' = cancelled + pending /\ refcnt' = refcnt - pending
    /\ state' = "not_set"
    /\ fun' = 0
    /\ Broadcast([pc EXCEPT ![c] = IF op[c] = "set" /\ sets < MaxSets THEN "set" ELSE "unlock"])
    /\ UNCHANGED <<lock, handler_fid, freed, next, op, timed_out, sets, fired, called>>

\* Mutant: the handler takes another reference when it sets the timer again.
AddrefAlways(f) == 1

\* tcp_tqueue_timer_set() takes a reference; the handler has one already.
Addref(f) == IF f = Timer THEN 0 ELSE 1

\* fibril_timer_set_locked(), by a client or by the handler.
Set(f) ==
    /\ pc[f] = "set"
    /\ refcnt' = refcnt + Addref(f)
    /\ IF state \in {"not_set", "fired"}
         THEN /\ state' = "active"
              /\ sets' = sets + 1
              /\ fun' = sets + 1
              /\ Broadcast([pc EXCEPT ![f] = "unlock"])
         ELSE /\ pc' = [pc EXCEPT ![f] = "abort"]
              /\ UNCHANGED <<state, sets, fun, cv>>
    /\ UNCHANGED <<lock, handler_fid, freed, next, op, timed_out, fired, cancelled, called>>

\* tcp_conn_unlock() at the end of an operation or of the handler.
AfterUnlock(f) == IF f # Timer THEN "idle"
                  ELSE IF op[f] = "set" THEN "lock" ELSE "delref"

Release(f) ==
    /\ pc[f] = "unlock"
    /\ Unlock(f, [pc EXCEPT ![f] = AfterUnlock(f)])
    /\ next' = [next EXCEPT ![f] = IF f = Timer THEN "handled" ELSE @]
    /\ UNCHANGED <<cv, timer, refcnt, op, timed_out, history>>

\* fibril_timer_destroy(), by a client or, from within the handler, by the
\* timer fibril itself.
Destroy(f) ==
    /\ pc[f] = "destroy"
    /\ IF state \in {"not_set", "fired"}
         THEN /\ state' = "cleanup"
              /\ Broadcast([pc EXCEPT ![f] = "waitclean"])
         ELSE /\ pc' = [pc EXCEPT ![f] = "abort"]
              /\ UNCHANGED <<state, cv>>
    /\ UNCHANGED <<lock, handler_fid, fun, freed, refcnt, next, op, timed_out, history>>

DestroyWait(f) ==
    /\ pc[f] = "waitclean"
    /\ state # "clean"
    /\ CondvarWait(f, "waitclean")
    /\ UNCHANGED <<timer, refcnt, op, timed_out, history>>

DestroyEnd(f) ==
    /\ pc[f] = "waitclean"
    /\ state = "clean"
    /\ Unlock(f, [pc EXCEPT ![f] = "free"])
    /\ UNCHANGED <<cv, timer, refcnt, next, op, timed_out, history>>

Free(f) ==
    /\ pc[f] = "free"
    /\ freed' = TRUE
    /\ Left(f)
    /\ UNCHANGED <<lock, cv, state, handler_fid, fun, refcnt, op, timed_out, history>>

-----------------------------------------------------------------------------
TimerStep == \/ TimerLoop \/ Waited \/ CallHandler \/ Handler \/ HandlerDelref
             \/ Handled \/ TimerExit

ClientStep(c) == ClearWait(c) \/ Clear(c)

FibrilStep(f) == \/ Lock(f) \/ Woken(f) \/ Set(f) \/ Release(f)
                 \/ Destroy(f) \/ DestroyWait(f) \/ DestroyEnd(f) \/ Free(f)

Next ==
    \/ Timeout
    \/ TimerStep
    \/ \E f \in Fibrils : FibrilStep(f)
    \/ \E c \in Clients : ClientStep(c)
    \/ \E c \in Clients, o \in {"set", "clear"} : Begin(c, o)
    \/ \E c \in Clients : Drop(c)

Spec == Init /\ [][Next]_vars

\* A runnable fibril eventually runs and a timeout expires; that the clients
\* start another operation or drop their references is not assumed.
FairSpec ==
    /\ Spec
    /\ WF_vars(Timeout) /\ WF_vars(TimerStep)
    /\ \A f \in Fibrils : WF_vars(FibrilStep(f))
    /\ \A c \in Clients : WF_vars(ClientStep(c))

-----------------------------------------------------------------------------
(* Properties.                                                             *)

\* Where a fibril goes on when it gets the lock, where it holds the lock, and
\* where it does not.
Entries == {"loop", "waited", "handler", "handled", "clear", "destroy", "waitclean"}

Inside == Entries \cup {"exit", "set", "unlock"}

Outside == {"idle", "lock", "blocked", "wait", "woken", "call", "delref", "free", "done",
            "abort"}

\* Where a fibril is, or will be once it has been notified and has the lock.
At(f) == IF pc[f] \in {"lock", "blocked", "wait", "woken"} THEN next[f] ELSE pc[f]

\* Every variable has its type; the mutex counter counts each fibril at most once.
TypeOK ==
    /\ counter \in 1 - Cardinality(Fibrils) .. 1 /\ owned_by \in Fibrils \cup {None}
    /\ waiters \in Seq(Fibrils) /\ cv \in Seq(Fibrils)
    /\ state \in {"not_set", "active", "fired", "cleanup", "clean"}
    /\ handler_fid \in {None, Timer} /\ fun \in 0..MaxSets /\ freed \in BOOLEAN
    /\ refcnt \in Nat
    /\ pc \in [Fibrils -> Inside \cup Outside] /\ next \in [Fibrils -> Entries]
    /\ op \in [Fibrils -> {"none", "set", "clear", "drop"}]
    /\ timed_out \in [Fibrils -> BOOLEAN]
    /\ sets \in 0..MaxSets /\ fired \in Nat /\ cancelled \in Nat
    /\ called \in [1..MaxSets -> Nat]

\* The assertions of the library: who is inside a critical section owns the
\* mutex (fibril_mutex_is_locked() and _fibril_mutex_unlock_unsafe() assert it),
\* a timer is set or destroyed only while it is not active or being cleaned up,
\* and check_for_deadlock() finds nobody waiting for itself.
AssertionsHold ==
    \A f \in Fibrils : /\ pc[f] # "abort"
                       /\ pc[f] \in Inside => owned_by = f

\* The return value of fibril_timer_clear() tells "whether the timer fired or
\* not": every set either fired, or was reported active by exactly one clear,
\* or is still pending.
SetsAccountedFor ==
    sets = fired + cancelled + (IF state = "active" THEN 1 ELSE 0)

\* The clients that hold a reference, and whether the timer does: it is pending,
\* or its handler runs and has not decided to set it again or dropped it.
Holders == {c \in Clients : op[c] # "drop"}

TimerHolds ==
    \/ state = "active"
    \/ At(Timer) \in {"call", "handler", "set", "delref"}
    \/ At(Timer) = "unlock" /\ op[Timer] = "drop"

\* conn->refcnt counts the clients and the timer, whichever way a set ends
\* (cancelled by a clear, set again or given up by the handler): the connection
\* is not freed while somebody uses it, and no reference is left over.
ReferencesExact ==
    refcnt = Cardinality(Holders) + (IF TimerHolds THEN 1 ELSE 0)

\* Once a clear has returned, the handler does not run until the next set, no
\* function is called for more than one expiry, and once the timer is freed
\* its fibril has ended and nobody waits on its condition variable.
TimerQuiescent ==
    /\ state = "not_set" => pc[Timer] \notin {"call", "handler"} /\ handler_fid = None
    /\ \A n \in DOMAIN called : called[n] <= 1
    /\ freed => pc[Timer] = "done" /\ cv = <<>>

\* fibril_timer_destroy() called by a client returns, with the timer never set,
\* cleared or fired, and even while the timer fibril is on its way back from
\* the handler.  (For the handler itself see ConnectionFreed.)
DestroyEnds == \A c \in Clients : pc[c] = "destroy" ~> pc[c] = "done"

\* "TCP will free conn eventually" (tcp_conn_delete()): when all references
\* have been dropped, the timer is destroyed and freed, and tcp_conn_free()
\* goes on.
ConnectionFreed == refcnt = 0 ~> freed

\* fibril_timer_clear() returns.
ClearEnds == \A c \in Clients : pc[c] = "clear" ~> pc[c] \in {"set", "unlock"}
=============================================================================
