------------------------------ MODULE IpcProofs ------------------------------
(***************************************************************************)
(* Proofs about module Ipc, for any tasks, threads, phones and calls.      *)
(*                                                                         *)
(* The inductive invariant follows a call through its life.  Fresh and     *)
(* unsent calls are with their sender.  Then a call is queued in one       *)
(* answerbox, open (dispatched, nobody is working on it), handled by one   *)
(* thread, answered (in the box of its caller) or done, and its reference  *)
(* count is known in each of these states.                                 *)
(***************************************************************************)
EXTENDS Ipc, ListTheorems, TLAPS

PCs == SyscallPCs \cup CleanupPCs

\* The type invariant, but for the counts of references being natural numbers.
Types ==
    /\ box_active \in [Tasks -> BOOLEAN]
    /\ wq \in [Boxes -> Nat]
    /\ box_active_calls \in [Boxes -> Int]
    /\ calls \in [Tasks -> Seq(AllCalls)]
    /\ dispatched \in [Tasks -> SUBSET AllCalls]
    /\ answers \in [Boxes -> Seq(AllCalls)]
    /\ state \in [Phones -> PhoneStates]
    /\ lock \in [Phones -> Threads \cup {None}]
    /\ caller \in [Phones -> Tasks \cup {None}]
    /\ callee \in [Phones -> Tasks \cup {None}]
    /\ linked \in [Phones -> BOOLEAN]
    /\ phone_active_calls \in [Phones -> Int]
    /\ hangup_call \in [Phones -> BOOLEAN]
    /\ phone_refs \in [Phones -> Int]
    /\ phone_cap \in [Phones -> BOOLEAN]
    /\ call_refs \in [AllCalls -> Int]
    /\ caller_phone \in [AllCalls -> Phones \cup {None}]
    /\ callerbox \in [AllCalls -> Boxes \cup {None}]
    /\ active \in [AllCalls -> BOOLEAN]
    /\ forget \in [AllCalls -> BOOLEAN]
    /\ priv \in [AllCalls -> Phones \cup {None}]
    /\ retval \in [AllCalls -> Retvals]
    /\ call_cap \in [AllCalls -> Tasks \cup {None}]
    /\ active_calls \in [Tasks -> SUBSET AllCalls]
    /\ interrupted \in [Threads -> BOOLEAN]
    /\ thr \in [Threads -> ThreadType]
    /\ pokes \in 0..MaxPokes

\* Places of a thread that works on a call, and of one that sleeps in
\* ipc_call_sync() until its call is answered.
HolderPCs == {"call", "backsend", "publish", "forward", "preprocess", "slam", "deliver", "wake"}
SyncPCs   == {"sync", "race", "answered"}
PhonePCs  == {"call", "backsend", "forward", "hangup", "hungup"} \cup SyncPCs

Holds(t, c) == thr[t].call = c /\ thr[t].pc \in HolderPCs
Waits(t, c) == thr[t].call = c /\ thr[t].pc \in SyncPCs

-----------------------------------------------------------------------------
(* The states of a call. *)

\* Call c is queued in the boxes Q, dispatched in those of D, an answer in those
\* of A, and in the hands of the threads H.
Where(c, Q, D, A, H) ==
    /\ \A k \in Tasks : c \in Elements(calls[k]) <=> k \in Q
    /\ \A k \in Tasks : c \in dispatched[k] <=> k \in D
    /\ \A b \in Boxes : c \in Elements(answers[b]) <=> b \in A
    /\ \A t \in Threads : Holds(t, c) <=> t \in H

\* Call c is an active call of the tasks K, and waited for by the threads T.
ActiveIn(c, K) == \A k \in Tasks : c \in active_calls[k] <=> k \in K
WaitedBy(c, T) == \A t \in Threads : Waits(t, c) <=> t \in T

\* The task that made the call.
Owner(c) == IF c \in SyncCalls THEN TaskOf[callerbox[c]] ELSE callerbox[c]

Sent(c) ==
    /\ caller_phone[c] \in Phones
    /\ callerbox[c] \in IF c \in SyncCalls THEN Threads ELSE Tasks

\* The thread that made a synchronous call waits for it unless it forgot it,
\* and has a reference of its own until then.
CallerWaits(c) == WaitedBy(c, IF c \in SyncCalls /\ ~forget[c] THEN {callerbox[c]} ELSE {})
CallerRef(c)   == IF c \in SyncCalls /\ ~forget[c] THEN 1 ELSE 0

NotSent(c) ==
    /\ caller_phone[c] = None /\ ~active[c] /\ ~forget[c]
    /\ ActiveIn(c, {}) /\ WaitedBy(c, {}) /\ call_cap[c] = None

\* Before answer_preprocess(): the call can be forgotten, or has been.
Pending(c) ==
    /\ Sent(c) /\ CallerWaits(c) /\ active[c]
    /\ ActiveIn(c, IF forget[c] THEN {} ELSE {Owner(c)})

\* After it: the call will be answered, or discarded.
Decided(c) ==
    /\ Sent(c) /\ CallerWaits(c) /\ ActiveIn(c, {})
    /\ active[c] <=> forget[c]

Fresh(c) ==
    /\ NotSent(c) /\ Where(c, {}, {}, {}, {})
    /\ call_refs[c] = IF c \in Phones /\ hangup_call[c] THEN 1 ELSE 0

Unsent(c, t) ==
    /\ NotSent(c) /\ Where(c, {}, {}, {}, {t}) /\ c \in Calls
    /\ thr[t].pc \in {"call", "backsend"}
    /\ call_refs[c] = IF c \in SyncCalls THEN 2 ELSE 1

Queued(c, k) ==
    /\ Pending(c) /\ Where(c, {k}, {}, {}, {}) /\ call_cap[c] = None
    /\ call_refs[c] = 1 + CallerRef(c)

Open(c, k) ==
    /\ Pending(c) /\ Where(c, {}, {k}, {}, {}) /\ call_cap[c] \in {k, None}
    /\ call_refs[c] = 1 + CallerRef(c) + (IF call_cap[c] = None THEN 0 ELSE 1)

Handled(c, t) ==
    /\ \/ Where(c, {}, {TaskOf[t]}, {}, {t}) /\ thr[t].pc # "forward"
       \/ Where(c, {}, {}, {}, {t}) /\ thr[t].pc # "publish"
    /\ \/ Pending(c) /\ thr[t].pc \in {"publish", "forward", "preprocess"}
       \/ Decided(c) /\ thr[t].pc \in {"slam", "deliver"} /\ (thr[t].pc = "slam" => ~forget[c])
    /\ call_cap[c] = None
    /\ call_refs[c] = 1 + CallerRef(c) + thr[t].ref

\* H is empty or the thread that is about to wake up the caller.
WakerRef(H) == IF \E t \in H : thr[t].ref = 1 THEN 1 ELSE 0
OneOrNone   == {{}} \cup {{t} : t \in Threads}

Answered(c, H) ==
    /\ Sent(c) /\ CallerWaits(c) /\ ~forget[c] /\ ActiveIn(c, {})
    /\ Where(c, {}, {}, {callerbox[c]}, H) /\ (\A t \in H : thr[t].pc = "wake")
    /\ call_cap[c] = None
    /\ call_refs[c] = 1 + CallerRef(c) + WakerRef(H)
    /\ c \in SyncCalls => ~active[c] /\ wq[callerbox[c]] = IF H = {} THEN 1 ELSE 0

Done(c, H) ==
    /\ Sent(c) /\ WaitedBy(c, {}) /\ ActiveIn(c, {}) /\ (forget[c] => active[c])
    /\ Where(c, {}, {}, {}, H) /\ (\A t \in H : thr[t].pc = "wake")
    /\ call_cap[c] = None
    /\ call_refs[c] = WakerRef(H)
    /\ c \in SyncCalls => H = {}

CallOK(c) ==
    \/ Fresh(c)
    \/ \E t \in Threads : Unsent(c, t) \/ Handled(c, t)
    \/ \E k \in Tasks : Queued(c, k) \/ Open(c, k)
    \/ \E H \in OneOrNone : Answered(c, H) \/ Done(c, H)

-----------------------------------------------------------------------------
(* Threads, phones and lists. *)

\* What the record of a thread holds, by the place the thread is at.
Shape(x) ==
    /\ x.call # None <=> x.pc \in HolderPCs \cup SyncPCs
    /\ x.pc \in PhonePCs => x.phone \in Phones
    /\ x.phone # None => x.pc \in PhonePCs \/ x.ref = 1
    /\ x.ref = 1 => x.pc \in {"forward", "preprocess", "slam", "deliver", "wake"}
    /\ x.pc = "forward" => x.ref = 1
    /\ x.next # "user" => /\ x.next \in {"hang_all", "rehang", "calls", "dispatched"}
                          /\ x.pc \in {"preprocess", "slam", "deliver", "wake", "hangup", "hungup"}
                          /\ x.ref = 0

\* The last thread of a task runs ipc_cleanup(); later the call capabilities
\* of the task are gone.
Cleaning(x) == x.next # "user" \/ x.pc \in CleanupPCs \ {"exit", "dead"}
Late(x) == \/ x.next \in {"calls", "dispatched", "rehang"}
           \/ x.pc \in CleanupPCs \ {"exit", "dead", "hang_all", "slam_all"}

ThreadOK(t) ==
    /\ Shape(thr[t])
    /\ thr[t].pc = "hungup" => lock[thr[t].phone] = t /\ state[thr[t].phone] = "CONNECTED"
    /\ Cleaning(thr[t]) =>
           \A u \in Threads : u # t /\ TaskOf[u] = TaskOf[t] => thr[u].pc = "dead"
    /\ Late(thr[t]) => \A c \in AllCalls : call_cap[c] # TaskOf[t]

PhoneOK(p) ==
    /\ linked[p] => state[p] = "CONNECTED" /\ lock[p] = None
    /\ state[p] = "CONNECTED" => callee[p] \in Tasks
    /\ state[p] \in {"CONNECTING", "CONNECTED", "SLAMMED"} => hangup_call[p]
    /\ state[p] = "FREE" => ~hangup_call[p] /\ caller_phone[p] = None
    /\ hangup_call[p] => caller_phone[p] = None
    /\ lock[p] # None => thr[lock[p]].pc = "hungup" /\ thr[lock[p]].phone = p

ThreadInv == \A t \in Threads : ThreadOK(t)
PhoneInv  == \A p \in Phones : PhoneOK(p)
CallInv   == \A c \in AllCalls : CallOK(c)

\* No list has a call twice, and an empty box of a thread has no wakeup.
ListInv ==
    /\ \A k \in Tasks : IsInjective(calls[k])
    /\ \A b \in Boxes : IsInjective(answers[b])
    /\ \A t \in Threads : answers[t] = <<>> => wq[t] = 0

\* The inductive invariant.
IInv == Types /\ ThreadInv /\ PhoneInv /\ ListInv /\ CallInv

-----------------------------------------------------------------------------
(* Lists of calls. *)

LEMMA ElementsFacts ==
    ASSUME NEW s \in Seq(AllCalls)
    PROVE  /\ Elements(s) = ToSet(s)
           /\ s = <<>> <=> Elements(s) = {}
           /\ Elements(s) \subseteq AllCalls
<1>1. Len(s) \in Nat /\ DOMAIN s = 1..Len(s) /\ ToSet(s) \subseteq AllCalls
      /\ (s = <<>> <=> ToSet(s) = {})
  BY ListIsFunction
<1>2. Elements(s) = ToSet(s)
  BY <1>1 DEF Elements, ToSet
<1> QED BY <1>1, <1>2

\* A call is put at the end of the list of k.
LEMMA PutIn ==
    ASSUME NEW K, NEW f \in [K -> Seq(AllCalls)], NEW k \in K, NEW c \in AllCalls,
           NEW g, g = [f EXCEPT ![k] = Append(@, c)]
    PROVE  /\ g \in [K -> Seq(AllCalls)]
           /\ \A j \in K, d \in AllCalls :
                 d \in Elements(g[j]) <=> d \in Elements(f[j]) \/ (j = k /\ d = c)
           /\ g[k] # <<>>
           /\ \A j \in K : j # k => g[j] = f[j]
<1>1. f[k] \in Seq(AllCalls) /\ g[k] = Append(f[k], c) /\ \A j \in K : j # k => g[j] = f[j]
  OBVIOUS
<1>2. g[k] \in Seq(AllCalls) /\ ToSet(g[k]) = ToSet(f[k]) \cup {c}
  BY <1>1, AppendList
<1>3. Elements(f[k]) = ToSet(f[k]) /\ Elements(g[k]) = ToSet(g[k])
  BY <1>1, <1>2, ElementsFacts
<1>4. g \in [K -> Seq(AllCalls)]
  BY <1>1, <1>2
<1>5. g[k] # <<>>
  <2>1. Elements(g[k]) # {}
    BY <1>2, <1>3
  <2> QED BY <2>1, <1>2, ElementsFacts
<1> QED BY <1>1, <1>2, <1>3, <1>4, <1>5

\* The first call of the list of k is taken.
LEMMA TakeFrom ==
    ASSUME NEW K, NEW f \in [K -> Seq(AllCalls)], NEW k \in K, f[k] # <<>>,
           \A j \in K : IsInjective(f[j]),
           NEW g, g = [f EXCEPT ![k] = Tail(@)]
    PROVE  /\ g \in [K -> Seq(AllCalls)]
           /\ Head(f[k]) \in AllCalls /\ Head(f[k]) \in Elements(f[k])
           /\ \A j \in K, d \in AllCalls :
                 d \in Elements(g[j]) <=> d \in Elements(f[j]) /\ ~(j = k /\ d = Head(f[k]))
           /\ \A j \in K : j # k => g[j] = f[j]
<1>1. f[k] \in Seq(AllCalls) /\ g[k] = Tail(f[k]) /\ \A j \in K : j # k => g[j] = f[j]
  OBVIOUS
<1>2. /\ g[k] \in Seq(AllCalls) /\ ToSet(g[k]) = ToSet(f[k]) \ {Head(f[k])}
      /\ Head(f[k]) \in AllCalls /\ Head(f[k]) \in ToSet(f[k])
  BY <1>1, TailList
<1>3. Elements(f[k]) = ToSet(f[k]) /\ Elements(g[k]) = ToSet(g[k])
  BY <1>1, <1>2, ElementsFacts
<1>4. g \in [K -> Seq(AllCalls)]
  BY <1>1, <1>2
<1> QED BY <1>1, <1>2, <1>3, <1>4

-----------------------------------------------------------------------------
(* Moves of threads. *)

LEMMA GotoFacts ==
    ASSUME thr \in [Threads -> ThreadType], NEW t \in Threads, NEW pc \in PCs, Goto(t, pc)
    PROVE  /\ thr' \in [Threads -> ThreadType]
           /\ \A u \in Threads : u # t => thr'[u] = thr[u]
           /\ thr'[t].pc = pc /\ thr'[t].call = thr[t].call /\ thr'[t].phone = thr[t].phone
           /\ thr'[t].ref = thr[t].ref /\ thr'[t].next = thr[t].next
BY DEF Goto, ThreadType, PCs

LEMMA UserFacts ==
    /\ User \in ThreadType
    /\ User.pc = "user" /\ User.call = None /\ User.phone = None
    /\ User.ref = 0 /\ User.next = "user"
BY DEF User, ThreadType, SyscallPCs

LEMMA ReturnFacts ==
    ASSUME thr \in [Threads -> ThreadType], NEW t \in Threads, Return(t), Shape(thr[t])
    PROVE  /\ thr' \in [Threads -> ThreadType]
           /\ \A u \in Threads : u # t => thr'[u] = thr[u]
           /\ thr'[t].call = None /\ thr'[t].phone = None
           /\ thr'[t].ref = 0 /\ thr'[t].next = "user"
           /\ \/ thr[t].next = "user" /\ thr'[t].pc \in {"user", "exit"}
              \/ /\ thr[t].next \in {"hang_all", "rehang", "calls", "dispatched"}
                 /\ thr'[t].pc = thr[t].next
<1> DEFINE q == IF thr[t].next # "user" THEN thr[t].next
                ELSE IF interrupted[t] THEN "exit" ELSE "user"
           x == [User EXCEPT !.pc = q]
<1>1. q \in PCs
  BY DEF ThreadType, PCs, SyscallPCs, CleanupPCs
<1>2. x \in ThreadType /\ x.pc = q /\ x.call = None /\ x.phone = None /\ x.ref = 0
      /\ x.next = "user"
  BY <1>1 DEF User, ThreadType, PCs, SyscallPCs
<1>3. thr' = [thr EXCEPT ![t] = x]
  BY DEF Return
<1>4. thr' \in [Threads -> ThreadType] /\ thr'[t] = x
      /\ \A u \in Threads : u # t => thr'[u] = thr[u]
  BY <1>2, <1>3
<1>5. \/ thr[t].next = "user" /\ q \in {"user", "exit"}
      \/ thr[t].next \in {"hang_all", "rehang", "calls", "dispatched"} /\ q = thr[t].next
  BY DEF Shape
<1> QED BY <1>2, <1>4, <1>5

-----------------------------------------------------------------------------
(* A step that does not concern call d. *)

Same(d) ==
    /\ \A k \in Tasks : /\ d \in Elements(calls'[k]) <=> d \in Elements(calls[k])
                        /\ d \in dispatched'[k] <=> d \in dispatched[k]
                        /\ d \in active_calls'[k] <=> d \in active_calls[k]
    /\ \A b \in Boxes : d \in Elements(answers'[b]) <=> d \in Elements(answers[b])
    /\ \A u \in Threads : \/ thr'[u] = thr[u]
                          \/ thr[u].call # d /\ thr'[u].call # d
                          \/ Waits(u, d) /\ Waits(u, d)'
    /\ caller_phone'[d] = caller_phone[d] /\ callerbox'[d] = callerbox[d]
    /\ active'[d] = active[d] /\ forget'[d] = forget[d]
    /\ call_cap'[d] = call_cap[d] /\ call_refs'[d] = call_refs[d]
    /\ d \in Phones => hangup_call'[d] = hangup_call[d]
    /\ d \in SyncCalls /\ (\E b \in Boxes : d \in Elements(answers[b])) =>
           wq'[callerbox[d]] = wq[callerbox[d]]

LEMMA SameWhere ==
    ASSUME NEW d \in AllCalls, Same(d), NEW Q, NEW D, NEW A, NEW H, Where(d, Q, D, A, H)
    PROVE  Where(d, Q, D, A, H)'
<1>1. \A t \in Threads : Holds(t, d)' <=> Holds(t, d)
  BY DEF Same, Holds, Waits, HolderPCs, SyncPCs
<1> QED BY <1>1 DEF Same, Where

\* What depends on the fields of the call, the sender's list and the caller only.
LEMMA Keeps ==
    ASSUME NEW d \in AllCalls,
           caller_phone'[d] = caller_phone[d] /\ callerbox'[d] = callerbox[d],
           active'[d] = active[d] /\ forget'[d] = forget[d],
           \A k \in Tasks : d \in active_calls'[k] <=> d \in active_calls[k],
           \A t \in Threads : Waits(t, d)' <=> Waits(t, d)
    PROVE  /\ \A K : ActiveIn(d, K) => ActiveIn(d, K)'
           /\ \A T : WaitedBy(d, T) => WaitedBy(d, T)'
           /\ Sent(d) => Sent(d)'
           /\ CallerWaits(d) => CallerWaits(d)'
           /\ CallerRef(d)' = CallerRef(d)
           /\ Pending(d) => Pending(d)'
           /\ Decided(d) => Decided(d)'
<1>1. \A K : ActiveIn(d, K) => ActiveIn(d, K)'
  BY DEF ActiveIn
<1>3. \A T : WaitedBy(d, T) => WaitedBy(d, T)'
  BY DEF WaitedBy
<1>5. Sent(d) => Sent(d)'
  BY DEF Sent
<1>6. CallerWaits(d) => CallerWaits(d)'
  BY <1>3 DEF CallerWaits
<1>7. CallerRef(d)' = CallerRef(d)
  BY DEF CallerRef
<1>9. Pending(d) => Pending(d)'
  <2>1. Owner(d)' = Owner(d)
    BY DEF Owner
  <2> QED BY <1>1, <1>5, <1>6, <2>1 DEF Pending
<1>10. Decided(d) => Decided(d)'
  BY <1>1, <1>5, <1>6 DEF Decided
<1> QED BY <1>1, <1>3, <1>5, <1>6, <1>7, <1>9, <1>10

LEMMA SameParts ==
    ASSUME NEW d \in AllCalls, Same(d)
    PROVE  /\ \A K : ActiveIn(d, K) => ActiveIn(d, K)'
           /\ \A T : WaitedBy(d, T) => WaitedBy(d, T)'
           /\ Sent(d) => Sent(d)'
           /\ CallerWaits(d) => CallerWaits(d)'
           /\ CallerRef(d)' = CallerRef(d)
           /\ NotSent(d) => NotSent(d)'
           /\ Pending(d) => Pending(d)'
           /\ Decided(d) => Decided(d)'
<1>1. \A t \in Threads : Waits(t, d)' <=> Waits(t, d)
  BY DEF Same, Waits
<1>2. /\ caller_phone'[d] = caller_phone[d] /\ callerbox'[d] = callerbox[d]
      /\ active'[d] = active[d] /\ forget'[d] = forget[d] /\ call_cap'[d] = call_cap[d]
      /\ \A k \in Tasks : d \in active_calls'[k] <=> d \in active_calls[k]
  BY DEF Same
<1>3. /\ \A K : ActiveIn(d, K) => ActiveIn(d, K)'
      /\ \A T : WaitedBy(d, T) => WaitedBy(d, T)'
      /\ Sent(d) => Sent(d)'
      /\ CallerWaits(d) => CallerWaits(d)'
      /\ CallerRef(d)' = CallerRef(d)
      /\ Pending(d) => Pending(d)'
      /\ Decided(d) => Decided(d)'
  BY <1>1, <1>2, Keeps
<1>4. NotSent(d) => NotSent(d)'
  BY <1>2, <1>3 DEF NotSent
<1> QED BY <1>3, <1>4

LEMMA SameCall ==
    ASSUME NEW d \in AllCalls, Same(d), CallOK(d)
    PROVE  CallOK(d)'
<1>1. /\ callerbox'[d] = callerbox[d] /\ active'[d] = active[d] /\ forget'[d] = forget[d]
      /\ call_cap'[d] = call_cap[d] /\ call_refs'[d] = call_refs[d]
      /\ d \in Phones => hangup_call'[d] = hangup_call[d]
  BY DEF Same
<1>2. ASSUME NEW Q, NEW D, NEW A, NEW H, Where(d, Q, D, A, H), NEW t \in Threads, t \in H
      PROVE  thr'[t] = thr[t]
  BY <1>2 DEF Where, Holds, Same, Waits, HolderPCs, SyncPCs
<1>3. CASE Fresh(d)
  <2>1. Fresh(d)'
    BY <1>1, <1>3, SameWhere, SameParts DEF Fresh
  <2> QED BY <2>1 DEF CallOK
<1>4. ASSUME NEW t \in Threads, Unsent(d, t) PROVE CallOK(d)'
  <2>1. Where(d, {}, {}, {}, {t}) /\ NotSent(d)
    BY <1>4 DEF Unsent
  <2>2. thr'[t] = thr[t]
    BY <2>1, <1>2
  <2>3. Where(d, {}, {}, {}, {t})' /\ NotSent(d)'
    BY <2>1, SameWhere, SameParts
  <2>4. Unsent(d, t)'
    BY <1>1, <1>4, <2>2, <2>3 DEF Unsent
  <2> QED BY <2>4 DEF CallOK
<1>5. ASSUME NEW t \in Threads, Handled(d, t) PROVE CallOK(d)'
  <2>1. thr'[t] = thr[t]
    <3>1. Where(d, {}, {TaskOf[t]}, {}, {t}) \/ Where(d, {}, {}, {}, {t})
      BY <1>5 DEF Handled
    <3> QED BY <3>1, <1>2
  <2>2. /\ Where(d, {}, {TaskOf[t]}, {}, {t}) => Where(d, {}, {TaskOf[t]}, {}, {t})'
        /\ Where(d, {}, {}, {}, {t}) => Where(d, {}, {}, {}, {t})'
    BY SameWhere
  <2>3. Handled(d, t)'
    BY <1>1, <1>5, <2>1, <2>2, SameParts DEF Handled
  <2> QED BY <2>3 DEF CallOK
<1>6. ASSUME NEW k \in Tasks, Queued(d, k) PROVE CallOK(d)'
  <2>1. Where(d, {k}, {}, {}, {})' /\ Pending(d)' /\ CallerRef(d)' = CallerRef(d)
    BY <1>6, SameWhere, SameParts DEF Queued
  <2>2. Queued(d, k)'
    BY <1>1, <1>6, <2>1 DEF Queued
  <2> QED BY <2>2 DEF CallOK
<1>7. ASSUME NEW k \in Tasks, Open(d, k) PROVE CallOK(d)'
  <2>1. Where(d, {}, {k}, {}, {})' /\ Pending(d)' /\ CallerRef(d)' = CallerRef(d)
    BY <1>7, SameWhere, SameParts DEF Open
  <2>2. Open(d, k)'
    BY <1>1, <1>7, <2>1 DEF Open
  <2> QED BY <2>2 DEF CallOK
<1>8. ASSUME NEW H \in OneOrNone, Answered(d, H) PROVE CallOK(d)'
  <2>1. H \subseteq Threads
    BY DEF OneOrNone
  <2>2. /\ Where(d, {}, {}, {callerbox[d]}, H)
        /\ d \in SyncCalls => callerbox[d] \in Boxes
    BY <1>8 DEF Answered, Sent, Boxes
  <2>3. /\ \A t \in H : thr'[t] = thr[t]
        /\ WakerRef(H)' = WakerRef(H)
    BY <2>1, <2>2, <1>2 DEF WakerRef
  <2>b. PICK b : b = callerbox[d]
    OBVIOUS
  <2>w. Where(d, {}, {}, {b}, H)
    BY <2>2, <2>b
  <2>4. Where(d, {}, {}, {b}, H)' /\ callerbox'[d] = b
    BY <1>1, <2>b, <2>w, SameWhere
  <2>5. d \in SyncCalls => wq'[callerbox[d]] = wq[callerbox[d]]
    BY <2>2 DEF Where, Same
  <2>6. Sent(d)' /\ CallerWaits(d)' /\ ActiveIn(d, {})' /\ CallerRef(d)' = CallerRef(d)
    BY <1>8, SameParts DEF Answered
  <2>7. Answered(d, H)'
    BY <1>1, <1>8, <2>3, <2>4, <2>5, <2>6 DEF Answered
  <2> QED BY <2>7 DEF CallOK
<1>9. ASSUME NEW H \in OneOrNone, Done(d, H) PROVE CallOK(d)'
  <2>1. H \subseteq Threads
    BY DEF OneOrNone
  <2>2. Where(d, {}, {}, {}, H)
    BY <1>9 DEF Done
  <2>3. /\ \A t \in H : thr'[t] = thr[t]
        /\ WakerRef(H)' = WakerRef(H)
    BY <2>1, <2>2, <1>2 DEF WakerRef
  <2>4. Where(d, {}, {}, {}, H)'
    BY <2>2, SameWhere
  <2>5. Sent(d)' /\ WaitedBy(d, {})' /\ ActiveIn(d, {})'
    BY <1>9, SameParts DEF Done
  <2>6. Done(d, H)'
    BY <1>1, <1>9, <2>3, <2>4, <2>5 DEF Done
  <2> QED BY <2>6 DEF CallOK
<1> QED BY <1>3, <1>4, <1>5, <1>6, <1>7, <1>8, <1>9 DEF CallOK

-----------------------------------------------------------------------------
(* What the place of a call tells about its state. *)

LEMMA HeldCall ==
    ASSUME NEW c \in AllCalls, CallOK(c), NEW t \in Threads, Holds(t, c)
    PROVE  /\ thr[t].pc \in {"call", "backsend"} => Unsent(c, t)
           /\ thr[t].pc \in {"publish", "forward", "preprocess", "slam", "deliver"} => Handled(c, t)
           /\ thr[t].pc = "wake" => Answered(c, {t}) \/ Done(c, {t})
<1>1. ~Fresh(c) /\ \A k \in Tasks : ~Queued(c, k) /\ ~Open(c, k)
  BY DEF Fresh, Queued, Open, Where
<1>2. \A u \in Threads : Unsent(c, u) => u = t /\ thr[t].pc \in {"call", "backsend"}
  BY DEF Unsent, Where
<1>3. \A u \in Threads : Handled(c, u) =>
         u = t /\ thr[t].pc \in {"publish", "forward", "preprocess", "slam", "deliver"}
  BY DEF Handled, Where
<1>4. \A H \in OneOrNone : Answered(c, H) \/ Done(c, H) => H = {t} /\ thr[t].pc = "wake"
  BY DEF Answered, Done, Where, OneOrNone
<1> QED BY <1>1, <1>2, <1>3, <1>4 DEF CallOK

LEMMA QueuedCall ==
    ASSUME NEW c \in AllCalls, CallOK(c), NEW k \in Tasks, c \in Elements(calls[k])
    PROVE  Queued(c, k)
<1>1. ~Fresh(c) /\ \A t \in Threads : ~Unsent(c, t) /\ ~Handled(c, t)
  BY DEF Fresh, Unsent, Handled, Where
<1>2. \A H \in OneOrNone : ~Answered(c, H) /\ ~Done(c, H)
  BY DEF Answered, Done, Where
<1>3. \A j \in Tasks : ~Open(c, j) /\ (Queued(c, j) => j = k)
  BY DEF Open, Queued, Where
<1> QED BY <1>1, <1>2, <1>3 DEF CallOK

LEMMA DispatchedCall ==
    ASSUME NEW c \in AllCalls, CallOK(c), NEW k \in Tasks, c \in dispatched[k]
    PROVE  Open(c, k) \/ \E t \in Threads : Handled(c, t) /\ TaskOf[t] = k /\ Holds(t, c)
<1>1. ~Fresh(c) /\ \A t \in Threads : ~Unsent(c, t)
  BY DEF Fresh, Unsent, Where
<1>2. \A H \in OneOrNone : ~Answered(c, H) /\ ~Done(c, H)
  BY DEF Answered, Done, Where
<1>3. \A j \in Tasks : ~Queued(c, j) /\ (Open(c, j) => j = k)
  BY DEF Open, Queued, Where
<1>4. \A t \in Threads : Handled(c, t) => TaskOf[t] = k /\ Holds(t, c)
  BY DEF Handled, Where
<1> QED BY <1>1, <1>2, <1>3, <1>4 DEF CallOK

LEMMA AnsweredCall ==
    ASSUME NEW c \in AllCalls, CallOK(c), NEW b \in Boxes, c \in Elements(answers[b])
    PROVE  callerbox[c] = b /\ \E H \in OneOrNone : Answered(c, H)
<1>1. ~Fresh(c) /\ \A t \in Threads : ~Unsent(c, t) /\ ~Handled(c, t)
  BY DEF Fresh, Unsent, Handled, Where
<1>2. \A H \in OneOrNone : ~Done(c, H) /\ (Answered(c, H) => callerbox[c] = b)
  BY DEF Answered, Done, Where
<1>3. \A j \in Tasks : ~Queued(c, j) /\ ~Open(c, j)
  BY DEF Open, Queued, Where
<1> QED BY <1>1, <1>2, <1>3 DEF CallOK

LEMMA PublishedCall ==
    ASSUME NEW c \in AllCalls, CallOK(c), NEW k \in Tasks, call_cap[c] = k
    PROVE  Open(c, k)
<1>1. k # None
  BY IpcAssumption
<1>2. ~Fresh(c) /\ \A t \in Threads : ~Unsent(c, t) /\ ~Handled(c, t)
  BY <1>1 DEF Fresh, Unsent, Handled, NotSent
<1>3. \A H \in OneOrNone : ~Done(c, H) /\ ~Answered(c, H)
  BY <1>1 DEF Answered, Done
<1>4. \A j \in Tasks : ~Queued(c, j) /\ (Open(c, j) => j = k)
  BY <1>1 DEF Open, Queued
<1> QED BY <1>2, <1>3, <1>4 DEF CallOK

\* A call that has not been sent has its sender or nobody.
LEMMA UnsentCall ==
    ASSUME NEW c \in AllCalls, CallOK(c), caller_phone[c] = None
    PROVE  Fresh(c) \/ \E t \in Threads : Unsent(c, t)
<1>1. ~Sent(c)
  BY IpcAssumption DEF Sent
<1>2. \A t \in Threads : ~Handled(c, t)
  BY <1>1 DEF Handled, Pending, Decided
<1>3. \A H \in OneOrNone : ~Done(c, H) /\ ~Answered(c, H)
  BY <1>1 DEF Answered, Done
<1>4. \A j \in Tasks : ~Queued(c, j) /\ ~Open(c, j)
  BY <1>1 DEF Open, Queued, Pending
<1> QED BY <1>2, <1>3, <1>4 DEF CallOK

LEMMA UnusedCall ==
    ASSUME NEW c \in AllCalls, CallOK(c), Unused(c)
    PROVE  Fresh(c)
<1>1. \A t \in Threads : ~Unsent(c, t)
  BY DEF Unused, Unsent
<1> QED BY <1>1, UnsentCall DEF Unused

\* A synchronous call that its caller waits for.
LEMMA WaitedCall ==
    ASSUME NEW c \in AllCalls, CallOK(c), NEW t \in Threads, Waits(t, c)
    PROVE  /\ c \in SyncCalls /\ ~forget[c] /\ callerbox[c] = t /\ Sent(c) /\ CallerWaits(c)
           /\ \/ \E k \in Tasks : Queued(c, k) \/ Open(c, k)
              \/ \E u \in Threads : Handled(c, u)
              \/ \E H \in OneOrNone : Answered(c, H)
<1>1. ~Fresh(c) /\ \A u \in Threads : ~Unsent(c, u)
  BY DEF Fresh, Unsent, NotSent, WaitedBy
<1>2. \A H \in OneOrNone : ~Done(c, H)
  BY DEF Done, WaitedBy
<1>3. CallerWaits(c) /\ Sent(c)
  BY <1>1, <1>2 DEF CallOK, Queued, Open, Handled, Answered, Pending, Decided
<1>4. c \in SyncCalls /\ ~forget[c] /\ callerbox[c] = t
  BY <1>3 DEF CallerWaits, WaitedBy
<1> QED BY <1>1, <1>2, <1>3, <1>4 DEF CallOK

\* An active call of a task has not been answered or forgotten.
LEMMA ActiveCall ==
    ASSUME NEW c \in AllCalls, CallOK(c), NEW k \in Tasks, c \in active_calls[k]
    PROVE  /\ Pending(c) /\ ~forget[c] /\ k = Owner(c)
           /\ \/ \E j \in Tasks : Queued(c, j) \/ Open(c, j)
              \/ \E t \in Threads : Handled(c, t) /\ thr[t].pc \notin {"slam", "deliver"}
<1>1. ~Fresh(c) /\ \A u \in Threads : ~Unsent(c, u)
  BY DEF Fresh, Unsent, NotSent, ActiveIn
<1>2. \A H \in OneOrNone : ~Done(c, H) /\ ~Answered(c, H)
  BY DEF Done, Answered, ActiveIn
<1>3. \A t \in Threads : Handled(c, t) => Pending(c) /\ thr[t].pc \notin {"slam", "deliver"}
  BY DEF Handled, Decided, ActiveIn
<1>4. /\ Pending(c)
      /\ \/ \E j \in Tasks : Queued(c, j) \/ Open(c, j)
         \/ \E t \in Threads : Handled(c, t) /\ thr[t].pc \notin {"slam", "deliver"}
  BY <1>1, <1>2, <1>3 DEF CallOK, Queued, Open
<1> QED BY <1>4 DEF Pending, ActiveIn

-----------------------------------------------------------------------------
(* Types. *)

LEMMA Nones ==
    /\ None \notin Tasks /\ None \notin Threads /\ None \notin Phones /\ None \notin Calls
    /\ None \notin AllCalls /\ None \notin Boxes
    /\ \A t \in Threads : TaskOf[t] \in Tasks /\ t \in Boxes /\ TaskOf[t] \in Boxes /\ t \notin Tasks
    /\ \A k \in Tasks : k \in Boxes /\ k \notin Threads
    /\ \A c \in Calls : c \in AllCalls /\ c \notin Phones
    /\ \A p \in Phones : p \in AllCalls /\ p \notin Calls /\ p \notin SyncCalls
    /\ SyncCalls \subseteq Calls
BY IpcAssumption DEF AllCalls, Boxes

LEMMA AddType ==
    ASSUME NEW S, NEW f \in [S -> Int], NEW x, NEW n \in Int
    PROVE  Add(f, x, n) \in [S -> Int]
<1>1. DOMAIN Add(f, x, n) = S /\ Add(f, x, n) = [y \in S |-> Add(f, x, n)[y]]
  BY DEF Add
<1>2. \A y \in S : Add(f, x, n)[y] = IF y = x THEN f[y] + n ELSE f[y]
  BY DEF Add
<1>3. \A y \in S : Add(f, x, n)[y] \in Int
  BY <1>2
<1> QED BY <1>1, <1>3

LEMMA PutType ==
    ASSUME NEW f \in [Phones -> Int], NEW p
    PROVE  Put(f, p) \in [Phones -> Int]
BY DEF Put, Add

LEMMA PutCallType ==
    ASSUME Types, NEW c, NEW n \in Int, NEW f \in [Phones -> Int], PutCall(c, n, f)
    PROVE  /\ call_refs' \in [AllCalls -> Int] /\ phone_refs' \in [Phones -> Int]
           /\ retval' \in [AllCalls -> Retvals]
<1>1. call_refs' \in [AllCalls -> Int]
  <2>1. -n \in Int /\ call_refs \in [AllCalls -> Int] /\ call_refs' = Add(call_refs, c, -n)
    BY DEF PutCall, Types
  <2> QED BY <2>1, AddType
<1>2. Put(f, caller_phone[c]) \in [Phones -> Int]
  BY PutType
<1>3. phone_refs' \in [Phones -> Int]
  BY <1>2 DEF PutCall
<1>4. retval' \in [AllCalls -> Retvals]
  BY DEF PutCall, Types, Retvals
<1> QED BY <1>1, <1>3, <1>4

LEMMA CallActionsType ==
    ASSUME Types, NEW p \in Phones, NEW c \in AllCalls, NEW b \in Boxes, NEW n \in Int,
           CallActions(p, c, b, n)
    PROVE  /\ caller_phone' \in [AllCalls -> Phones \cup {None}]
           /\ callerbox' \in [AllCalls -> Boxes \cup {None}]
           /\ active' \in [AllCalls -> BOOLEAN]
           /\ phone_active_calls' \in [Phones -> Int]
           /\ phone_refs' \in [Phones -> Int]
<1>1. caller_phone' \in [AllCalls -> Phones \cup {None}] /\ callerbox' \in [AllCalls -> Boxes \cup {None}]
      /\ active' \in [AllCalls -> BOOLEAN]
  BY DEF CallActions, Types
<1>2. /\ 2 - n \in Int /\ 1 \in Int
      /\ phone_active_calls \in [Phones -> Int] /\ phone_refs \in [Phones -> Int]
      /\ phone_active_calls' = Add(phone_active_calls, p, 1)
      /\ phone_refs' = Add(phone_refs, p, 2 - n)
  BY DEF CallActions, Types
<1> QED BY <1>1, <1>2, AddType

LEMMA ReceiveType ==
    ASSUME Types, ListInv, NEW b \in Boxes, answers[b] # <<>>, NEW n \in Int, NEW p,
           ReceiveAnswer(b, n, p)
    PROVE  /\ answers' \in [Boxes -> Seq(AllCalls)]
           /\ phone_active_calls' \in [Phones -> Int] /\ box_active_calls' \in [Boxes -> Int]
           /\ priv' \in [AllCalls -> Phones \cup {None}]
           /\ phone_cap' \in [Phones -> BOOLEAN]
           /\ call_refs' \in [AllCalls -> Int] /\ phone_refs' \in [Phones -> Int]
           /\ retval' \in [AllCalls -> Retvals]
<1> DEFINE c == Head(answers[b])
           f == Put(Put(phone_refs, caller_phone[c]), p)
           g == IF retval[c] = "EOK" THEN f ELSE Put(f, priv[c])
<1>1. f \in [Phones -> Int]
  BY PutType DEF Types
<1>2. g \in [Phones -> Int]
  BY <1>1, PutType
<1>3. PutCall(c, n, g)
  BY DEF ReceiveAnswer
<1>4. /\ call_refs' \in [AllCalls -> Int] /\ phone_refs' \in [Phones -> Int]
      /\ retval' \in [AllCalls -> Retvals]
  <2> HIDE DEF c, g
  <2> QED BY <1>2, <1>3, PutCallType
<1>5. answers' = [answers EXCEPT ![b] = Tail(@)]
  BY DEF ReceiveAnswer
<1>6. answers' \in [Boxes -> Seq(AllCalls)]
  BY <1>5, TakeFrom DEF Types, ListInv
<1>7. phone_active_calls' \in [Phones -> Int] /\ box_active_calls' \in [Boxes -> Int]
  <2>1. /\ -1 \in Int
        /\ phone_active_calls \in [Phones -> Int] /\ box_active_calls \in [Boxes -> Int]
        /\ phone_active_calls' = Add(phone_active_calls, caller_phone[c], -1)
        /\ box_active_calls' = Add(box_active_calls, b, -1)
    BY DEF ReceiveAnswer, Types
  <2> HIDE DEF c
  <2> QED BY <2>1, AddType
<1>8. priv' \in [AllCalls -> Phones \cup {None}] /\ phone_cap' \in [Phones -> BOOLEAN]
  BY DEF ReceiveAnswer, Types
<1> QED BY <1>4, <1>6, <1>7, <1>8

LEMMA WqType ==
    ASSUME wq \in [Boxes -> Nat], NEW b \in Boxes
    PROVE  /\ Add(wq, b, 1) \in [Boxes -> Nat]
           /\ wq[b] > 0 => Add(wq, b, -1) \in [Boxes -> Nat]
           /\ \A a \in Boxes : /\ a # b => Add(wq, b, 1)[a] = wq[a] /\ Add(wq, b, -1)[a] = wq[a]
                               /\ Add(wq, b, 1)[b] = wq[b] + 1
BY DEF Add

\* A system call starts: the record of the thread.
LEMMA StartFacts ==
    ASSUME thr \in [Threads -> ThreadType], NEW t \in Threads, NEW x \in ThreadType,
           thr' = [thr EXCEPT ![t] = x]
    PROVE  /\ thr' \in [Threads -> ThreadType]
           /\ \A u \in Threads : u # t => thr'[u] = thr[u]
           /\ thr'[t] = x
OBVIOUS

LEMMA CallAsyncMove ==
    ASSUME Types, NEW t \in Threads, NEW p \in Phones, NEW c \in Calls,
           CallAsync(t, p, c) \/ CallSync(t, p, c) \/ \E q \in Phones : ConnectMeTo(t, p, c, q)
    PROVE  /\ thr' \in [Threads -> ThreadType]
           /\ \A u \in Threads : u # t => thr'[u] = thr[u]
           /\ thr'[t].pc \in {"call", "backsend"} /\ thr'[t].call = c /\ thr'[t].phone = p
           /\ thr'[t].ref = 0 /\ thr'[t].next = "user"
<1>1. PICK pc \in {"call", "backsend"} :
         thr' = [thr EXCEPT ![t] = [User EXCEPT !.pc = pc, !.call = c, !.phone = p]]
  BY DEF CallAsync, CallSync, ConnectMeTo
<1> DEFINE x == [User EXCEPT !.pc = pc, !.call = c, !.phone = p]
<1>2. /\ x \in ThreadType
      /\ x.pc = pc /\ x.call = c /\ x.phone = p /\ x.ref = 0 /\ x.next = "user"
  <2>1. /\ User \in ThreadType /\ 0 \in 0..1 /\ 1 \in 0..1
        /\ {"call", "backsend", "preprocess", "forward", "hangup"} \subseteq SyscallPCs
    BY UserFacts DEF SyscallPCs
  <2>2. x \in ThreadType
    BY <2>1, Nones DEF ThreadType
  <2> QED BY <2>2, <2>1, UserFacts DEF ThreadType
<1>3. thr \in [Threads -> ThreadType]
  BY DEF Types
<1>4. thr' = [thr EXCEPT ![t] = x]
  BY <1>1
<1> HIDE DEF x
<1> QED BY <1>2, <1>3, <1>4, StartFacts

LEMMA AnswerMove ==
    ASSUME Types, NEW t \in Threads, NEW c \in AllCalls,
           (\E rv \in UserRetvals : Answer(t, c, rv)) \/ ForwardRefused(t, c)
    PROVE  /\ thr' \in [Threads -> ThreadType]
           /\ \A u \in Threads : u # t => thr'[u] = thr[u]
           /\ thr'[t].pc = "preprocess" /\ thr'[t].call = c /\ thr'[t].phone = None
           /\ thr'[t].ref = 1 /\ thr'[t].next = "user"
<1>1. thr' = [thr EXCEPT ![t] = [User EXCEPT !.pc = "preprocess", !.call = c, !.ref = 1]]
  BY DEF Answer, ForwardRefused
<1> DEFINE x == [User EXCEPT !.pc = "preprocess", !.call = c, !.ref = 1]
<1>2. /\ x \in ThreadType
      /\ x.pc = "preprocess" /\ x.call = c /\ x.phone = None /\ x.ref = 1 /\ x.next = "user"
  <2>1. /\ User \in ThreadType /\ 0 \in 0..1 /\ 1 \in 0..1
        /\ {"call", "backsend", "preprocess", "forward", "hangup"} \subseteq SyscallPCs
    BY UserFacts DEF SyscallPCs
  <2>2. x \in ThreadType
    BY <2>1, Nones DEF ThreadType
  <2> QED BY <2>2, <2>1, UserFacts DEF ThreadType
<1>3. thr \in [Threads -> ThreadType]
  BY DEF Types
<1>4. thr' = [thr EXCEPT ![t] = x]
  BY <1>1
<1> HIDE DEF x
<1> QED BY <1>2, <1>3, <1>4, StartFacts

LEMMA ForwardMove ==
    ASSUME Types, NEW t \in Threads, NEW c \in AllCalls, NEW p \in Phones, Forward(t, c, p)
    PROVE  /\ thr' \in [Threads -> ThreadType]
           /\ \A u \in Threads : u # t => thr'[u] = thr[u]
           /\ thr'[t].pc = "forward" /\ thr'[t].call = c /\ thr'[t].phone = p
           /\ thr'[t].ref = 1 /\ thr'[t].next = "user"
<1>1. thr' = [thr EXCEPT ![t] = [User EXCEPT !.pc = "forward", !.call = c, !.phone = p, !.ref = 1]]
  BY DEF Forward
<1> DEFINE x == [User EXCEPT !.pc = "forward", !.call = c, !.phone = p, !.ref = 1]
<1>2. /\ x \in ThreadType
      /\ x.pc = "forward" /\ x.call = c /\ x.phone = p /\ x.ref = 1 /\ x.next = "user"
  <2>1. /\ User \in ThreadType /\ 0 \in 0..1 /\ 1 \in 0..1
        /\ {"call", "backsend", "preprocess", "forward", "hangup"} \subseteq SyscallPCs
    BY UserFacts DEF SyscallPCs
  <2>2. x \in ThreadType
    BY <2>1, Nones DEF ThreadType
  <2> QED BY <2>2, <2>1, UserFacts DEF ThreadType
<1>3. thr \in [Threads -> ThreadType]
  BY DEF Types
<1>4. thr' = [thr EXCEPT ![t] = x]
  BY <1>1
<1> HIDE DEF x
<1> QED BY <1>2, <1>3, <1>4, StartFacts

LEMMA SysHangupMove ==
    ASSUME Types, NEW t \in Threads, NEW p \in Phones, SysHangup(t, p)
    PROVE  /\ thr' \in [Threads -> ThreadType]
           /\ \A u \in Threads : u # t => thr'[u] = thr[u]
           /\ thr'[t].pc = "hangup" /\ thr'[t].call = None /\ thr'[t].phone = p
           /\ thr'[t].ref = 0 /\ thr'[t].next = "user"
<1>1. thr' = [thr EXCEPT ![t] = [User EXCEPT !.pc = "hangup", !.phone = p]]
  BY DEF SysHangup
<1> DEFINE x == [User EXCEPT !.pc = "hangup", !.phone = p]
<1>2. /\ x \in ThreadType
      /\ x.pc = "hangup" /\ x.call = None /\ x.phone = p /\ x.ref = 0 /\ x.next = "user"
  <2>1. /\ User \in ThreadType /\ 0 \in 0..1 /\ 1 \in 0..1
        /\ {"call", "backsend", "preprocess", "forward", "hangup"} \subseteq SyscallPCs
    BY UserFacts DEF SyscallPCs
  <2>2. x \in ThreadType
    BY <2>1, Nones DEF ThreadType
  <2> QED BY <2>2, <2>1, UserFacts DEF ThreadType
<1>3. thr \in [Threads -> ThreadType]
  BY DEF Types
<1>4. thr' = [thr EXCEPT ![t] = x]
  BY <1>1
<1> HIDE DEF x
<1> QED BY <1>2, <1>3, <1>4, StartFacts

\* ipc_cleanup() and ipc_wait_for_call() take up a call or a phone.
LEMMA DequeueMove ==
    ASSUME Types, ListInv, NEW t \in Threads, DequeueRequest(t)
    PROVE  /\ thr' \in [Threads -> ThreadType]
           /\ \A u \in Threads : u # t => thr'[u] = thr[u]
           /\ thr'[t].pc = "publish" /\ thr'[t].call = Head(calls[TaskOf[t]])
           /\ thr'[t].phone = thr[t].phone
           /\ thr'[t].ref = thr[t].ref /\ thr'[t].next = thr[t].next
<1>1. thr' = [thr EXCEPT ![t].pc = "publish", ![t].call = Head(calls[TaskOf[t]])]
  BY DEF DequeueRequest
<1>2. thr \in [Threads -> ThreadType] /\ "publish" \in SyscallPCs
  BY DEF Types, SyscallPCs
<1>3. Head(calls[TaskOf[t]]) \in AllCalls
  BY Nones, TakeFrom DEF DequeueRequest, Types, ListInv
<1>4. PICK h \in AllCalls : h = Head(calls[TaskOf[t]])
  BY <1>3
<1> QED BY <1>1, <1>2, <1>4 DEF ThreadType

LEMMA HangAllMove ==
    ASSUME Types, NEW t \in Threads, NEW p \in Phones, HangAll(t, p)
    PROVE  /\ thr' \in [Threads -> ThreadType]
           /\ \A u \in Threads : u # t => thr'[u] = thr[u]
           /\ thr'[t].pc = "hangup" /\ thr'[t].call = thr[t].call /\ thr'[t].phone = p
           /\ thr'[t].ref = thr[t].ref /\ thr'[t].next = thr[t].pc
<1>1. thr' = [thr EXCEPT ![t].pc = "hangup", ![t].phone = p, ![t].next = thr[t].pc]
  BY DEF HangAll
<1>2. thr \in [Threads -> ThreadType] /\ "hangup" \in SyscallPCs
  BY DEF Types, SyscallPCs
<1> QED BY <1>1, <1>2 DEF ThreadType

LEMMA AnswerCallMove ==
    ASSUME Types, NEW t \in Threads, NEW c \in AllCalls, AnswerCall(t, c)
    PROVE  /\ thr' \in [Threads -> ThreadType]
           /\ \A u \in Threads : u # t => thr'[u] = thr[u]
           /\ thr'[t].pc = "preprocess" /\ thr'[t].call = c /\ thr'[t].phone = thr[t].phone
           /\ thr'[t].ref = thr[t].ref /\ thr'[t].next = thr[t].pc
<1>1. thr' = [thr EXCEPT ![t].pc = "preprocess", ![t].call = c, ![t].next = thr[t].pc]
  BY DEF AnswerCall
<1>2. thr \in [Threads -> ThreadType] /\ "preprocess" \in SyscallPCs
  BY DEF Types, SyscallPCs
<1> QED BY <1>1, <1>2 DEF ThreadType

LEMMA RequestTypes ==
    ASSUME IInv, NEW t \in Threads, Request(t)
    PROVE  Types'
<1> USE DEF IInv
<1>0. TaskOf[t] \in Tasks /\ TaskOf[t] \in Boxes
  BY Nones
<1>1. ASSUME NEW p \in Phones, NEW c \in Calls, CallAsync(t, p, c) \/ CallSync(t, p, c)
      PROVE  Types'
  <2>1. thr' \in [Threads -> ThreadType]
    BY <1>1, CallAsyncMove
  <2>2. phone_refs' = Add(phone_refs, p, 1) /\ phone_refs \in [Phones -> Int] /\ 1 \in Int
    BY <1>1 DEF CallAsync, CallSync, Types
  <2>3. phone_refs' \in [Phones -> Int]
    BY <2>2, AddType
  <2>4. call_refs' \in [AllCalls -> Int]
    BY <1>1 DEF CallAsync, CallSync, Types
  <2> QED BY <1>1, <2>1, <2>3, <2>4 DEF CallAsync, CallSync, Types, box
<1>2. ASSUME NEW p \in Phones, NEW c \in Calls, NEW q \in Phones, ConnectMeTo(t, p, c, q)
      PROVE  Types'
  <2>1. thr' \in [Threads -> ThreadType]
    BY <1>2, CallAsyncMove
  <2>2. call_refs' \in [AllCalls -> Int] /\ phone_refs' \in [Phones -> Int]
    <3>1. c \in AllCalls /\ q \in AllCalls
      BY Nones
    <3>2. /\ call_refs' = [call_refs EXCEPT ![c] = 1, ![q] = 1]
          /\ phone_refs' = [phone_refs EXCEPT ![p] = @ + 1, ![q] = 1]
          /\ call_refs \in [AllCalls -> Int] /\ phone_refs \in [Phones -> Int]
      BY <1>2 DEF ConnectMeTo, Types
    <3> QED BY <3>1, <3>2
  <2>3. /\ state' \in [Phones -> PhoneStates] /\ caller' \in [Phones -> Tasks \cup {None}]
        /\ hangup_call' \in [Phones -> BOOLEAN] /\ priv' \in [AllCalls -> Phones \cup {None}]
    BY <1>0, <1>2 DEF ConnectMeTo, Types, PhoneStates
  <2> QED BY <1>2, <2>1, <2>2, <2>3 DEF ConnectMeTo, Types, box
<1>3. ASSUME NEW p \in Phones, NEW c \in AllCalls, Forward(t, c, p) PROVE Types'
  <2>1. thr' \in [Threads -> ThreadType]
    BY <1>3, ForwardMove
  <2>2. phone_refs' = Add(phone_refs, p, 1) /\ phone_refs \in [Phones -> Int] /\ 1 \in Int
    BY <1>3 DEF Forward, Types
  <2>3. phone_refs' \in [Phones -> Int]
    BY <2>2, AddType
  <2>4. call_cap' \in [AllCalls -> Tasks \cup {None}] /\ dispatched' \in [Tasks -> SUBSET AllCalls]
    BY <1>3 DEF Forward, Types
  <2> QED BY <1>3, <2>1, <2>3, <2>4 DEF Forward, Types
<1>4. ASSUME NEW p \in Phones, SysHangup(t, p) PROVE Types'
  <2>1. thr' \in [Threads -> ThreadType]
    BY <1>4, SysHangupMove
  <2>2. phone_cap' \in [Phones -> BOOLEAN]
    BY <1>4 DEF SysHangup, Types
  <2> QED BY <1>4, <2>1, <2>2 DEF SysHangup, Types, box, call
<1>5. ASSUME NEW c \in AllCalls, (\E rv \in UserRetvals : Answer(t, c, rv)) \/ ForwardRefused(t, c)
      PROVE  Types'
  <2>1. thr' \in [Threads -> ThreadType]
    BY <1>5, AnswerMove
  <2>2. call_cap' \in [AllCalls -> Tasks \cup {None}] /\ retval' \in [AllCalls -> Retvals]
    <3>1. PICK rv \in Retvals : /\ retval' = [retval EXCEPT ![c] = rv]
                                /\ call_cap' = [call_cap EXCEPT ![c] = None]
      BY <1>5, IpcAssumption DEF Answer, ForwardRefused, Retvals
    <3> QED BY <3>1 DEF Types
  <2> QED BY <1>5, <2>1, <2>2 DEF Answer, ForwardRefused, Types, box, phone
<1>6. CASE WaitForCall(t)
  <2>1. thr' \in [Threads -> ThreadType]
    BY <1>6, GotoFacts DEF WaitForCall, Types, PCs, SyscallPCs
  <2> QED BY <1>6, <2>1 DEF WaitForCall, Types, box, phone, call
<1>7. CASE Poke(t)
  <2>1. wq' \in [Boxes -> Nat]
    BY <1>0, <1>7, WqType DEF Poke, Types
  <2>2. pokes' \in 0..MaxPokes
    BY <1>7, IpcAssumption DEF Poke, Types
  <2> QED BY <1>7, <2>1, <2>2 DEF Poke, Types, phone, call
<1> QED BY <1>1, <1>2, <1>3, <1>4, <1>5, <1>6, <1>7 DEF Request

\* What the thread has in its hand.
LEMMA HandFacts ==
    ASSUME IInv, NEW t \in Threads
    PROVE  /\ thr \in [Threads -> ThreadType] /\ thr[t] \in ThreadType /\ Shape(thr[t])
           /\ thr[t].pc \in HolderPCs \cup SyncPCs => thr[t].call \in AllCalls
           /\ thr[t].pc \in HolderPCs => Holds(t, thr[t].call)
           /\ thr[t].pc \in SyncPCs => Waits(t, thr[t].call)
           /\ thr[t].pc \in PhonePCs => thr[t].phone \in Phones
           /\ thr[t].phone \in Phones \cup {None}
           /\ thr[t].ref \in {0, 1}
           /\ TaskOf[t] \in Tasks /\ TaskOf[t] \in Boxes /\ t \in Boxes
<1>1. thr \in [Threads -> ThreadType] /\ thr[t] \in ThreadType /\ Shape(thr[t])
  BY DEF IInv, Types, ThreadInv, ThreadOK
<1>2. thr[t].call \in AllCalls \cup {None} /\ thr[t].phone \in Phones \cup {None} /\ thr[t].ref \in {0, 1}
  BY <1>1 DEF ThreadType
<1>3. thr[t].pc \in HolderPCs \cup SyncPCs => thr[t].call \in AllCalls
  BY <1>1, <1>2 DEF Shape
<1>4. thr[t].pc \in PhonePCs => thr[t].phone \in Phones
  BY <1>1 DEF Shape
<1> QED BY <1>1, <1>2, <1>3, <1>4, Nones DEF Holds, Waits

\* The call that the thread has in its hand.
LEMMA HandCall ==
    ASSUME IInv, NEW t \in Threads
    PROVE  LET c == thr[t].call
           IN  /\ thr[t].pc \in {"call", "backsend"} => Unsent(c, t) /\ c \in Calls
               /\ thr[t].pc \in {"publish", "forward", "preprocess", "slam", "deliver"} => Handled(c, t)
               /\ thr[t].pc = "wake" => Answered(c, {t}) \/ Done(c, {t})
               /\ thr[t].pc \in HolderPCs \ {"call", "backsend"} =>
                      Sent(c) /\ caller_phone[c] \in Phones /\ callerbox[c] \in Boxes
               /\ thr[t].pc \in SyncPCs =>
                      /\ c \in SyncCalls /\ ~forget[c] /\ callerbox[c] = t
                      /\ Sent(c) /\ caller_phone[c] \in Phones
<1> DEFINE c == thr[t].call
<1>1. CASE thr[t].pc \in HolderPCs
  <2>1. c \in AllCalls /\ Holds(t, c) /\ CallOK(c)
    BY <1>1, HandFacts DEF IInv, CallInv
  <2>2. /\ thr[t].pc \in {"call", "backsend"} => Unsent(c, t)
        /\ thr[t].pc \in {"publish", "forward", "preprocess", "slam", "deliver"} => Handled(c, t)
        /\ thr[t].pc = "wake" => Answered(c, {t}) \/ Done(c, {t})
    BY <2>1, HeldCall
  <2>3. Handled(c, t) \/ Answered(c, {t}) \/ Done(c, {t}) => Sent(c)
    BY DEF Handled, Answered, Done, Pending, Decided
  <2>4. Sent(c) => caller_phone[c] \in Phones /\ callerbox[c] \in Boxes
    BY DEF Sent, Boxes
  <2>5. thr[t].pc \notin SyncPCs
    BY <1>1 DEF HolderPCs, SyncPCs
  <2>6. Unsent(c, t) => c \in Calls
    BY DEF Unsent
  <2> QED BY <1>1, <2>2, <2>3, <2>4, <2>5, <2>6 DEF HolderPCs
<1>2. CASE thr[t].pc \in SyncPCs
  <2>1. c \in AllCalls /\ Waits(t, c) /\ CallOK(c)
    BY <1>2, HandFacts DEF IInv, CallInv
  <2>2. c \in SyncCalls /\ ~forget[c] /\ callerbox[c] = t /\ Sent(c)
    BY <2>1, WaitedCall
  <2> QED BY <1>2, <2>2 DEF HolderPCs, SyncPCs, Sent
<1>3. CASE thr[t].pc \notin HolderPCs \cup SyncPCs
  BY <1>3 DEF HolderPCs, SyncPCs
<1> QED BY <1>1, <1>2, <1>3

\* The phone that the thread has in its hand.
LEMMA HandPhone ==
    ASSUME IInv, NEW t \in Threads, thr[t].pc \in PhonePCs
    PROVE  /\ thr[t].phone \in Phones /\ PhoneOK(thr[t].phone)
           /\ state[thr[t].phone] = "CONNECTED" => callee[thr[t].phone] \in Tasks /\ callee[thr[t].phone] \in Boxes
           /\ thr[t].pc = "hungup" => /\ lock[thr[t].phone] = t /\ state[thr[t].phone] = "CONNECTED"
                                      /\ ~linked[thr[t].phone] /\ hangup_call[thr[t].phone]
                                      /\ callee[thr[t].phone] \in Tasks
<1>1. thr[t].phone \in Phones
  BY HandFacts
<1>2. PhoneOK(thr[t].phone)
  BY <1>1 DEF IInv, PhoneInv
<1>3. thr[t].pc = "hungup" => lock[thr[t].phone] = t /\ state[thr[t].phone] = "CONNECTED"
  BY DEF IInv, ThreadInv, ThreadOK
<1>4. linked[thr[t].phone] => lock[thr[t].phone] = None
  BY <1>2 DEF PhoneOK
<1> QED BY <1>1, <1>2, <1>3, <1>4, Nones DEF PhoneOK

LEMMA SendTypes ==
    ASSUME IInv, NEW t \in Threads, Send(t) \/ SendRefused(t) \/ Backsend(t) \/ BacksendSync(t)
    PROVE  Types'
<1> DEFINE p == thr[t].phone
           c == thr[t].call
<1>0. Types /\ thr[t].pc \in {"call", "backsend"}
  BY DEF IInv, Send, SendRefused, Backsend, BacksendSync
<1>1. /\ p \in Phones /\ c \in AllCalls /\ c \in Calls /\ thr \in [Threads -> ThreadType]
      /\ TaskOf[t] \in Tasks /\ TaskOf[t] \in Boxes /\ t \in Boxes /\ Shape(thr[t])
      /\ ReplyBox(t, c) \in Boxes
      /\ state[p] = "CONNECTED" => callee[p] \in Tasks /\ callee[p] \in Boxes
  BY <1>0, HandFacts, HandCall, HandPhone DEF HolderPCs, PhonePCs, ReplyBox
<1>2. CASE Send(t)
  <2> DEFINE b == ReplyBox(t, c)
             n == IF c \in SyncCalls THEN 0 ELSE 1
  <2>1. CallActions(p, c, b, n) /\ n \in Int /\ callee[p] \in Tasks /\ callee[p] \in Boxes
    BY <1>1, <1>2 DEF Send
  <2>2. /\ caller_phone' \in [AllCalls -> Phones \cup {None}]
        /\ callerbox' \in [AllCalls -> Boxes \cup {None}]
        /\ active' \in [AllCalls -> BOOLEAN]
        /\ phone_active_calls' \in [Phones -> Int] /\ phone_refs' \in [Phones -> Int]
    <3> HIDE DEF n, b, p, c
    <3> QED BY <1>0, <1>1, <2>1, CallActionsType DEF b
  <2>3. calls' \in [Tasks -> Seq(AllCalls)]
    <3>1. calls' = [calls EXCEPT ![callee[p]] = Append(@, c)] /\ calls \in [Tasks -> Seq(AllCalls)]
      BY <1>0, <1>2 DEF Send, Types
    <3> HIDE DEF p, c
    <3> QED BY <1>1, <2>1, <3>1, PutIn
  <2>4. wq' \in [Boxes -> Nat]
    BY <1>0, <1>2, <2>1, WqType DEF Send, Types
  <2>5. box_active_calls' \in [Boxes -> Int]
    <3>1. /\ box_active_calls' = Add(box_active_calls, b, 1) /\ 1 \in Int
          /\ box_active_calls \in [Boxes -> Int]
      BY <1>0, <1>2 DEF Send, Types
    <3> QED BY <3>1, AddType
  <2>6. active_calls' \in [Tasks -> SUBSET AllCalls]
    BY <1>0, <1>1, <1>2 DEF Send, Types
  <2>7. thr' \in [Threads -> ThreadType]
    <3>1. Goto(t, "sync") \/ Return(t)
      BY <1>2 DEF Send
    <3>2. "sync" \in PCs
      BY DEF PCs, SyscallPCs
    <3> QED BY <1>1, <3>1, <3>2, GotoFacts, ReturnFacts
  <2> QED BY <1>0, <1>2, <2>2, <2>3, <2>4, <2>5, <2>6, <2>7 DEF Send, Types
<1>3. CASE SendRefused(t)
  <2>1. thr' \in [Threads -> ThreadType]
    BY <1>1, <1>3, GotoFacts DEF SendRefused, PCs, SyscallPCs
  <2> QED BY <1>0, <1>3, <2>1 DEF SendRefused, Types, box, phone, call
<1>4. CASE Backsend(t)
  <2> DEFINE k == TaskOf[t]
  <2>1. CallActions(p, c, k, 1) /\ 1 \in Int
    BY <1>4 DEF Backsend
  <2>2. /\ caller_phone' \in [AllCalls -> Phones \cup {None}]
        /\ callerbox' \in [AllCalls -> Boxes \cup {None}]
        /\ active' \in [AllCalls -> BOOLEAN]
        /\ phone_active_calls' \in [Phones -> Int] /\ phone_refs' \in [Phones -> Int]
    <3> HIDE DEF p, c
    <3> QED BY <1>0, <1>1, <2>1, CallActionsType
  <2>3. answers' \in [Boxes -> Seq(AllCalls)]
    <3>1. answers' = [answers EXCEPT ![k] = Append(@, c)] /\ answers \in [Boxes -> Seq(AllCalls)]
      BY <1>0, <1>4 DEF Backsend, Types
    <3> HIDE DEF c
    <3> QED BY <1>1, <3>1, PutIn
  <2>4. wq' \in [Boxes -> Nat]
    BY <1>0, <1>1, <1>4, WqType DEF Backsend, Types
  <2>5. box_active_calls' \in [Boxes -> Int] /\ retval' \in [AllCalls -> Retvals]
    <3>1. /\ box_active_calls' = Add(box_active_calls, k, 1) /\ 1 \in Int
          /\ box_active_calls \in [Boxes -> Int]
          /\ retval' = [retval EXCEPT ![c] = "error"] /\ retval \in [AllCalls -> Retvals]
      BY <1>0, <1>4 DEF Backsend, Types
    <3>2. "error" \in Retvals
      BY DEF Retvals
    <3>3. retval' \in [AllCalls -> Retvals]
      BY <3>1, <3>2
    <3> QED BY <3>1, <3>3, AddType
  <2>6. thr' \in [Threads -> ThreadType]
    BY <1>1, <1>4, ReturnFacts DEF Backsend
  <2> QED BY <1>0, <1>4, <2>2, <2>3, <2>4, <2>5, <2>6 DEF Backsend, Types
<1>5. CASE BacksendSync(t)
  <2>1. CallActions(p, c, t, 2) /\ 2 \in Int
    BY <1>5 DEF BacksendSync
  <2>2. /\ caller_phone' \in [AllCalls -> Phones \cup {None}]
        /\ callerbox' \in [AllCalls -> Boxes \cup {None}]
        /\ active' \in [AllCalls -> BOOLEAN]
        /\ phone_active_calls' \in [Phones -> Int] /\ phone_refs' \in [Phones -> Int]
    <3> HIDE DEF p, c
    <3> QED BY <1>0, <1>1, <2>1, CallActionsType
  <2>3. call_refs' \in [AllCalls -> Int]
    <3>1. call_refs' = Add(call_refs, c, -2) /\ -2 \in Int /\ call_refs \in [AllCalls -> Int]
      BY <1>0, <1>5 DEF BacksendSync, Types
    <3> QED BY <3>1, AddType
  <2>4. thr' \in [Threads -> ThreadType]
    BY <1>1, <1>5, ReturnFacts DEF BacksendSync
  <2> QED BY <1>0, <1>5, <2>2, <2>3, <2>4 DEF BacksendSync, Types, box
<1> QED BY <1>2, <1>3, <1>4, <1>5

LEMMA ReceiveTypes ==
    ASSUME IInv, NEW t \in Threads,
           \/ Wakeup(t) \/ WaitFails(t) \/ DequeueAnswer(t) \/ DequeueRequest(t)
           \/ DequeueNothing(t) \/ Publish(t) \/ PublishFails(t)
    PROVE  Types'
<1> DEFINE k == TaskOf[t]
<1>0. Types /\ ListInv
  BY DEF IInv
<1>1. /\ thr \in [Threads -> ThreadType] /\ k \in Tasks /\ k \in Boxes /\ Shape(thr[t])
      /\ {"dequeue", "wait", "preprocess"} \subseteq PCs
  BY HandFacts DEF PCs, SyscallPCs
<1>2. CASE Wakeup(t)
  <2>1. wq' \in [Boxes -> Nat]
    BY <1>0, <1>1, <1>2, WqType DEF Wakeup, Types
  <2>2. thr' \in [Threads -> ThreadType]
    BY <1>1, <1>2, GotoFacts DEF Wakeup
  <2> QED BY <1>0, <1>2, <2>1, <2>2 DEF Wakeup, Types, phone, call
<1>3. CASE WaitFails(t) \/ DequeueNothing(t)
  <2>1. thr' \in [Threads -> ThreadType]
    BY <1>1, <1>3, ReturnFacts DEF WaitFails, DequeueNothing
  <2> QED BY <1>0, <1>3, <2>1 DEF WaitFails, DequeueNothing, Types, box, phone, call
<1>4. CASE DequeueAnswer(t)
  <2>1. answers[k] # <<>> /\ ReceiveAnswer(k, 1, None) /\ 1 \in Int
    BY <1>4 DEF DequeueAnswer
  <2>2. /\ answers' \in [Boxes -> Seq(AllCalls)]
        /\ phone_active_calls' \in [Phones -> Int] /\ box_active_calls' \in [Boxes -> Int]
        /\ priv' \in [AllCalls -> Phones \cup {None}]
        /\ phone_cap' \in [Phones -> BOOLEAN]
        /\ call_refs' \in [AllCalls -> Int] /\ phone_refs' \in [Phones -> Int]
        /\ retval' \in [AllCalls -> Retvals]
    BY <1>0, <1>1, <2>1, ReceiveType
  <2>3. thr' \in [Threads -> ThreadType]
    <3>1. Goto(t, "wait") \/ Return(t)
      BY <1>4 DEF DequeueAnswer
    <3> QED BY <1>1, <3>1, GotoFacts, ReturnFacts
  <2> QED BY <1>0, <1>4, <2>2, <2>3 DEF DequeueAnswer, Types
<1>5. CASE DequeueRequest(t)
  <2>1. thr' \in [Threads -> ThreadType]
    BY <1>0, <1>5, DequeueMove
  <2>2. calls[k] # <<>> /\ calls' = [calls EXCEPT ![k] = Tail(@)]
    BY <1>5 DEF DequeueRequest
  <2>3. calls' \in [Tasks -> Seq(AllCalls)] /\ Head(calls[k]) \in AllCalls
    BY <1>0, <1>1, <2>2, TakeFrom DEF Types, ListInv
  <2>4. dispatched' \in [Tasks -> SUBSET AllCalls]
    BY <1>0, <1>1, <1>5, <2>3 DEF DequeueRequest, Types
  <2> QED BY <1>0, <1>5, <2>1, <2>3, <2>4 DEF DequeueRequest, Types, phone, call
<1>6. CASE Publish(t)
  <2>1. thr' \in [Threads -> ThreadType]
    BY <1>1, <1>6, ReturnFacts DEF Publish
  <2>2. call_refs' \in [AllCalls -> Int]
    <3>1. call_refs' = Add(call_refs, thr[t].call, 1) /\ 1 \in Int /\ call_refs \in [AllCalls -> Int]
      BY <1>0, <1>6 DEF Publish, Types
    <3> QED BY <3>1, AddType
  <2>3. call_cap' \in [AllCalls -> Tasks \cup {None}]
    BY <1>0, <1>1, <1>6 DEF Publish, Types
  <2> QED BY <1>0, <1>6, <2>1, <2>2, <2>3 DEF Publish, Types, box, phone
<1>7. CASE PublishFails(t)
  <2>1. thr' \in [Threads -> ThreadType]
    BY <1>1, <1>7, GotoFacts DEF PublishFails
  <2>2. retval' \in [AllCalls -> Retvals]
    BY <1>0, <1>7 DEF PublishFails, Types, Retvals
  <2> QED BY <1>0, <1>7, <2>1, <2>2 DEF PublishFails, Types, box, phone
<1> QED BY <1>2, <1>3, <1>4, <1>5, <1>6, <1>7

LEMMA AnswerTypes ==
    ASSUME IInv, NEW t \in Threads,
           \/ Preprocess(t) \/ PreprocessForgotten(t) \/ SlamCaller(t)
           \/ Deliver(t) \/ Discard(t) \/ Wake(t) \/ ForwardSend(t) \/ ForwardFails(t)
    PROVE  Types'
<1> DEFINE c == thr[t].call
           p == thr[t].phone
<1>0. Types /\ ListInv /\ thr[t].pc \in {"preprocess", "slam", "deliver", "wake", "forward"}
  BY DEF IInv, Preprocess, PreprocessForgotten, SlamCaller, Deliver, Discard, Wake, ForwardSend,
         ForwardFails
<1>1. /\ thr \in [Threads -> ThreadType] /\ Shape(thr[t])
      /\ TaskOf[t] \in Tasks /\ TaskOf[t] \in Boxes /\ t \in Boxes
      /\ c \in AllCalls /\ caller_phone[c] \in Phones /\ callerbox[c] \in Boxes
      /\ thr[t].ref \in {0, 1}
      /\ {"deliver", "wake", "preprocess", "slam"} \subseteq PCs
  BY <1>0, HandFacts, HandCall DEF HolderPCs, PCs, SyscallPCs
<1>2. /\ phone_refs \in [Phones -> Int] /\ call_refs \in [AllCalls -> Int]
      /\ Put(phone_refs, p) \in [Phones -> Int]
      /\ \A k \in Tasks : dispatched[k] \ {c} \in SUBSET AllCalls
      /\ \A q, n : n \in Int => Add(phone_refs, q, n) \in [Phones -> Int]
  BY <1>0, PutType, AddType DEF Types
<1>3. CASE Preprocess(t)
  <2> DEFINE q == priv[c]
             connect == /\ q # None /\ retval[c] = "EOK"
                        /\ box_active[TaskOf[t]] /\ state[q] = "CONNECTING"
  <2>1. thr' \in [Threads -> ThreadType]
    <3>1. Goto(t, "slam") \/ Goto(t, "deliver")
      BY <1>3 DEF Preprocess
    <3> QED BY <1>1, <3>1, GotoFacts
  <2>2. active' \in [AllCalls -> BOOLEAN] /\ active_calls' \in [Tasks -> SUBSET AllCalls]
    BY <1>0, <1>3 DEF Preprocess, Types
  <2>3. /\ state' \in [Phones -> PhoneStates] /\ callee' \in [Phones -> Tasks \cup {None}]
        /\ linked' \in [Phones -> BOOLEAN] /\ phone_refs' \in [Phones -> Int]
    <3>1. CASE connect
      <4>1. q \in Phones
        BY <1>0, <1>1, <3>1 DEF Types
      <4>2. /\ state' = [state EXCEPT ![q] = "CONNECTED"]
            /\ callee' = [callee EXCEPT ![q] = TaskOf[t]]
            /\ linked' = [linked EXCEPT ![q] = TRUE]
            /\ phone_refs' = Add(phone_refs, q, 1)
        BY <1>3, <3>1 DEF Preprocess
      <4>3. "CONNECTED" \in PhoneStates
        BY DEF PhoneStates
      <4>4. 1 \in Int
        OBVIOUS
      <4>5. phone_refs' \in [Phones -> Int]
        BY <1>2, <4>2, <4>4, AddType
      <4> HIDE DEF q
      <4> QED BY <1>0, <1>1, <4>1, <4>2, <4>3, <4>5 DEF Types
    <3>2. CASE ~connect
      <4>1. UNCHANGED <<state, callee, linked, phone_refs>>
        BY <1>3, <3>2 DEF Preprocess
      <4> QED BY <1>0, <4>1 DEF Types
    <3> QED BY <3>1, <3>2
  <2> QED BY <1>0, <1>3, <2>1, <2>2, <2>3 DEF Preprocess, Types, box
<1>4. CASE PreprocessForgotten(t)
  <2>1. thr' \in [Threads -> ThreadType]
    BY <1>1, <1>4, GotoFacts DEF PreprocessForgotten
  <2> QED BY <1>0, <1>4, <2>1 DEF PreprocessForgotten, Types, box, phone, call
<1>5. CASE SlamCaller(t)
  <2> DEFINE q == caller_phone[c]
  <2>1. thr' \in [Threads -> ThreadType]
    BY <1>1, <1>5, GotoFacts DEF SlamCaller
  <2>2. /\ state' \in [Phones -> PhoneStates]
        /\ linked' \in [Phones -> BOOLEAN] /\ phone_refs' \in [Phones -> Int]
    <3>1. CASE state[q] = "CONNECTED"
      <4>1. /\ state' = [state EXCEPT ![q] = "SLAMMED"]
            /\ linked' = [linked EXCEPT ![q] = FALSE]
            /\ phone_refs' = Add(phone_refs, q, -1)
        BY <1>5, <3>1 DEF SlamCaller
      <4>2. "SLAMMED" \in PhoneStates
        BY DEF PhoneStates
      <4>3. -1 \in Int
        OBVIOUS
      <4>4. phone_refs' \in [Phones -> Int]
        BY <1>2, <4>1, <4>3, AddType
      <4> HIDE DEF q
      <4> QED BY <1>0, <4>1, <4>2, <4>4 DEF Types
    <3>2. CASE state[q] # "CONNECTED"
      BY <1>0, <1>5, <3>2 DEF SlamCaller, Types
    <3> QED BY <3>1, <3>2
  <2> QED BY <1>0, <1>5, <2>1, <2>2 DEF SlamCaller, Types, box, call
<1>6. CASE Deliver(t)
  <2>1. thr' \in [Threads -> ThreadType]
    BY <1>1, <1>6, GotoFacts DEF Deliver
  <2>2. dispatched' \in [Tasks -> SUBSET AllCalls]
    BY <1>0, <1>1, <1>2, <1>6 DEF Deliver, Types
  <2>3. answers' = [answers EXCEPT ![callerbox[c]] = Append(@, c)]
    BY <1>6 DEF Deliver
  <2>4. answers' \in [Boxes -> Seq(AllCalls)]
    <3> HIDE DEF c
    <3> QED BY <1>0, <1>1, <2>3, PutIn DEF Types
  <2> QED BY <1>0, <1>6, <2>1, <2>2, <2>4 DEF Deliver, Types, phone, call
<1>7. CASE Discard(t)
  <2>1. thr' \in [Threads -> ThreadType]
    BY <1>1, <1>7, ReturnFacts DEF Discard
  <2>2. dispatched' \in [Tasks -> SUBSET AllCalls]
    BY <1>0, <1>1, <1>2, <1>7 DEF Discard, Types
  <2>3. PutCall(c, 1 + thr[t].ref, Put(phone_refs, p)) /\ 1 + thr[t].ref \in Int
    BY <1>1, <1>7 DEF Discard
  <2>4. /\ call_refs' \in [AllCalls -> Int] /\ phone_refs' \in [Phones -> Int]
        /\ retval' \in [AllCalls -> Retvals]
    <3> HIDE DEF c, p
    <3> QED BY <1>0, <1>2, <2>3, PutCallType
  <2> QED BY <1>0, <1>7, <2>1, <2>2, <2>4 DEF Discard, Types
<1>8. CASE Wake(t)
  <2>1. thr' \in [Threads -> ThreadType]
    BY <1>1, <1>8, ReturnFacts DEF Wake
  <2>2. wq' \in [Boxes -> Nat]
    BY <1>0, <1>1, <1>8, WqType DEF Wake, Types
  <2>3. /\ call_refs' \in [AllCalls -> Int] /\ phone_refs' \in [Phones -> Int]
        /\ retval' \in [AllCalls -> Retvals]
    <3>1. CASE thr[t].ref = 1
      <4>1. PutCall(c, 1, Put(phone_refs, p)) /\ 1 \in Int
        BY <1>8, <3>1 DEF Wake
      <4> HIDE DEF c, p
      <4> QED BY <1>0, <1>2, <4>1, PutCallType
    <3>2. CASE thr[t].ref # 1
      BY <1>0, <1>8, <3>2 DEF Wake, Types
    <3> QED BY <3>1, <3>2
  <2> QED BY <1>0, <1>8, <2>1, <2>2, <2>3 DEF Wake, Types
<1>9. CASE ForwardSend(t)
  <2>1. thr' \in [Threads -> ThreadType]
    BY <1>1, <1>9, ReturnFacts DEF ForwardSend
  <2>2. callee[p] \in Tasks /\ callee[p] \in Boxes
    BY <1>9, HandPhone DEF ForwardSend, PhonePCs
  <2>3. wq' \in [Boxes -> Nat]
    BY <1>0, <2>2, <1>9, WqType DEF ForwardSend, Types
  <2>4. calls' = [calls EXCEPT ![callee[p]] = Append(@, c)]
    BY <1>9 DEF ForwardSend
  <2>5. calls' \in [Tasks -> Seq(AllCalls)]
    <3> HIDE DEF c, p
    <3> QED BY <1>0, <1>1, <2>2, <2>4, PutIn DEF Types
  <2>6. PutCall(c, 1, Put(phone_refs, p)) /\ 1 \in Int
    BY <1>9 DEF ForwardSend
  <2>7. /\ call_refs' \in [AllCalls -> Int] /\ phone_refs' \in [Phones -> Int]
        /\ retval' \in [AllCalls -> Retvals]
    <3> HIDE DEF c, p
    <3> QED BY <1>0, <1>2, <2>6, PutCallType
  <2> QED BY <1>0, <1>9, <2>1, <2>3, <2>5, <2>7 DEF ForwardSend, Types
<1>10. CASE ForwardFails(t)
  <2>1. thr' \in [Threads -> ThreadType]
    BY <1>1, <1>10, GotoFacts DEF ForwardFails
  <2>2. retval' = [retval EXCEPT ![c] = "error"]
    BY <1>10 DEF ForwardFails
  <2>3. retval' \in [AllCalls -> Retvals]
    <3>1. "error" \in Retvals
      BY DEF Retvals
    <3> QED BY <1>0, <2>2, <3>1 DEF Types
  <2> QED BY <1>0, <1>10, <2>1, <2>3 DEF ForwardFails, Types, box, phone
<1> QED BY <1>3, <1>4, <1>5, <1>6, <1>7, <1>8, <1>9, <1>10

LEMMA SyncTypes ==
    ASSUME IInv, NEW t \in Threads,
           \/ SyncReceive(t) \/ SyncInterrupted(t) \/ SyncForget(t) \/ SyncAnswered(t)
    PROVE  Types'
<1> DEFINE c == thr[t].call
           p == thr[t].phone
<1>0. Types /\ ListInv /\ thr[t].pc \in {"sync", "race", "answered"}
  BY DEF IInv, SyncReceive, SyncInterrupted, SyncForget, SyncAnswered
<1>1. /\ thr \in [Threads -> ThreadType] /\ Shape(thr[t])
      /\ TaskOf[t] \in Tasks /\ TaskOf[t] \in Boxes /\ t \in Boxes
      /\ {"race", "answered"} \subseteq PCs
  BY <1>0, HandFacts, HandCall DEF SyncPCs, PCs, SyscallPCs
<1>2. CASE SyncReceive(t)
  <2>1. thr' \in [Threads -> ThreadType]
    BY <1>1, <1>2, ReturnFacts DEF SyncReceive
  <2>2. wq' \in [Boxes -> Nat]
    BY <1>0, <1>1, <1>2 DEF SyncReceive, FreeMybox, Types
  <2>3. answers[t] # <<>>
    BY <1>0, <1>2 DEF SyncReceive, ListInv
  <2>4. ReceiveAnswer(t, 2, p) /\ 2 \in Int
    BY <1>2 DEF SyncReceive
  <2>5. /\ answers' \in [Boxes -> Seq(AllCalls)]
        /\ phone_active_calls' \in [Phones -> Int] /\ box_active_calls' \in [Boxes -> Int]
        /\ priv' \in [AllCalls -> Phones \cup {None}]
        /\ phone_cap' \in [Phones -> BOOLEAN]
        /\ call_refs' \in [AllCalls -> Int] /\ phone_refs' \in [Phones -> Int]
        /\ retval' \in [AllCalls -> Retvals]
    <3> HIDE DEF p
    <3> QED BY <1>0, <1>1, <2>3, <2>4, ReceiveType
  <2> QED BY <1>0, <1>2, <2>1, <2>2, <2>5 DEF SyncReceive, Types
<1>3. CASE SyncInterrupted(t) \/ SyncAnswered(t)
  <2>1. thr' \in [Threads -> ThreadType]
    BY <1>1, <1>3, GotoFacts DEF SyncInterrupted, SyncAnswered
  <2> QED BY <1>0, <1>3, <2>1 DEF SyncInterrupted, SyncAnswered, Types, box, phone, call
<1>4. CASE SyncForget(t)
  <2> DEFINE f == FreeMybox(box_active_calls, t, 0)
             g == Put(ForgetPuts(c), p)
  <2>1. thr' \in [Threads -> ThreadType]
    BY <1>1, <1>4, ReturnFacts DEF SyncForget
  <2>2. ForgetCall(TaskOf[t], c, f) /\ PutCall(c, 1, g) /\ 1 \in Int /\ -1 \in Int
    BY <1>4 DEF SyncForget
  <2>3. f \in [Boxes -> Int]
    <3>1. /\ f = [box_active_calls EXCEPT ![t] = 0]
          /\ box_active_calls \in [Boxes -> Int] /\ 0 \in Int
      BY <1>0 DEF FreeMybox, Types
    <3> HIDE DEF f
    <3> QED BY <3>1
  <2>4. g \in [Phones -> Int]
    <3>1. ForgetPuts(c) \in [Phones -> Int]
      <4> HIDE DEF c
      <4> QED BY <1>0, PutType DEF ForgetPuts, Types
    <3> QED BY <3>1, PutType
  <2>5. /\ call_refs' \in [AllCalls -> Int] /\ phone_refs' \in [Phones -> Int]
        /\ retval' \in [AllCalls -> Retvals]
    <3> HIDE DEF c, g
    <3> QED BY <1>0, <2>2, <2>4, PutCallType
  <2>6. /\ box_active_calls' = Add(f, TaskOf[t], -1)
        /\ phone_active_calls' = Add(phone_active_calls, caller_phone[c], -1)
        /\ phone_active_calls \in [Phones -> Int]
    BY <1>0, <2>2 DEF ForgetCall, Types
  <2>7. box_active_calls' \in [Boxes -> Int] /\ phone_active_calls' \in [Phones -> Int]
    <3> HIDE DEF f, c
    <3> QED BY <2>2, <2>3, <2>6, AddType
  <2>8. /\ forget' \in [AllCalls -> BOOLEAN] /\ active_calls' \in [Tasks -> SUBSET AllCalls]
        /\ priv' \in [AllCalls -> Phones \cup {None}]
    BY <1>0, <2>2 DEF ForgetCall, Types
  <2> QED BY <1>0, <1>4, <2>1, <2>5, <2>7, <2>8 DEF SyncForget, Types
<1> QED BY <1>2, <1>3, <1>4

LEMMA HangupTypes ==
    ASSUME IInv, NEW t \in Threads, Unlist(t) \/ SendHungup(t) \/ HangupSlammed(t)
    PROVE  Types'
<1> DEFINE p == thr[t].phone
           k == TaskOf[t]
<1>0. Types /\ thr[t].pc \in {"hangup", "hungup"}
  BY DEF IInv, Unlist, SendHungup, HangupSlammed
<1>1. /\ thr \in [Threads -> ThreadType] /\ Shape(thr[t])
      /\ k \in Tasks /\ k \in Boxes /\ "hungup" \in PCs
      /\ p \in Phones /\ p \in AllCalls
      /\ state[p] = "CONNECTED" => callee[p] \in Tasks /\ callee[p] \in Boxes
      /\ -1 \in Int /\ 1 \in Int
      /\ phone_refs \in [Phones -> Int] /\ box_active_calls \in [Boxes -> Int]
  BY <1>0, HandFacts, HandPhone, Nones DEF PhonePCs, PCs, SyscallPCs, Types
<1>2. CASE Unlist(t)
  <2>1. thr' \in [Threads -> ThreadType]
    BY <1>1, <1>2, GotoFacts DEF Unlist
  <2>2. phone_refs' = Add(phone_refs, p, -1)
    BY <1>2 DEF Unlist
  <2>3. phone_refs' \in [Phones -> Int]
    BY <1>1, <2>2, AddType
  <2>4. lock' \in [Phones -> Threads \cup {None}] /\ linked' \in [Phones -> BOOLEAN]
    BY <1>0, <1>2 DEF Unlist, Types
  <2> QED BY <1>0, <1>2, <2>1, <2>3, <2>4 DEF Unlist, Types, box, call
<1>3. CASE HangupSlammed(t)
  <2>1. thr' \in [Threads -> ThreadType]
    BY <1>1, <1>3, ReturnFacts DEF HangupSlammed
  <2>2. phone_refs' = Add(phone_refs, p, -1)
    BY <1>3 DEF HangupSlammed
  <2>3. phone_refs' \in [Phones -> Int]
    BY <1>1, <2>2, AddType
  <2>4. state' \in [Phones -> PhoneStates]
    BY <1>0, <1>1, <1>3 DEF HangupSlammed, Types, PhoneStates
  <2> QED BY <1>0, <1>3, <2>1, <2>3, <2>4 DEF HangupSlammed, Types, box, call
<1>4. CASE SendHungup(t)
  <2>1. thr' \in [Threads -> ThreadType]
    BY <1>1, <1>4, ReturnFacts DEF SendHungup
  <2>2. CallActions(p, p, k, 1) /\ callee[p] \in Tasks /\ callee[p] \in Boxes
    BY <1>1, <1>4, HandPhone DEF SendHungup, PhonePCs
  <2>3. /\ caller_phone' \in [AllCalls -> Phones \cup {None}]
        /\ callerbox' \in [AllCalls -> Boxes \cup {None}]
        /\ active' \in [AllCalls -> BOOLEAN]
        /\ phone_active_calls' \in [Phones -> Int] /\ phone_refs' \in [Phones -> Int]
    <3> HIDE DEF p, k
    <3> QED BY <1>0, <1>1, <2>2, CallActionsType
  <2>4. box_active_calls' = Add(box_active_calls, k, 1)
    BY <1>4 DEF SendHungup
  <2>5. box_active_calls' \in [Boxes -> Int]
    BY <1>1, <2>4, AddType
  <2>6. calls' = [calls EXCEPT ![callee[p]] = Append(@, p)]
    BY <1>4 DEF SendHungup
  <2>7. calls' \in [Tasks -> Seq(AllCalls)]
    <3> HIDE DEF p
    <3> QED BY <1>0, <1>1, <2>2, <2>6, PutIn DEF Types
  <2>8. wq' \in [Boxes -> Nat]
    BY <1>0, <1>4, <2>2, WqType DEF SendHungup, Types
  <2>9. /\ hangup_call' \in [Phones -> BOOLEAN] /\ active_calls' \in [Tasks -> SUBSET AllCalls]
    BY <1>0, <1>1, <1>4 DEF SendHungup, Types
  <2>10. state' \in [Phones -> PhoneStates] /\ lock' \in [Phones -> Threads \cup {None}]
    BY <1>0, <1>1, <1>4 DEF SendHungup, Types, PhoneStates
  <2> QED BY <1>0, <1>4, <2>1, <2>3, <2>5, <2>7, <2>8, <2>9, <2>10 DEF SendHungup, Types
<1> QED BY <1>2, <1>3, <1>4

LEMMA CleanupTypes ==
    ASSUME IInv, NEW t \in Threads, CleanupStep(t)
    PROVE  Types'
<1> DEFINE k == TaskOf[t]
<1>0. Types /\ ListInv
  BY DEF IInv
<1>1. /\ thr \in [Threads -> ThreadType] /\ Shape(thr[t])
      /\ k \in Tasks /\ k \in Boxes
      /\ CleanupPCs \subseteq PCs
      /\ -1 \in Int /\ 1 \in Int
      /\ phone_refs \in [Phones -> Int] /\ box_active_calls \in [Boxes -> Int]
  BY <1>0, HandFacts DEF PCs, Types
<1>2. CASE \/ Leave(t) \/ HangAllDone(t) \/ CleanupDone(t) \/ ForgetAllDone(t)
           \/ WaitAllDone(t) \/ WaitAllNothing(t)
  <2>1. \E q \in CleanupPCs : Goto(t, q)
    BY <1>2 DEF Leave, HangAllDone, CleanupDone, ForgetAllDone, WaitAllDone, WaitAllNothing,
                CleanupPCs
  <2>2. thr' \in [Threads -> ThreadType]
    BY <1>1, <2>1, GotoFacts
  <2>3. UNCHANGED <<box, phone, call, active_calls, interrupted, pokes>>
    BY <1>2 DEF Leave, HangAllDone, CleanupDone, ForgetAllDone, WaitAllDone, WaitAllNothing
  <2> QED BY <1>0, <2>2, <2>3 DEF Types, box, phone, call
<1>3. CASE Exit(t)
  <2>1. \E q \in CleanupPCs : Goto(t, q)
    BY <1>3 DEF Exit, CleanupPCs
  <2>2. thr' \in [Threads -> ThreadType]
    BY <1>1, <2>1, GotoFacts
  <2>3. box_active' \in [Tasks -> BOOLEAN]
    BY <1>0, <1>1, <1>3 DEF Exit, Types
  <2> QED BY <1>0, <1>3, <2>2, <2>3 DEF Exit, Types, phone, call
<1>4. CASE SlamDone(t)
  <2>1. thr' \in [Threads -> ThreadType]
    BY <1>1, <1>4, GotoFacts DEF SlamDone, CleanupPCs
  <2>2. call_refs' \in [AllCalls -> Int] /\ call_cap' \in [AllCalls -> Tasks \cup {None}]
    BY <1>0, <1>4 DEF SlamDone, Types
  <2> QED BY <1>0, <1>4, <2>1, <2>2 DEF SlamDone, Types, box, phone
<1>5. ASSUME NEW p \in Phones, HangAll(t, p) PROVE Types'
  <2>1. thr' \in [Threads -> ThreadType]
    BY <1>0, <1>5, HangAllMove
  <2>2. phone_cap' \in [Phones -> BOOLEAN]
    BY <1>0, <1>5 DEF HangAll, Types
  <2> QED BY <1>0, <1>5, <2>1, <2>2 DEF HangAll, Types, box, call
<1>6. ASSUME NEW p \in Phones, SlamPhone(t, p) PROVE Types'
  <2>1. phone_refs' = Add(phone_refs, p, -1)
    BY <1>6 DEF SlamPhone
  <2>2. phone_refs' \in [Phones -> Int]
    BY <1>1, <2>1, AddType
  <2>3. state' \in [Phones -> PhoneStates] /\ linked' \in [Phones -> BOOLEAN]
    BY <1>0, <1>6 DEF SlamPhone, Types, PhoneStates
  <2> QED BY <1>0, <1>6, <2>2, <2>3 DEF SlamPhone, Types, box, call
<1>7. ASSUME NEW c \in AllCalls, AnswerCall(t, c),
             calls' \in [Tasks -> Seq(AllCalls)], dispatched' \in [Tasks -> SUBSET AllCalls]
      PROVE  Types'
  <2>1. thr' \in [Threads -> ThreadType]
    BY <1>0, <1>7, AnswerCallMove
  <2>2. retval' \in [AllCalls -> Retvals]
    <3>1. "EHANGUP" \in Retvals
      BY DEF Retvals
    <3> QED BY <1>0, <1>7, <3>1 DEF AnswerCall, Types
  <2> QED BY <1>0, <1>7, <2>1, <2>2 DEF AnswerCall, Types, phone
<1>8. CASE CleanupCalls(t)
  <2>1. /\ calls[k] # <<>> /\ calls' = [calls EXCEPT ![k] = Tail(@)]
        /\ AnswerCall(t, Head(calls[k])) /\ dispatched' = dispatched
    BY <1>8 DEF CleanupCalls
  <2>2. calls' \in [Tasks -> Seq(AllCalls)] /\ Head(calls[k]) \in AllCalls
    BY <1>0, <1>1, <2>1, TakeFrom DEF Types, ListInv
  <2>3. dispatched' \in [Tasks -> SUBSET AllCalls]
    BY <1>0, <2>1 DEF Types
  <2> QED BY <1>7, <2>1, <2>2, <2>3
<1>9. ASSUME NEW c \in AllCalls, CleanupDispatched(t, c) PROVE Types'
  <2>1. calls' \in [Tasks -> Seq(AllCalls)] /\ dispatched' \in [Tasks -> SUBSET AllCalls]
    BY <1>0, <1>9 DEF CleanupDispatched, Types
  <2> QED BY <1>7, <1>9, <2>1 DEF CleanupDispatched
<1>10. ASSUME NEW c \in AllCalls, ForgetAll(t, c) PROVE Types'
  <2>1. ForgetCall(k, c, box_active_calls) /\ phone_refs' = ForgetPuts(c)
    BY <1>10 DEF ForgetAll
  <2>2. ForgetPuts(c) \in [Phones -> Int]
    BY <1>1, PutType DEF ForgetPuts
  <2>3. /\ box_active_calls' = Add(box_active_calls, k, -1)
        /\ phone_active_calls' = Add(phone_active_calls, caller_phone[c], -1)
        /\ phone_active_calls \in [Phones -> Int]
    BY <1>0, <2>1 DEF ForgetCall, Types
  <2>4. box_active_calls' \in [Boxes -> Int] /\ phone_active_calls' \in [Phones -> Int]
    BY <1>1, <2>3, AddType
  <2>5. /\ forget' \in [AllCalls -> BOOLEAN] /\ active_calls' \in [Tasks -> SUBSET AllCalls]
        /\ priv' \in [AllCalls -> Phones \cup {None}]
    BY <1>0, <2>1 DEF ForgetCall, Types
  <2> QED BY <1>0, <1>10, <2>1, <2>2, <2>4, <2>5 DEF ForgetAll, Types
<1>11. CASE WaitAll(t)
  <2>1. thr' \in [Threads -> ThreadType]
    BY <1>1, <1>11, GotoFacts DEF WaitAll, CleanupPCs
  <2>2. wq' \in [Boxes -> Nat]
    BY <1>0, <1>1, <1>11, WqType DEF WaitAll, Types
  <2> QED BY <1>0, <1>11, <2>1, <2>2 DEF WaitAll, Types, phone, call
<1>12. CASE WaitAllAnswer(t)
  <2>1. thr' \in [Threads -> ThreadType]
    BY <1>1, <1>12, GotoFacts DEF WaitAllAnswer, CleanupPCs
  <2>2. answers[k] # <<>> /\ ReceiveAnswer(k, 1, None)
    BY <1>12 DEF WaitAllAnswer
  <2>3. /\ answers' \in [Boxes -> Seq(AllCalls)]
        /\ phone_active_calls' \in [Phones -> Int] /\ box_active_calls' \in [Boxes -> Int]
        /\ priv' \in [AllCalls -> Phones \cup {None}]
        /\ phone_cap' \in [Phones -> BOOLEAN]
        /\ call_refs' \in [AllCalls -> Int] /\ phone_refs' \in [Phones -> Int]
        /\ retval' \in [AllCalls -> Retvals]
    BY <1>0, <1>1, <2>2, ReceiveType
  <2> QED BY <1>0, <1>12, <2>1, <2>3 DEF WaitAllAnswer, Types
<1>13. CASE WaitAllRequest(t)
  <2>1. thr' \in [Threads -> ThreadType]
    BY <1>1, <1>13, GotoFacts DEF WaitAllRequest, CleanupPCs
  <2>2. calls[k] # <<>> /\ calls' = [calls EXCEPT ![k] = Tail(@)]
    BY <1>13 DEF WaitAllRequest
  <2>3. calls' \in [Tasks -> Seq(AllCalls)] /\ Head(calls[k]) \in AllCalls
    BY <1>0, <1>1, <2>2, TakeFrom DEF Types, ListInv
  <2>4. dispatched' \in [Tasks -> SUBSET AllCalls]
    BY <1>0, <1>1, <1>13, <2>3 DEF WaitAllRequest, Types
  <2> QED BY <1>0, <1>13, <2>1, <2>3, <2>4 DEF WaitAllRequest, Types, phone, call
<1> QED BY <1>2, <1>3, <1>4, <1>5, <1>6, <1>8, <1>9, <1>10, <1>11, <1>12, <1>13 DEF CleanupStep

LEMMA TypesStep == IInv /\ [Next]_vars => Types'
<1> SUFFICES ASSUME IInv, [Next]_vars PROVE Types'
  OBVIOUS
<1>1. ASSUME NEW t \in Threads, KernelStep(t) PROVE Types'
  BY <1>1, SendTypes, ReceiveTypes, AnswerTypes, SyncTypes, HangupTypes DEF KernelStep
<1>2. ASSUME NEW k \in Tasks, Kill(k) PROVE Types'
  <2>1. interrupted' \in [Threads -> BOOLEAN]
    BY <1>2 DEF Kill, IInv, Types
  <2> QED BY <1>2, <2>1 DEF Kill, IInv, Types, box, phone, call
<1>3. CASE UNCHANGED vars
  BY <1>3 DEF vars, IInv, Types
<1> QED BY <1>1, <1>2, <1>3, RequestTypes, CleanupTypes DEF Next

-----------------------------------------------------------------------------
(* Threads. *)

\* A step of t leaves phones that others have locked and their capabilities.
Calm(t) ==
    /\ \A p \in Phones : lock[p] \in Threads \ {t} => lock'[p] = lock[p] /\ state'[p] = state[p]
    /\ \A c \in AllCalls : call_cap'[c] \in {call_cap[c], None}

LEMMA LateCleans == \A x : Late(x) => Cleaning(x)
BY DEF Late, Cleaning

LEMMA ThreadFrame ==
    ASSUME IInv, NEW t \in Threads, \A u \in Threads : u # t => thr'[u] = thr[u],
           thr[t].pc # "dead",
           \A p \in Phones : lock[p] \in Threads \ {t} => lock'[p] = lock[p] /\ state'[p] = state[p],
           \A c \in AllCalls : call_cap'[c] \in {call_cap[c], None, TaskOf[t]},
           ThreadOK(t)'
    PROVE  ThreadInv'
<1> SUFFICES ASSUME NEW u \in Threads, u # t PROVE ThreadOK(u)'
  BY DEF ThreadInv
<1>1. ThreadOK(u) /\ thr'[u] = thr[u] /\ thr[u] \in ThreadType
  BY DEF IInv, Types, ThreadInv
<1>2. thr[u].pc = "hungup" => lock'[thr[u].phone] = u /\ state'[thr[u].phone] = "CONNECTED"
  <2> SUFFICES ASSUME thr[u].pc = "hungup"
               PROVE  lock'[thr[u].phone] = u /\ state'[thr[u].phone] = "CONNECTED"
    OBVIOUS
  <2>1. thr[u].phone \in Phones
    BY <1>1 DEF ThreadOK, Shape, PhonePCs
  <2> QED BY <1>1, <2>1 DEF ThreadOK
<1>3. Cleaning(thr[u]) =>
         /\ TaskOf[u] # TaskOf[t]
         /\ \A v \in Threads : v # u /\ TaskOf[v] = TaskOf[u] => thr'[v].pc = "dead"
  BY <1>1 DEF ThreadOK
<1>4. Late(thr[u]) => \A c \in AllCalls : call_cap'[c] # TaskOf[u]
  BY <1>1, <1>3, LateCleans, Nones DEF ThreadOK
<1> QED BY <1>1, <1>2, <1>3, <1>4 DEF ThreadOK

LEMMA MoveThread ==
    ASSUME IInv, NEW t \in Threads, \A u \in Threads : u # t => thr'[u] = thr[u],
           thr[t].pc # "dead", Calm(t), Shape(thr'[t]), thr'[t].pc # "hungup",
           Cleaning(thr'[t]) => Cleaning(thr[t]), Late(thr'[t]) => Late(thr[t])
    PROVE  ThreadInv'
<1>1. ThreadOK(t)
  BY DEF IInv, ThreadInv
<1>2. Cleaning(thr'[t]) => \A u \in Threads : u # t /\ TaskOf[u] = TaskOf[t] => thr'[u].pc = "dead"
  BY <1>1 DEF ThreadOK
<1>3. Late(thr'[t]) => \A c \in AllCalls : call_cap'[c] # TaskOf[t]
  BY <1>1, Nones DEF ThreadOK, Calm
<1>4. ThreadOK(t)'
  BY <1>2, <1>3 DEF ThreadOK
<1> QED BY <1>4, ThreadFrame DEF Calm

LEMMA ReturnThread ==
    ASSUME IInv, NEW t \in Threads, thr[t].pc # "dead", Calm(t), Return(t)
    PROVE  ThreadInv'
<1>1. thr \in [Threads -> ThreadType] /\ Shape(thr[t])
  BY HandFacts
<1>2. /\ \A u \in Threads : u # t => thr'[u] = thr[u]
      /\ thr'[t].call = None /\ thr'[t].phone = None
      /\ thr'[t].ref = 0 /\ thr'[t].next = "user"
      /\ \/ thr[t].next = "user" /\ thr'[t].pc \in {"user", "exit"}
         \/ /\ thr[t].next \in {"hang_all", "rehang", "calls", "dispatched"}
            /\ thr'[t].pc = thr[t].next
  BY <1>1, ReturnFacts
<1>3. Shape(thr'[t]) /\ thr'[t].pc # "hungup"
  BY <1>2 DEF Shape, HolderPCs, SyncPCs, PhonePCs
<1>4. Cleaning(thr'[t]) => Cleaning(thr[t])
  BY <1>2 DEF Cleaning, CleanupPCs
<1>5. Late(thr'[t]) => Late(thr[t])
  BY <1>2 DEF Late, CleanupPCs
<1> QED BY <1>2, <1>3, <1>4, <1>5, MoveThread

\* A thread that is not in ipc_cleanup() starts something, or goes on with it.
LEMMA WorkThread ==
    ASSUME IInv, NEW t \in Threads, \A u \in Threads : u # t => thr'[u] = thr[u],
           thr[t].pc # "dead", Calm(t), Shape(thr'[t]),
           thr'[t].pc \in SyscallPCs \ {"hungup"}, thr'[t].next \in {"user", thr[t].next}
    PROVE  ThreadInv'
<1>1. thr'[t].pc \notin CleanupPCs /\ thr'[t].pc # "hungup"
  BY DEF SyscallPCs, CleanupPCs
<1>2. Cleaning(thr'[t]) => Cleaning(thr[t])
  BY <1>1 DEF Cleaning
<1>3. Late(thr'[t]) => Late(thr[t])
  BY <1>1 DEF Late
<1> QED BY <1>1, <1>2, <1>3, MoveThread

\* The thread goes from one place to another; the rest of its record stays.
LEMMA GotoThread ==
    ASSUME IInv, NEW t \in Threads, thr[t].pc # "dead", Calm(t), NEW pc \in PCs, Goto(t, pc),
           pc # "hungup",
           /\ pc \in HolderPCs <=> thr[t].pc \in HolderPCs
           /\ pc \in SyncPCs <=> thr[t].pc \in SyncPCs
           /\ pc \in PhonePCs => thr[t].pc \in PhonePCs
           /\ thr[t].phone # None => pc \in PhonePCs \/ thr[t].ref = 1
           /\ thr[t].ref = 1 => pc \in {"preprocess", "slam", "deliver", "wake"}
           /\ thr[t].next # "user" =>
                 pc \in {"preprocess", "slam", "deliver", "wake", "hangup", "hungup"}
           /\ pc # "forward"
           /\ pc \in CleanupPCs \ {"exit", "dead"} => thr[t].pc \in CleanupPCs \ {"exit", "dead"}
           /\ pc \in CleanupPCs \ {"exit", "dead", "hang_all", "slam_all"} =>
                 thr[t].pc \in CleanupPCs \ {"exit", "dead", "hang_all", "slam_all"}
    PROVE  ThreadInv'
<1>1. thr \in [Threads -> ThreadType] /\ Shape(thr[t])
  BY HandFacts
<1>2. /\ \A u \in Threads : u # t => thr'[u] = thr[u]
      /\ thr'[t].pc = pc /\ thr'[t].call = thr[t].call /\ thr'[t].phone = thr[t].phone
      /\ thr'[t].ref = thr[t].ref /\ thr'[t].next = thr[t].next
  BY <1>1, GotoFacts
<1>3. Shape(thr'[t])
  BY <1>1, <1>2 DEF Shape
<1>4. Cleaning(thr'[t]) => Cleaning(thr[t])
  BY <1>2 DEF Cleaning
<1>5. Late(thr'[t]) => Late(thr[t])
  BY <1>2 DEF Late
<1> QED BY <1>2, <1>3, <1>4, <1>5, MoveThread

LEMMA RequestThread ==
    ASSUME IInv, NEW t \in Threads, Request(t)
    PROVE  ThreadInv'
<1>0. Types /\ thr[t].pc = "user" /\ thr[t].pc # "dead" /\ Shape(thr[t])
  <2>1. thr[t].pc = "user"
    <3>1. \A p \in Phones, c \in Calls : CallAsync(t, p, c) \/ CallSync(t, p, c) => thr[t].pc = "user"
      BY DEF CallAsync, CallSync
    <3>2. \A p \in Phones, c \in Calls, q \in Phones : ConnectMeTo(t, p, c, q) => thr[t].pc = "user"
      BY DEF ConnectMeTo
    <3>3. \A p \in Phones, c \in AllCalls : Forward(t, c, p) \/ SysHangup(t, p) => thr[t].pc = "user"
      BY DEF Forward, SysHangup
    <3>4. \A c \in AllCalls : (\E rv \in UserRetvals : Answer(t, c, rv)) \/ ForwardRefused(t, c)
             => thr[t].pc = "user"
      BY DEF Answer, ForwardRefused
    <3>5. WaitForCall(t) \/ Poke(t) => thr[t].pc = "user"
      BY DEF WaitForCall, Poke
    <3>6. \A p \in Phones : SysHangup(t, p) => thr[t].pc = "user"
      BY DEF SysHangup
    <3> QED BY <3>1, <3>2, <3>3, <3>4, <3>5, <3>6 DEF Request
  <2> QED BY <2>1, HandFacts DEF IInv
<1>1. ASSUME NEW p \in Phones, NEW c \in Calls,
             CallAsync(t, p, c) \/ CallSync(t, p, c) \/ \E q \in Phones : ConnectMeTo(t, p, c, q)
      PROVE  ThreadInv'
  <2>1. /\ \A u \in Threads : u # t => thr'[u] = thr[u]
        /\ thr'[t].pc \in {"call", "backsend"} /\ thr'[t].call = c /\ thr'[t].phone = p
        /\ thr'[t].ref = 0 /\ thr'[t].next = "user"
    BY <1>0, <1>1, CallAsyncMove
  <2>2. Shape(thr'[t]) /\ thr'[t].pc \in SyscallPCs \ {"hungup"}
    BY <2>1, Nones DEF Shape, HolderPCs, SyncPCs, PhonePCs, SyscallPCs
  <2>3. lock' = lock /\ call_cap' = call_cap
    BY <1>1 DEF CallAsync, CallSync, ConnectMeTo
  <2>4. \A r \in Phones : lock[r] \in Threads \ {t} => state'[r] = state[r]
    <3>1. CASE CallAsync(t, p, c) \/ CallSync(t, p, c)
      BY <3>1 DEF CallAsync, CallSync
    <3>2. ASSUME NEW q \in Phones, ConnectMeTo(t, p, c, q), NEW r \in Phones,
                 lock[r] \in Threads \ {t}
          PROVE  state'[r] = state[r]
      <4>1. state[r] = "CONNECTED"
        BY <3>2, Nones DEF IInv, PhoneInv, PhoneOK, ThreadInv, ThreadOK
      <4> QED BY <1>0, <3>2, <4>1 DEF ConnectMeTo, Types
    <3> QED BY <1>1, <3>1, <3>2
  <2>5. Calm(t)
    BY <2>3, <2>4 DEF Calm
  <2> QED BY <1>0, <2>1, <2>2, <2>5, WorkThread
<1>2. ASSUME NEW p \in Phones, NEW c \in AllCalls, Forward(t, c, p) PROVE ThreadInv'
  <2>1. /\ \A u \in Threads : u # t => thr'[u] = thr[u]
        /\ thr'[t].pc = "forward" /\ thr'[t].call = c /\ thr'[t].phone = p
        /\ thr'[t].ref = 1 /\ thr'[t].next = "user"
    BY <1>0, <1>2, ForwardMove
  <2>2. Shape(thr'[t]) /\ thr'[t].pc \in SyscallPCs \ {"hungup"}
    BY <2>1, Nones DEF Shape, HolderPCs, SyncPCs, PhonePCs, SyscallPCs
  <2>3. Calm(t)
    BY <1>0, <1>2 DEF Calm, Forward, Types
  <2> QED BY <1>0, <2>1, <2>2, <2>3, WorkThread
<1>3. ASSUME NEW p \in Phones, SysHangup(t, p) PROVE ThreadInv'
  <2>1. /\ \A u \in Threads : u # t => thr'[u] = thr[u]
        /\ thr'[t].pc = "hangup" /\ thr'[t].call = None /\ thr'[t].phone = p
        /\ thr'[t].ref = 0 /\ thr'[t].next = "user"
    BY <1>0, <1>3, SysHangupMove
  <2>2. Shape(thr'[t]) /\ thr'[t].pc \in SyscallPCs \ {"hungup"}
    BY <2>1, Nones DEF Shape, HolderPCs, SyncPCs, PhonePCs, SyscallPCs
  <2>3. Calm(t)
    BY <1>3 DEF Calm, SysHangup, call
  <2> QED BY <1>0, <2>1, <2>2, <2>3, WorkThread
<1>4. ASSUME NEW c \in AllCalls, (\E rv \in UserRetvals : Answer(t, c, rv)) \/ ForwardRefused(t, c)
      PROVE  ThreadInv'
  <2>1. /\ \A u \in Threads : u # t => thr'[u] = thr[u]
        /\ thr'[t].pc = "preprocess" /\ thr'[t].call = c /\ thr'[t].phone = None
        /\ thr'[t].ref = 1 /\ thr'[t].next = "user"
    BY <1>0, <1>4, AnswerMove
  <2>2. Shape(thr'[t]) /\ thr'[t].pc \in SyscallPCs \ {"hungup"}
    BY <2>1, Nones DEF Shape, HolderPCs, SyncPCs, PhonePCs, SyscallPCs
  <2>3. Calm(t)
    <3>1. lock' = lock /\ state' = state /\ call_cap' = [call_cap EXCEPT ![c] = None]
      BY <1>4 DEF Answer, ForwardRefused, phone
    <3> QED BY <1>0, <3>1 DEF Calm, Types
  <2> QED BY <1>0, <2>1, <2>2, <2>3, WorkThread
<1>5. CASE WaitForCall(t)
  <2>1. Calm(t) /\ Goto(t, "wait") /\ "wait" \in PCs
    BY <1>5 DEF Calm, WaitForCall, phone, call, PCs, SyscallPCs
  <2>2. thr[t].ref # 1 /\ thr[t].phone = None /\ thr[t].next = "user"
    BY <1>0 DEF Shape, PhonePCs, SyncPCs
  <2> QED BY <1>0, <2>1, <2>2, GotoThread DEF HolderPCs, SyncPCs, PhonePCs, CleanupPCs
<1>6. CASE Poke(t)
  <2>1. Calm(t) /\ thr' = thr
    BY <1>6 DEF Calm, Poke, phone, call
  <2> QED BY <1>0, <2>1, MoveThread
<1> QED BY <1>1, <1>2, <1>3, <1>4, <1>5, <1>6 DEF Request

LEMMA KernelThread ==
    ASSUME IInv, NEW t \in Threads, KernelStep(t)
    PROVE  ThreadInv'
<1> DEFINE c == thr[t].call
           p == thr[t].phone
<1>0. Types /\ ListInv /\ thr[t].pc # "dead" /\ Shape(thr[t]) /\ thr \in [Threads -> ThreadType]
  BY HandFacts DEF IInv, KernelStep, Send, SendRefused, Backsend, BacksendSync, Wakeup, WaitFails,
        DequeueAnswer, DequeueRequest, DequeueNothing, Publish, PublishFails, Preprocess,
        PreprocessForgotten, SlamCaller, Deliver, Discard, Wake, ForwardSend, ForwardFails,
        SyncReceive, SyncInterrupted, SyncForget, SyncAnswered, Unlist, SendHungup, HangupSlammed
<1>1. UNCHANGED <<lock, state, call_cap>> => Calm(t)
  BY DEF Calm
<1>2. /\ {"sync", "backsend", "dequeue", "wait", "preprocess", "deliver", "wake", "slam", "race",
          "answered"} \subseteq PCs
      /\ thr[t].pc \in {"call", "backsend", "wait", "dequeue", "publish"} => thr[t].next = "user"
      /\ thr[t].pc \in {"wait", "dequeue"} \cup SyncPCs \cup {"call"} => thr[t].ref # 1 /\ thr[t].next = "user"
      /\ thr[t].pc \in {"wait", "dequeue", "publish"} => thr[t].phone = None
      /\ thr[t].pc \notin PhonePCs /\ thr[t].phone # None => thr[t].ref = 1
      /\ thr[t].pc = "forward" => thr[t].ref = 1
  BY <1>0 DEF PCs, SyscallPCs, Shape, PhonePCs, SyncPCs
<1>3. CASE Send(t)
  <2>1. Calm(t) /\ thr[t].pc = "call"
    BY <1>1, <1>3 DEF Send
  <2>2. Goto(t, "sync") \/ Return(t)
    BY <1>3 DEF Send
  <2>3. CASE Goto(t, "sync")
    <3>1. \A u \in Threads : u # t => thr'[u] = thr[u]
      BY <1>0, <1>2, <2>3, GotoFacts
    <3>2. /\ thr'[t].pc = "sync" /\ thr'[t].call = thr[t].call /\ thr'[t].phone = thr[t].phone
          /\ thr'[t].ref = thr[t].ref /\ thr'[t].next = thr[t].next
      BY <1>0, <1>2, <2>3, GotoFacts
    <3>3. Shape(thr'[t]) /\ thr'[t].pc \in SyscallPCs \ {"hungup"}
      BY <1>0, <2>1, <3>2 DEF Shape, HolderPCs, SyncPCs, PhonePCs, SyscallPCs
    <3> QED BY <1>0, <2>1, <3>1, <3>2, <3>3, WorkThread
  <2> QED BY <1>0, <2>1, <2>2, <2>3, ReturnThread
<1>4. CASE SendRefused(t)
  <2>1. Calm(t) /\ Goto(t, "backsend") /\ thr[t].pc = "call"
    BY <1>1, <1>4 DEF SendRefused, phone, call
  <2> QED BY <1>0, <1>2, <2>1, GotoThread DEF HolderPCs, SyncPCs, PhonePCs, CleanupPCs
<1>5. CASE \/ Backsend(t) \/ BacksendSync(t) \/ WaitFails(t) \/ DequeueNothing(t) \/ Discard(t)
           \/ Wake(t) \/ ForwardSend(t) \/ SyncReceive(t) \/ SyncForget(t)
  <2>1. UNCHANGED <<lock, state, call_cap>> /\ Return(t)
    BY <1>5 DEF Backsend, BacksendSync, WaitFails, DequeueNothing, Discard, Wake, ForwardSend,
                SyncReceive, SyncForget, phone, call
  <2> QED BY <1>0, <1>1, <2>1, ReturnThread
<1>6. CASE Wakeup(t)
  <2>1. Calm(t) /\ Goto(t, "dequeue") /\ thr[t].pc = "wait"
    BY <1>1, <1>6 DEF Wakeup, phone, call
  <2> QED BY <1>0, <1>2, <2>1, GotoThread DEF HolderPCs, SyncPCs, PhonePCs, CleanupPCs
<1>7. CASE DequeueAnswer(t)
  <2>1. Calm(t) /\ thr[t].pc = "dequeue"
    BY <1>1, <1>7 DEF DequeueAnswer
  <2>2. Goto(t, "wait") \/ Return(t)
    BY <1>7 DEF DequeueAnswer
  <2>3. CASE Goto(t, "wait")
    BY <1>0, <1>2, <2>1, <2>3, GotoThread DEF HolderPCs, SyncPCs, PhonePCs, CleanupPCs
  <2> QED BY <1>0, <2>1, <2>2, <2>3, ReturnThread
<1>8. CASE DequeueRequest(t)
  <2>1. Calm(t) /\ thr[t].pc = "dequeue"
    BY <1>1, <1>8 DEF DequeueRequest, phone, call
  <2>2. /\ \A u \in Threads : u # t => thr'[u] = thr[u]
        /\ thr'[t].pc = "publish" /\ thr'[t].call = Head(calls[TaskOf[t]])
        /\ thr'[t].phone = thr[t].phone
        /\ thr'[t].ref = thr[t].ref /\ thr'[t].next = thr[t].next
    BY <1>0, <1>8, DequeueMove
  <2>3. Head(calls[TaskOf[t]]) \in AllCalls
    BY <1>0, <1>8, Nones, TakeFrom DEF DequeueRequest, Types, ListInv
  <2>4. Shape(thr'[t]) /\ thr'[t].pc \in SyscallPCs \ {"hungup"}
    BY <1>0, <2>1, <2>2, <2>3, Nones DEF Shape, HolderPCs, SyncPCs, PhonePCs, SyscallPCs
  <2> QED BY <1>0, <2>1, <2>2, <2>4, WorkThread
<1>9. CASE Publish(t)
  <2>1. /\ thr[t].pc = "publish" /\ Return(t) /\ lock' = lock /\ state' = state
        /\ \A d \in AllCalls : call_cap'[d] \in {call_cap[d], None, TaskOf[t]}
    BY <1>0, <1>9 DEF Publish, Types, phone
  <2>2. /\ \A u \in Threads : u # t => thr'[u] = thr[u]
        /\ thr'[t].call = None /\ thr'[t].phone = None
        /\ thr'[t].ref = 0 /\ thr'[t].next = "user"
        /\ thr'[t].pc \in {"user", "exit"}
    BY <1>0, <1>2, <2>1, ReturnFacts
  <2>3. Shape(thr'[t]) /\ ~Cleaning(thr'[t]) /\ ~Late(thr'[t]) /\ thr'[t].pc # "hungup"
    BY <2>2 DEF Shape, HolderPCs, SyncPCs, PhonePCs, Cleaning, Late, CleanupPCs
  <2>4. ThreadOK(t)'
    BY <2>3 DEF ThreadOK
  <2> QED BY <1>0, <2>1, <2>2, <2>4, ThreadFrame
<1>10. CASE PublishFails(t)
  <2>1. Calm(t) /\ Goto(t, "preprocess") /\ thr[t].pc = "publish"
    BY <1>1, <1>10 DEF PublishFails, phone
  <2> QED BY <1>0, <1>2, <2>1, GotoThread DEF HolderPCs, SyncPCs, PhonePCs, CleanupPCs
<1>11. CASE Preprocess(t)
  <2>1. thr[t].pc = "preprocess" /\ lock' = lock /\ call_cap' = call_cap
    BY <1>11 DEF Preprocess
  <2>2. \A r \in Phones : lock[r] \in Threads \ {t} => state'[r] = state[r]
    <3> SUFFICES ASSUME NEW r \in Phones, lock[r] \in Threads \ {t} PROVE state'[r] = state[r]
      OBVIOUS
    <3>1. state[r] = "CONNECTED"
      BY Nones DEF IInv, PhoneInv, PhoneOK, ThreadInv, ThreadOK
    <3> QED BY <1>0, <1>11, <3>1 DEF Preprocess, Types
  <2>3. Calm(t)
    BY <2>1, <2>2 DEF Calm
  <2>4. Goto(t, "slam") \/ Goto(t, "deliver")
    BY <1>11 DEF Preprocess
  <2> QED BY <1>0, <1>2, <2>1, <2>3, <2>4, GotoThread DEF HolderPCs, SyncPCs, PhonePCs, CleanupPCs
<1>12. CASE PreprocessForgotten(t)
  <2>1. Calm(t) /\ Goto(t, "deliver") /\ thr[t].pc = "preprocess"
    BY <1>1, <1>12 DEF PreprocessForgotten, phone, call
  <2> QED BY <1>0, <1>2, <2>1, GotoThread DEF HolderPCs, SyncPCs, PhonePCs, CleanupPCs
<1>13. CASE SlamCaller(t)
  <2>1. thr[t].pc = "slam" /\ lock' = lock /\ call_cap' = call_cap /\ Goto(t, "deliver")
    BY <1>13 DEF SlamCaller, call
  <2>2. \A r \in Phones : lock[r] \in Threads \ {t} => state'[r] = state[r]
    BY <1>0, <1>13, Nones DEF SlamCaller, Types
  <2>3. Calm(t)
    BY <2>1, <2>2 DEF Calm
  <2> QED BY <1>0, <1>2, <2>1, <2>3, GotoThread DEF HolderPCs, SyncPCs, PhonePCs, CleanupPCs
<1>14. CASE Deliver(t)
  <2>1. Calm(t) /\ Goto(t, "wake") /\ thr[t].pc = "deliver"
    BY <1>1, <1>14 DEF Deliver, phone, call
  <2> QED BY <1>0, <1>2, <2>1, GotoThread DEF HolderPCs, SyncPCs, PhonePCs, CleanupPCs
<1>15. CASE ForwardFails(t)
  <2>1. Calm(t) /\ Goto(t, "preprocess") /\ thr[t].pc = "forward"
    BY <1>1, <1>15 DEF ForwardFails, phone
  <2> QED BY <1>0, <1>2, <2>1, GotoThread DEF HolderPCs, SyncPCs, PhonePCs, CleanupPCs, Shape
<1>16. CASE SyncInterrupted(t) \/ SyncAnswered(t)
  <2>1. /\ Calm(t) /\ thr[t].pc \in {"sync", "race"}
        /\ Goto(t, "race") \/ Goto(t, "answered")
    BY <1>1, <1>16 DEF SyncInterrupted, SyncAnswered, phone, call
  <2> QED BY <1>0, <1>2, <2>1, GotoThread DEF HolderPCs, SyncPCs, PhonePCs, CleanupPCs
<1>17. CASE Unlist(t)
  <2>1. /\ thr[t].pc = "hangup" /\ lock[p] = None /\ state[p] = "CONNECTED" /\ Goto(t, "hungup")
        /\ lock' = [lock EXCEPT ![p] = t] /\ state' = state /\ call_cap' = call_cap
        /\ "hungup" \in PCs
    BY <1>17 DEF Unlist, call, PCs, SyscallPCs
  <2>2. p \in Phones
    BY <1>0, <2>1 DEF Shape, PhonePCs
  <2>3. /\ \A u \in Threads : u # t => thr'[u] = thr[u]
        /\ thr'[t].pc = "hungup" /\ thr'[t].call = thr[t].call /\ thr'[t].phone = thr[t].phone
        /\ thr'[t].ref = thr[t].ref /\ thr'[t].next = thr[t].next
    BY <1>0, <2>1, GotoFacts
  <2>4. Shape(thr'[t])
    BY <1>0, <2>1, <2>3 DEF Shape, HolderPCs, SyncPCs, PhonePCs
  <2>5. lock'[p] = t /\ (\A r \in Phones : lock[r] \in Threads => lock'[r] = lock[r])
    BY <1>0, <2>1, <2>2, Nones DEF Types
  <2>6. (Cleaning(thr'[t]) => Cleaning(thr[t])) /\ (Late(thr'[t]) => Late(thr[t]))
    BY <2>1, <2>3 DEF Cleaning, Late, CleanupPCs
  <2>7. ThreadOK(t)
    BY DEF IInv, ThreadInv
  <2>8. ThreadOK(t)'
    <3>1. Cleaning(thr'[t]) => \A u \in Threads : u # t /\ TaskOf[u] = TaskOf[t] => thr'[u].pc = "dead"
      BY <2>3, <2>6, <2>7 DEF ThreadOK
    <3>2. Late(thr'[t]) => \A d \in AllCalls : call_cap'[d] # TaskOf[t]
      BY <2>1, <2>6, <2>7 DEF ThreadOK
    <3> QED BY <2>1, <2>3, <2>4, <2>5, <3>1, <3>2 DEF ThreadOK
  <2>9. \A d \in AllCalls : call_cap'[d] \in {call_cap[d], None, TaskOf[t]}
    BY <2>1
  <2> QED BY <1>0, <2>1, <2>3, <2>5, <2>8, <2>9, ThreadFrame
<1>18. CASE SendHungup(t)
  <2>1. /\ thr[t].pc = "hungup" /\ Return(t) /\ call_cap' = call_cap
        /\ lock' = [lock EXCEPT ![p] = None] /\ state' = [state EXCEPT ![p] = "HUNGUP"]
    BY <1>18 DEF SendHungup
  <2>2. lock[p] = t
    BY <2>1 DEF IInv, ThreadInv, ThreadOK
  <2>3. Calm(t)
    BY <1>0, <2>1, <2>2 DEF Calm, Types
  <2> QED BY <1>0, <2>1, <2>3, ReturnThread
<1>19. CASE HangupSlammed(t)
  <2>1. /\ lock[p] = None /\ Return(t) /\ call_cap' = call_cap /\ lock' = lock
        /\ \A r \in Phones : r # p => state'[r] = state[r]
    BY <1>0, <1>19 DEF HangupSlammed, Types, call
  <2>2. Calm(t)
    BY <1>0, <2>1, Nones DEF Calm
  <2> QED BY <1>0, <2>1, <2>2, ReturnThread
<1> QED BY <1>3, <1>4, <1>5, <1>6, <1>7, <1>8, <1>9, <1>10, <1>11, <1>12, <1>13, <1>14, <1>15,
           <1>16, <1>17, <1>18, <1>19 DEF KernelStep

LEMMA CleanupThread ==
    ASSUME IInv, NEW t \in Threads, CleanupStep(t)
    PROVE  ThreadInv'
<1> DEFINE k == TaskOf[t]
           x == thr[t]
<1>0. Types /\ ListInv /\ Shape(x) /\ thr \in [Threads -> ThreadType] /\ ThreadOK(t)
  BY HandFacts DEF IInv, ThreadInv
<1>1. UNCHANGED <<lock, state, call_cap>> => Calm(t)
  BY DEF Calm
<1>2. /\ CleanupPCs \subseteq PCs
      /\ x.pc \in CleanupPCs \cup {"user"} =>
            x.next = "user" /\ x.call = None /\ x.phone = None /\ x.ref # 1
  BY <1>0 DEF PCs, CleanupPCs, Shape, HolderPCs, SyncPCs, PhonePCs
<1>3. CASE \/ Leave(t) \/ HangAllDone(t) \/ CleanupDone(t) \/ ForgetAllDone(t)
           \/ WaitAllDone(t) \/ WaitAll(t) \/ WaitAllAnswer(t) \/ WaitAllNothing(t)
           \/ WaitAllRequest(t)
  <2>1. PICK pc \in CleanupPCs :
           /\ Goto(t, pc)
           /\ \/ x.pc = "user" /\ pc = "exit"
              \/ x.pc = "hang_all" /\ pc = "slam_all"
              \/ x.pc \in {"rehang", "calls", "dispatched", "forget_all", "wait_all", "dequeue_all"}
    BY <1>3 DEF Leave, HangAllDone, CleanupDone, ForgetAllDone, WaitAllDone, WaitAll, WaitAllAnswer,
                WaitAllNothing, WaitAllRequest, CleanupPCs
  <2>2. UNCHANGED <<lock, state, call_cap>>
    BY <1>3 DEF Leave, HangAllDone, CleanupDone, ForgetAllDone, WaitAllDone, WaitAll, WaitAllAnswer,
                WaitAllNothing, WaitAllRequest, phone, call
  <2>3. x.pc \in CleanupPCs \cup {"user"} /\ x.pc # "dead" /\ pc # "hungup"
    BY <2>1 DEF CleanupPCs
  <2>4. /\ pc \notin HolderPCs \cup SyncPCs \cup PhonePCs /\ x.pc \notin HolderPCs \cup SyncPCs
        /\ pc # "forward"
        /\ pc \in CleanupPCs \ {"exit", "dead"} => x.pc \in CleanupPCs \ {"exit", "dead"}
        /\ pc \in CleanupPCs \ {"exit", "dead", "hang_all", "slam_all"} =>
              x.pc \in CleanupPCs \ {"exit", "dead", "hang_all", "slam_all"}
    BY <2>1 DEF HolderPCs, SyncPCs, PhonePCs, CleanupPCs
  <2> QED BY <1>1, <1>2, <2>1, <2>2, <2>3, <2>4, GotoThread
<1>4. CASE Exit(t)
  <2> DEFINE last == \A u \in Threads \ {t} : TaskOf[u] = k => thr[u].pc = "dead"
  <2>1. x.pc = "exit" /\ UNCHANGED <<lock, state, call_cap>>
    BY <1>4 DEF Exit, phone, call
  <2>2. PICK pc \in {"hang_all", "dead"} : Goto(t, pc) /\ (pc = "hang_all" => last)
    BY <1>4 DEF Exit
  <2>3. /\ \A u \in Threads : u # t => thr'[u] = thr[u]
        /\ thr'[t].pc = pc /\ thr'[t].call = x.call /\ thr'[t].phone = x.phone
        /\ thr'[t].ref = x.ref /\ thr'[t].next = x.next
    BY <1>0, <1>2, <2>2, GotoFacts DEF CleanupPCs
  <2>4. Shape(thr'[t]) /\ ~Late(thr'[t]) /\ thr'[t].pc # "hungup" /\ (Cleaning(thr'[t]) => last)
    BY <1>2, <2>1, <2>2, <2>3 DEF Shape, HolderPCs, SyncPCs, PhonePCs, Cleaning, Late, CleanupPCs
  <2>5. ThreadOK(t)'
    <3>1. Cleaning(thr'[t]) => \A u \in Threads : u # t /\ TaskOf[u] = TaskOf[t] => thr'[u].pc = "dead"
      BY <2>3, <2>4
    <3> QED BY <2>4, <3>1 DEF ThreadOK
  <2> QED BY <2>1, <2>3, <2>5, ThreadFrame
<1>5. CASE SlamDone(t)
  <2>1. /\ x.pc = "slam_all" /\ UNCHANGED <<lock, state>> /\ Goto(t, "calls")
        /\ \A c \in AllCalls : call_cap'[c] \in {call_cap[c], None} /\ call_cap'[c] # k
    BY <1>5, Nones DEF SlamDone, phone
  <2>2. Calm(t)
    BY <2>1 DEF Calm
  <2>3. /\ \A u \in Threads : u # t => thr'[u] = thr[u]
        /\ thr'[t].pc = "calls" /\ thr'[t].call = x.call /\ thr'[t].phone = x.phone
        /\ thr'[t].ref = x.ref /\ thr'[t].next = x.next
    BY <1>0, <1>2, <2>1, GotoFacts DEF CleanupPCs
  <2>4. Shape(thr'[t]) /\ thr'[t].pc # "hungup" /\ Cleaning(x)
    BY <1>2, <2>1, <2>3 DEF Shape, HolderPCs, SyncPCs, PhonePCs, Cleaning, CleanupPCs
  <2>5. ThreadOK(t)'
    <3>1. \A u \in Threads : u # t /\ TaskOf[u] = TaskOf[t] => thr'[u].pc = "dead"
      BY <1>0, <2>3, <2>4 DEF ThreadOK
    <3>2. \A c \in AllCalls : call_cap'[c] # TaskOf[t]
      BY <2>1
    <3> QED BY <2>4, <3>1, <3>2 DEF ThreadOK
  <2> QED BY <2>1, <2>3, <2>5, ThreadFrame
<1>6. ASSUME NEW p \in Phones, HangAll(t, p) PROVE ThreadInv'
  <2>1. /\ \A u \in Threads : u # t => thr'[u] = thr[u]
        /\ thr'[t].pc = "hangup" /\ thr'[t].call = x.call /\ thr'[t].phone = p
        /\ thr'[t].ref = x.ref /\ thr'[t].next = x.pc
    BY <1>0, <1>6, HangAllMove
  <2>2. x.pc \in {"hang_all", "rehang"} /\ UNCHANGED <<lock, state, call_cap>>
    BY <1>6 DEF HangAll, call
  <2>3. x.ref # 1 /\ x.ref \in {0, 1} /\ x.call = None
    BY <1>2, <2>2, HandFacts DEF CleanupPCs
  <2>4. Shape(thr'[t]) /\ thr'[t].pc # "hungup" /\ x.pc # "dead"
    BY <2>1, <2>2, <2>3, Nones DEF Shape, HolderPCs, SyncPCs, PhonePCs
  <2>5. (Cleaning(thr'[t]) => Cleaning(x)) /\ (Late(thr'[t]) => Late(x))
    BY <2>1, <2>2 DEF Cleaning, Late, CleanupPCs
  <2> QED BY <1>1, <2>1, <2>2, <2>4, <2>5, MoveThread
<1>7. ASSUME NEW c \in AllCalls, AnswerCall(t, c), x.pc \in {"calls", "dispatched"}
      PROVE  ThreadInv'
  <2>1. /\ \A u \in Threads : u # t => thr'[u] = thr[u]
        /\ thr'[t].pc = "preprocess" /\ thr'[t].call = c /\ thr'[t].phone = x.phone
        /\ thr'[t].ref = x.ref /\ thr'[t].next = x.pc
    BY <1>0, <1>7, AnswerCallMove
  <2>2. UNCHANGED <<lock, state, call_cap>>
    BY <1>7 DEF AnswerCall, phone
  <2>3. x.ref # 1 /\ x.ref \in {0, 1} /\ x.phone = None
    BY <1>2, <1>7, HandFacts DEF CleanupPCs
  <2>4. Shape(thr'[t]) /\ thr'[t].pc # "hungup" /\ x.pc # "dead"
    BY <1>7, <2>1, <2>2, <2>3, Nones DEF Shape, HolderPCs, SyncPCs, PhonePCs
  <2>5. (Cleaning(thr'[t]) => Cleaning(x)) /\ (Late(thr'[t]) => Late(x))
    BY <1>7, <2>1, <2>2 DEF Cleaning, Late, CleanupPCs
  <2> QED BY <1>1, <2>1, <2>2, <2>4, <2>5, MoveThread
<1>8. CASE CleanupCalls(t)
  <2>1. Head(calls[k]) \in AllCalls
    BY <1>0, <1>8, Nones, TakeFrom DEF CleanupCalls, Types, ListInv
  <2> QED BY <1>7, <1>8, <2>1 DEF CleanupCalls
<1>9. ASSUME NEW c \in AllCalls, CleanupDispatched(t, c) PROVE ThreadInv'
  BY <1>7, <1>9 DEF CleanupDispatched
<1>10. ASSUME NEW p \in Phones, SlamPhone(t, p) PROVE ThreadInv'
  <2>1. /\ x.pc = "slam_all" /\ lock[p] = None /\ lock' = lock /\ thr' = thr /\ call_cap' = call_cap
        /\ state' = [state EXCEPT ![p] = "SLAMMED"]
    BY <1>10 DEF SlamPhone, call
  <2>2. Calm(t)
    BY <1>0, <2>1, Nones DEF Calm, Types
  <2> QED BY <1>0, <2>1, <2>2, MoveThread
<1>11. ASSUME NEW c \in AllCalls, ForgetAll(t, c) PROVE ThreadInv'
  <2>1. x.pc = "forget_all" /\ UNCHANGED <<lock, state, call_cap>> /\ thr' = thr
    BY <1>11 DEF ForgetAll
  <2> QED BY <1>0, <1>1, <2>1, MoveThread
<1> QED BY <1>3, <1>4, <1>5, <1>6, <1>8, <1>9, <1>10, <1>11 DEF CleanupStep

LEMMA ThreadStep == IInv /\ [Next]_vars => ThreadInv'
<1> SUFFICES ASSUME IInv, [Next]_vars PROVE ThreadInv'
  OBVIOUS
<1>1. ASSUME UNCHANGED <<thr, lock, state, call_cap>> PROVE ThreadInv'
  BY <1>1 DEF IInv, ThreadInv, ThreadOK
<1>2. ASSUME NEW k \in Tasks, Kill(k) PROVE ThreadInv'
  BY <1>1, <1>2 DEF Kill, phone, call
<1>3. CASE UNCHANGED vars
  BY <1>1, <1>3 DEF vars
<1> QED BY <1>2, <1>3, RequestThread, KernelThread, CleanupThread DEF Next

\* A step of t changes the record of no other thread.
LEMMA OthersStay ==
    ASSUME IInv, NEW t \in Threads, KernelStep(t) \/ CleanupStep(t)
    PROVE  \A u \in Threads : u # t => thr'[u] = thr[u]
<1>0. thr \in [Threads -> ThreadType]
  BY DEF IInv, Types
<1>1. ASSUME NEW pc, Goto(t, pc) PROVE \A u \in Threads : u # t => thr'[u] = thr[u]
  BY <1>0, <1>1 DEF Goto
<1>2. ASSUME Return(t) PROVE \A u \in Threads : u # t => thr'[u] = thr[u]
  BY <1>0, <1>2 DEF Return
<1>3. ASSUME KernelStep(t) PROVE Return(t) \/ DequeueRequest(t) \/ \E pc : Goto(t, pc)
  BY <1>3 DEF KernelStep, Send, SendRefused, Backsend, BacksendSync, Wakeup, WaitFails,
        DequeueAnswer, DequeueNothing, Publish, PublishFails, Preprocess,
        PreprocessForgotten, SlamCaller, Deliver, Discard, Wake, ForwardSend, ForwardFails,
        SyncReceive, SyncInterrupted, SyncForget, SyncAnswered, Unlist, SendHungup, HangupSlammed
<1>4. ASSUME DequeueRequest(t) PROVE \A u \in Threads : u # t => thr'[u] = thr[u]
  BY <1>0, <1>4 DEF DequeueRequest
<1>5. ASSUME NEW c, AnswerCall(t, c) PROVE \A u \in Threads : u # t => thr'[u] = thr[u]
  BY <1>0, <1>5 DEF AnswerCall
<1>6. ASSUME NEW p \in Phones, HangAll(t, p) \/ SlamPhone(t, p)
      PROVE  \A u \in Threads : u # t => thr'[u] = thr[u]
  BY <1>0, <1>6 DEF HangAll, SlamPhone
<1>7. ASSUME NEW c \in AllCalls, CleanupDispatched(t, c) \/ ForgetAll(t, c)
      PROVE  thr' = thr \/ AnswerCall(t, c)
  BY <1>7 DEF CleanupDispatched, ForgetAll
<1>8. ASSUME \/ Leave(t) \/ Exit(t) \/ HangAllDone(t) \/ SlamDone(t) \/ CleanupDone(t)
             \/ ForgetAllDone(t) \/ WaitAllDone(t) \/ WaitAll(t) \/ WaitAllAnswer(t)
             \/ WaitAllNothing(t) \/ WaitAllRequest(t)
      PROVE  \E pc : Goto(t, pc)
  BY <1>8 DEF Leave, Exit, HangAllDone, SlamDone, CleanupDone, ForgetAllDone, WaitAllDone, WaitAll,
              WaitAllAnswer, WaitAllNothing, WaitAllRequest
<1>9. CleanupCalls(t) => AnswerCall(t, Head(calls[TaskOf[t]]))
  BY DEF CleanupCalls
<1>10. CASE KernelStep(t)
  BY <1>1, <1>2, <1>3, <1>4, <1>10
<1>11. CASE CleanupStep(t)
  BY <1>1, <1>5, <1>6, <1>7, <1>8, <1>9, <1>11 DEF CleanupStep
<1> QED BY <1>10, <1>11

-----------------------------------------------------------------------------
(* Phones. *)

SamePhone(p) ==
    /\ state'[p] = state[p] /\ lock'[p] = lock[p] /\ linked'[p] = linked[p]
    /\ callee'[p] = callee[p] /\ hangup_call'[p] = hangup_call[p]
    /\ caller_phone'[p] = caller_phone[p]

\* A step of t concerns at most the phone q.
LEMMA OnePhone ==
    ASSUME IInv, NEW t \in Threads, \A u \in Threads : u # t => thr'[u] = thr[u], NEW q,
           \A p \in Phones : p # q => SamePhone(p) /\ lock[p] # t,
           q \in Phones => PhoneOK(q)'
    PROVE  PhoneInv'
<1> SUFFICES ASSUME NEW p \in Phones, p # q PROVE PhoneOK(p)'
  BY DEF PhoneInv
<1>1. PhoneOK(p) /\ SamePhone(p) /\ lock[p] # t
  BY DEF IInv, PhoneInv
<1>2. lock[p] # None => lock[p] \in Threads /\ thr'[lock[p]] = thr[lock[p]]
  BY <1>1 DEF IInv, Types
<1> QED BY <1>1, <1>2 DEF PhoneOK, SamePhone

\* A step concerns no phone.
LEMMA NoPhone ==
    ASSUME IInv, NEW t \in Threads, \A u \in Threads : u # t => thr'[u] = thr[u],
           UNCHANGED <<state, lock, linked, callee, hangup_call>>,
           \A p \in Phones : caller_phone'[p] = caller_phone[p],
           thr'[t] = thr[t] \/ thr[t].pc # "hungup"
    PROVE  PhoneInv'
<1> SUFFICES ASSUME NEW p \in Phones PROVE PhoneOK(p)'
  BY DEF PhoneInv
<1>1. PhoneOK(p)
  BY DEF IInv, PhoneInv
<1>2. lock[p] # None => lock[p] \in Threads /\ thr'[lock[p]] = thr[lock[p]]
  BY <1>1 DEF IInv, Types, PhoneOK
<1> QED BY <1>1, <1>2 DEF PhoneOK

LEMMA LockFacts ==
    ASSUME IInv, NEW p \in Phones
    PROVE  /\ PhoneOK(p)
           /\ lock[p] # None => /\ state[p] = "CONNECTED" /\ lock[p] \in Threads
                                /\ thr[lock[p]].pc = "hungup" /\ thr[lock[p]].phone = p
<1>1. PhoneOK(p) /\ (lock[p] # None => lock[p] \in Threads)
  BY DEF IInv, Types, PhoneInv
<1>2. \A u \in Threads : thr[u].pc = "hungup" => state[thr[u].phone] = "CONNECTED"
  BY DEF IInv, ThreadInv, ThreadOK
<1> QED BY <1>1, <1>2 DEF PhoneOK

LEMMA RequestPhone ==
    ASSUME IInv, NEW t \in Threads, Request(t)
    PROVE  PhoneInv'
<1> USE Nones
<1>0. Types
  BY DEF IInv
<1>1. ASSUME NEW p \in Phones, NEW c \in Calls, CallAsync(t, p, c) \/ CallSync(t, p, c)
      PROVE  PhoneInv'
  <2>1. \A u \in Threads : u # t => thr'[u] = thr[u]
    BY <1>0, <1>1, CallAsyncMove
  <2> QED BY <1>1, <2>1, NoPhone DEF CallAsync, CallSync
<1>2. ASSUME NEW p \in Phones, NEW c \in Calls, NEW q \in Phones, ConnectMeTo(t, p, c, q)
      PROVE  PhoneInv'
  <2>1. \A u \in Threads : u # t => thr'[u] = thr[u]
    BY <1>0, <1>2, CallAsyncMove
  <2>2. /\ state[q] = "FREE" /\ thr[t].pc = "user"
        /\ UNCHANGED <<lock, linked, callee, caller_phone>>
        /\ state' = [state EXCEPT ![q] = "CONNECTING"]
        /\ hangup_call' = [hangup_call EXCEPT ![q] = TRUE]
    BY <1>2 DEF ConnectMeTo
  <2>3. \A r \in Phones : r # q => SamePhone(r)
    BY <1>0, <2>2 DEF SamePhone, Types
  <2>4. \A r \in Phones : lock[r] # t
    BY <2>2, LockFacts
  <2>5. state'[q] = "CONNECTING" /\ hangup_call'[q]
    BY <1>0, <2>2 DEF Types
  <2>6. lock[q] = None /\ ~linked[q] /\ caller_phone[q] = None
    BY <2>2, LockFacts DEF PhoneOK
  <2>7. PhoneOK(q)'
    BY <2>2, <2>5, <2>6 DEF PhoneOK
  <2> QED BY <2>1, <2>3, <2>4, <2>7, OnePhone
<1>3. ASSUME NEW p \in Phones, NEW c \in AllCalls, Forward(t, c, p) PROVE PhoneInv'
  <2>1. \A u \in Threads : u # t => thr'[u] = thr[u]
    BY <1>0, <1>3, ForwardMove
  <2> QED BY <1>3, <2>1, NoPhone DEF Forward
<1>4. ASSUME NEW p \in Phones, SysHangup(t, p) PROVE PhoneInv'
  <2>1. \A u \in Threads : u # t => thr'[u] = thr[u]
    BY <1>0, <1>4, SysHangupMove
  <2> QED BY <1>4, <2>1, NoPhone DEF SysHangup, call
<1>5. ASSUME NEW c \in AllCalls, (\E rv \in UserRetvals : Answer(t, c, rv)) \/ ForwardRefused(t, c)
      PROVE  PhoneInv'
  <2>1. \A u \in Threads : u # t => thr'[u] = thr[u]
    BY <1>0, <1>5, AnswerMove
  <2>2. UNCHANGED <<phone, caller_phone>> /\ thr[t].pc = "user"
    BY <1>5 DEF Answer, ForwardRefused
  <2> QED BY <2>1, <2>2, NoPhone DEF phone
<1>6. CASE WaitForCall(t)
  <2>1. \A u \in Threads : u # t => thr'[u] = thr[u]
    BY <1>0, <1>6, GotoFacts DEF WaitForCall, Types, PCs, SyscallPCs
  <2> QED BY <1>6, <2>1, NoPhone DEF WaitForCall, phone, call
<1>7. CASE Poke(t)
  BY <1>7, NoPhone DEF Poke, phone, call
<1> QED BY <1>1, <1>2, <1>3, <1>4, <1>5, <1>6, <1>7 DEF Request

LEMMA KernelPhone ==
    ASSUME IInv, NEW t \in Threads, KernelStep(t)
    PROVE  PhoneInv'
<1> DEFINE c == thr[t].call
           p == thr[t].phone
<1> USE Nones
<1>0. Types
  BY DEF IInv
<1>u. \A u \in Threads : u # t => thr'[u] = thr[u]
  BY OthersStay
<1>1. CASE Send(t) \/ Backsend(t) \/ BacksendSync(t)
  <2>1. /\ UNCHANGED <<state, lock, linked, callee, hangup_call>>
        /\ thr[t].pc \in {"call", "backsend"} /\ thr[t].pc # "hungup"
        /\ caller_phone' = [caller_phone EXCEPT ![c] = p]
    BY <1>1 DEF Send, Backsend, BacksendSync, CallActions
  <2>2. c \in Calls
    BY <2>1, HandCall
  <2>3. \A r \in Phones : caller_phone'[r] = caller_phone[r]
    BY <1>0, <2>1, <2>2 DEF Types
  <2> QED BY <2>1, <2>3, <1>u, NoPhone
<1>2. CASE \/ SendRefused(t) \/ Wakeup(t) \/ WaitFails(t) \/ DequeueAnswer(t) \/ DequeueRequest(t)
           \/ DequeueNothing(t) \/ Publish(t) \/ PublishFails(t) \/ PreprocessForgotten(t)
           \/ Deliver(t) \/ Discard(t) \/ Wake(t) \/ ForwardSend(t) \/ ForwardFails(t)
           \/ SyncReceive(t) \/ SyncInterrupted(t) \/ SyncForget(t) \/ SyncAnswered(t)
  <2>1. UNCHANGED <<state, lock, linked, callee, hangup_call, caller_phone>>
    BY <1>2 DEF SendRefused, Wakeup, WaitFails, DequeueAnswer, DequeueRequest, DequeueNothing,
                Publish, PublishFails, PreprocessForgotten, Deliver, Discard, Wake, ForwardSend,
                ForwardFails, SyncReceive, SyncInterrupted, SyncForget, SyncAnswered, phone, call
  <2>2. thr[t].pc # "hungup"
    BY <1>2 DEF SendRefused, Wakeup, WaitFails, DequeueAnswer, DequeueRequest, DequeueNothing,
                Publish, PublishFails, PreprocessForgotten, Deliver, Discard, Wake, ForwardSend,
                ForwardFails, SyncReceive, SyncInterrupted, SyncForget, SyncAnswered
  <2> QED BY <2>1, <2>2, <1>u, NoPhone
<1>3. CASE Preprocess(t)
  <2> DEFINE q == priv[c]
             connect == /\ q # None /\ retval[c] = "EOK"
                        /\ box_active[TaskOf[t]] /\ state[q] = "CONNECTING"
  <2>1. /\ thr[t].pc = "preprocess" /\ thr[t].pc # "hungup"
        /\ UNCHANGED <<lock, hangup_call, caller_phone>>
    BY <1>3 DEF Preprocess
  <2>2. CASE ~connect
    BY <1>3, <2>1, <2>2, <1>u, NoPhone DEF Preprocess
  <2>3. CASE connect
    <3>1. q \in Phones
      BY <1>0, <2>1, <2>3, HandFacts DEF Types, HolderPCs
    <3>2. PICK r \in Phones : r = q
      BY <3>1
    <3>3. /\ state' = [state EXCEPT ![r] = "CONNECTED"]
          /\ callee' = [callee EXCEPT ![r] = TaskOf[t]]
          /\ linked' = [linked EXCEPT ![r] = TRUE]
          /\ state[r] = "CONNECTING"
      BY <1>3, <2>3, <3>2 DEF Preprocess
    <3>4. \A s \in Phones : s # r => SamePhone(s)
      BY <1>0, <2>1, <3>3 DEF SamePhone, Types
    <3>l. \A s \in Phones : lock[s] # t
      BY <2>1, LockFacts
    <3>5. state'[r] = "CONNECTED" /\ callee'[r] = TaskOf[t] /\ linked'[r]
      BY <1>0, <3>3 DEF Types
    <3>6. lock[r] = None /\ hangup_call[r] /\ caller_phone[r] = None
      BY <3>3, LockFacts DEF PhoneOK
    <3>7. PhoneOK(r)'
      BY <2>1, <3>5, <3>6 DEF PhoneOK
    <3> QED BY <3>4, <3>l, <3>7, <1>u, OnePhone
  <2> QED BY <2>2, <2>3
<1>4. CASE SlamCaller(t)
  <2> DEFINE q == caller_phone[c]
  <2>1. /\ thr[t].pc = "slam" /\ thr[t].pc # "hungup" /\ lock[q] = None
        /\ UNCHANGED <<lock, callee, hangup_call, caller_phone>>
    BY <1>4 DEF SlamCaller, call
  <2>2. CASE state[q] # "CONNECTED"
    BY <1>4, <2>1, <2>2, <1>u, NoPhone DEF SlamCaller
  <2>3. CASE state[q] = "CONNECTED"
    <3>1. q \in Phones
      BY <2>1, HandCall DEF HolderPCs
    <3>2. /\ state' = [state EXCEPT ![q] = "SLAMMED"]
          /\ linked' = [linked EXCEPT ![q] = FALSE]
      BY <1>4, <2>3 DEF SlamCaller
    <3>q. PICK r \in Phones : r = q
      BY <3>1
    <3> HIDE DEF q
    <3>3. \A s \in Phones : s # r => SamePhone(s)
      BY <1>0, <2>1, <3>2, <3>q DEF SamePhone, Types
    <3>4. \A s \in Phones : lock[s] # t
      BY <2>1, LockFacts
    <3>5. state'[r] = "SLAMMED" /\ ~linked'[r] /\ lock[r] = None
      BY <1>0, <2>1, <3>2, <3>q DEF Types
    <3>6. hangup_call[r] /\ caller_phone[r] = None
      BY <2>3, <3>q, LockFacts DEF PhoneOK
    <3>7. PhoneOK(r)'
      BY <2>1, <3>5, <3>6 DEF PhoneOK
    <3> QED BY <3>3, <3>4, <3>7, <1>u, OnePhone
  <2> QED BY <2>2, <2>3
<1>5. CASE Unlist(t)
  <2>1. /\ thr[t].pc = "hangup" /\ lock[p] = None /\ state[p] = "CONNECTED" /\ Goto(t, "hungup")
        /\ lock' = [lock EXCEPT ![p] = t] /\ linked' = [linked EXCEPT ![p] = FALSE]
        /\ UNCHANGED <<state, callee, hangup_call, caller_phone>> /\ "hungup" \in PCs
    BY <1>5 DEF Unlist, call, PCs, SyscallPCs
  <2>2. PICK r \in Phones : r = p
    BY <2>1, HandFacts DEF PhonePCs
  <2>3. \A s \in Phones : s # r => SamePhone(s)
    BY <1>0, <2>1, <2>2 DEF SamePhone, Types
  <2>4. \A s \in Phones : lock[s] # t
    BY <2>1, LockFacts
  <2>5. lock'[r] = t /\ ~linked'[r] /\ state[r] = "CONNECTED"
    BY <1>0, <2>1, <2>2 DEF Types
  <2>6. thr'[t].pc = "hungup" /\ thr'[t].phone = r
    BY <1>0, <2>1, <2>2, GotoFacts DEF Types
  <2>7. PhoneOK(r)
    BY LockFacts
  <2>8. PhoneOK(r)'
    BY <2>1, <2>5, <2>6, <2>7 DEF PhoneOK
  <2> QED BY <2>3, <2>4, <2>8, <1>u, OnePhone
<1>6. CASE SendHungup(t)
  <2>1. /\ thr[t].pc = "hungup" /\ lock' = [lock EXCEPT ![p] = None]
        /\ state' = [state EXCEPT ![p] = "HUNGUP"] /\ hangup_call' = [hangup_call EXCEPT ![p] = FALSE]
        /\ caller_phone' = [caller_phone EXCEPT ![p] = p]
        /\ UNCHANGED <<callee, linked>>
    BY <1>6 DEF SendHungup, CallActions
  <2>2. p \in Phones /\ ~linked[p]
    BY <2>1, HandPhone DEF PhonePCs
  <2>3. PICK r \in Phones : r = p
    BY <2>2
  <2>4. \A s \in Phones : s # r => SamePhone(s)
    BY <1>0, <2>1, <2>3 DEF SamePhone, Types
  <2>5. \A s \in Phones : s # r => lock[s] # t
    BY <2>1, <2>3, LockFacts
  <2>6. lock'[r] = None /\ state'[r] = "HUNGUP" /\ ~hangup_call'[r] /\ ~linked'[r]
    BY <1>0, <2>1, <2>2, <2>3 DEF Types
  <2>7. PhoneOK(r)'
    BY <2>6 DEF PhoneOK
  <2> QED BY <2>4, <2>5, <2>7, <1>u, OnePhone
<1>7. CASE HangupSlammed(t)
  <2>1. /\ thr[t].pc = "hangup" /\ lock[p] = None /\ state[p] # "CONNECTED"
        /\ state' = [state EXCEPT ![p] = IF state[p] = "SLAMMED" THEN "HUNGUP" ELSE state[p]]
        /\ UNCHANGED <<lock, linked, callee, hangup_call, caller_phone>>
    BY <1>7 DEF HangupSlammed, call
  <2>2. PICK r \in Phones : r = p
    BY <2>1, HandFacts DEF PhonePCs
  <2>3. \A s \in Phones : s # r => SamePhone(s)
    BY <1>0, <2>1, <2>2 DEF SamePhone, Types
  <2>4. \A s \in Phones : lock[s] # t
    BY <2>1, LockFacts
  <2>5. state'[r] = (IF state[r] = "SLAMMED" THEN "HUNGUP" ELSE state[r]) /\ state[r] # "CONNECTED"
        /\ lock[r] = None
    BY <1>0, <2>1, <2>2 DEF Types
  <2>6. PhoneOK(r)
    BY LockFacts
  <2>7. PhoneOK(r)'
    BY <2>1, <2>5, <2>6 DEF PhoneOK
  <2> QED BY <2>3, <2>4, <2>7, <1>u, OnePhone
<1> QED BY <1>1, <1>2, <1>3, <1>4, <1>5, <1>6, <1>7 DEF KernelStep

LEMMA CleanupPhone ==
    ASSUME IInv, NEW t \in Threads, CleanupStep(t)
    PROVE  PhoneInv'
<1>0. Types
  BY DEF IInv
<1>u. \A u \in Threads : u # t => thr'[u] = thr[u]
  BY OthersStay
<1>1. CASE \/ Leave(t) \/ Exit(t) \/ HangAllDone(t) \/ SlamDone(t) \/ CleanupDone(t)
           \/ ForgetAllDone(t) \/ WaitAllDone(t) \/ WaitAll(t) \/ WaitAllAnswer(t)
           \/ WaitAllNothing(t) \/ WaitAllRequest(t) \/ CleanupCalls(t)
  <2>1. UNCHANGED <<state, lock, linked, callee, hangup_call, caller_phone>>
    BY <1>1 DEF Leave, Exit, HangAllDone, SlamDone, CleanupDone, ForgetAllDone, WaitAllDone, WaitAll,
                WaitAllAnswer, WaitAllNothing, WaitAllRequest, CleanupCalls, AnswerCall, phone, call
  <2>2. thr[t].pc # "hungup"
    BY <1>1 DEF Leave, Exit, HangAllDone, SlamDone, CleanupDone, ForgetAllDone, WaitAllDone, WaitAll,
                WaitAllAnswer, WaitAllNothing, WaitAllRequest, CleanupCalls
  <2> QED BY <1>u, <2>1, <2>2, NoPhone
<1>2. ASSUME NEW c \in AllCalls, CleanupDispatched(t, c) \/ ForgetAll(t, c) PROVE PhoneInv'
  <2>1. UNCHANGED <<state, lock, linked, callee, hangup_call, caller_phone>>
    BY <1>2 DEF CleanupDispatched, ForgetAll, AnswerCall, phone
  <2>2. thr[t].pc # "hungup"
    BY <1>2 DEF CleanupDispatched, ForgetAll
  <2> QED BY <1>u, <2>1, <2>2, NoPhone
<1>3. ASSUME NEW p \in Phones, HangAll(t, p) PROVE PhoneInv'
  <2>1. UNCHANGED <<state, lock, linked, callee, hangup_call, caller_phone>>
    BY <1>3 DEF HangAll, call
  <2>2. thr[t].pc # "hungup"
    BY <1>3 DEF HangAll
  <2> QED BY <1>u, <2>1, <2>2, NoPhone
<1>4. ASSUME NEW p \in Phones, SlamPhone(t, p) PROVE PhoneInv'
  <2>1. /\ thr[t].pc = "slam_all" /\ linked[p] /\ lock[p] = None
        /\ linked' = [linked EXCEPT ![p] = FALSE] /\ state' = [state EXCEPT ![p] = "SLAMMED"]
        /\ UNCHANGED <<lock, callee, hangup_call, caller_phone>>
    BY <1>4 DEF SlamPhone, call
  <2>2. \A s \in Phones : s # p => SamePhone(s)
    BY <1>0, <2>1 DEF SamePhone, Types
  <2>3. \A s \in Phones : lock[s] # t
    BY <2>1, LockFacts, Nones
  <2>4. state'[p] = "SLAMMED" /\ ~linked'[p]
    BY <1>0, <2>1 DEF Types
  <2>5. hangup_call[p] /\ caller_phone[p] = None
    BY <2>1, LockFacts DEF PhoneOK
  <2>6. PhoneOK(p)'
    BY <2>1, <2>4, <2>5 DEF PhoneOK
  <2> QED BY <1>u, <2>2, <2>3, <2>6, OnePhone
<1> QED BY <1>1, <1>2, <1>3, <1>4 DEF CleanupStep

LEMMA PhoneStep == IInv /\ [Next]_vars => PhoneInv'
<1> SUFFICES ASSUME IInv, [Next]_vars PROVE PhoneInv'
  OBVIOUS
<1>1. ASSUME UNCHANGED <<thr, phone, caller_phone>> PROVE PhoneInv'
  BY <1>1 DEF IInv, PhoneInv, PhoneOK, phone
<1>2. ASSUME NEW k \in Tasks, Kill(k) PROVE PhoneInv'
  BY <1>1, <1>2 DEF Kill, call
<1>3. CASE UNCHANGED vars
  BY <1>1, <1>3 DEF vars, phone
<1> QED BY <1>2, <1>3, RequestPhone, KernelPhone, CleanupPhone DEF Next

-----------------------------------------------------------------------------
(* Lists. *)

LEMMA NoList ==
    ASSUME ListInv, UNCHANGED <<calls, answers>>, \A u \in Threads : wq'[u] = wq[u]
    PROVE  ListInv'
BY DEF ListInv

LEMMA TaskWq ==
    ASSUME Types, NEW k \in Tasks, NEW n, wq' = Add(wq, k, n)
    PROVE  \A u \in Threads : wq'[u] = wq[u]
BY Nones DEF Add, Types

\* A message is put in the box of a task.
LEMMA PutRequest ==
    ASSUME IInv, NEW k \in Tasks, NEW c \in AllCalls, c \notin Elements(calls[k]),
           calls' = [calls EXCEPT ![k] = Append(@, c)], answers' = answers,
           wq' = Add(wq, k, 1)
    PROVE  ListInv'
<1>1. calls \in [Tasks -> Seq(AllCalls)] /\ \A j \in Tasks : IsInjective(calls[j])
  BY DEF IInv, Types, ListInv
<1>2. \A j \in Tasks : IsInjective(calls'[j])
  <2>1. /\ calls[k] \in Seq(AllCalls) /\ calls'[k] = Append(calls[k], c) /\ IsInjective(calls[k])
        /\ \A j \in Tasks : j # k => IsInjective(calls'[j])
    BY <1>1
  <2>2. IsInjective(calls'[k])
    BY <2>1, AppendList, ElementsFacts
  <2> QED BY <2>1, <2>2
<1>3. \A u \in Threads : wq'[u] = wq[u]
  BY TaskWq DEF IInv
<1> QED BY <1>2, <1>3 DEF IInv, ListInv

LEMMA TakeRequest ==
    ASSUME IInv, NEW k \in Tasks, calls[k] # <<>>,
           calls' = [calls EXCEPT ![k] = Tail(@)], UNCHANGED <<answers, wq>>
    PROVE  ListInv'
<1>1. calls \in [Tasks -> Seq(AllCalls)] /\ \A j \in Tasks : IsInjective(calls[j])
  BY DEF IInv, Types, ListInv
<1>2. \A j \in Tasks : IsInjective(calls'[j])
  <2>1. /\ calls[k] \in Seq(AllCalls) /\ calls'[k] = Tail(calls[k]) /\ IsInjective(calls[k])
        /\ \A j \in Tasks : j # k => IsInjective(calls'[j])
    BY <1>1
  <2>2. IsInjective(calls'[k])
    BY <2>1, TailList
  <2> QED BY <2>1, <2>2
<1> QED BY <1>2 DEF IInv, ListInv

LEMMA PutAnswer ==
    ASSUME IInv, NEW b \in Boxes, NEW c \in AllCalls, c \notin Elements(answers[b]),
           answers' = [answers EXCEPT ![b] = Append(@, c)], calls' = calls,
           \A u \in Threads : wq'[u] = wq[u]
    PROVE  ListInv'
<1>1. answers \in [Boxes -> Seq(AllCalls)] /\ \A j \in Boxes : IsInjective(answers[j])
  BY DEF IInv, Types, ListInv
<1>2. /\ \A j \in Boxes : IsInjective(answers'[j])
      /\ answers'[b] # <<>> /\ \A j \in Boxes : j # b => answers'[j] = answers[j]
  <2>1. /\ answers[b] \in Seq(AllCalls) /\ answers'[b] = Append(answers[b], c) /\ IsInjective(answers[b])
        /\ \A j \in Boxes : j # b => IsInjective(answers'[j]) /\ answers'[j] = answers[j]
    BY <1>1
  <2>2. IsInjective(answers'[b])
    BY <2>1, AppendList, ElementsFacts
  <2>3. answers'[b] # <<>>
    BY <2>1
  <2> QED BY <2>1, <2>2, <2>3
<1> QED BY <1>2, Nones DEF IInv, ListInv

LEMMA TakeAnswer ==
    ASSUME IInv, NEW b \in Boxes, answers[b] # <<>>,
           answers' = [answers EXCEPT ![b] = Tail(@)], calls' = calls,
           \A u \in Threads : u # b => wq'[u] = wq[u], b \in Threads => wq'[b] = 0
    PROVE  ListInv'
<1>1. answers \in [Boxes -> Seq(AllCalls)] /\ \A j \in Boxes : IsInjective(answers[j])
  BY DEF IInv, Types, ListInv
<1>2. /\ \A j \in Boxes : IsInjective(answers'[j])
      /\ \A j \in Boxes : j # b => answers'[j] = answers[j]
  <2>1. /\ answers[b] \in Seq(AllCalls) /\ answers'[b] = Tail(answers[b]) /\ IsInjective(answers[b])
        /\ \A j \in Boxes : j # b => IsInjective(answers'[j]) /\ answers'[j] = answers[j]
    BY <1>1
  <2>2. IsInjective(answers'[b])
    BY <2>1, TailList
  <2> QED BY <2>1, <2>2
<1> QED BY <1>2, Nones DEF IInv, ListInv

LEMMA RequestList ==
    ASSUME IInv, NEW t \in Threads, Request(t)
    PROVE  ListInv'
<1>0. Types /\ ListInv /\ TaskOf[t] \in Tasks
  BY Nones DEF IInv
<1>1. ASSUME NEW p \in Phones, NEW c \in Calls, CallAsync(t, p, c) \/ CallSync(t, p, c)
      PROVE  ListInv'
  BY <1>0, <1>1, NoList DEF CallAsync, CallSync, box
<1>2. ASSUME NEW p \in Phones, NEW c \in Calls, NEW q \in Phones, ConnectMeTo(t, p, c, q)
      PROVE  ListInv'
  BY <1>0, <1>2, NoList DEF ConnectMeTo, box
<1>3. ASSUME NEW p \in Phones, NEW c \in AllCalls, Forward(t, c, p) PROVE ListInv'
  BY <1>0, <1>3, NoList DEF Forward
<1>4. ASSUME NEW p \in Phones, SysHangup(t, p) PROVE ListInv'
  BY <1>0, <1>4, NoList DEF SysHangup, box
<1>5. ASSUME NEW c \in AllCalls, (\E rv \in UserRetvals : Answer(t, c, rv)) \/ ForwardRefused(t, c)
      PROVE  ListInv'
  BY <1>0, <1>5, NoList DEF Answer, ForwardRefused, box
<1>6. CASE WaitForCall(t)
  BY <1>0, <1>6, NoList DEF WaitForCall, box
<1>7. CASE Poke(t)
  BY <1>0, <1>7, NoList, TaskWq DEF Poke
<1> QED BY <1>1, <1>2, <1>3, <1>4, <1>5, <1>6, <1>7 DEF Request

LEMMA KernelList ==
    ASSUME IInv, NEW t \in Threads, KernelStep(t)
    PROVE  ListInv'
<1> DEFINE c == thr[t].call
           p == thr[t].phone
           k == TaskOf[t]
<1>0. Types /\ ListInv /\ k \in Tasks /\ k \in Boxes /\ k \notin Threads /\ t \in Boxes
  BY Nones DEF IInv
<1>1. CASE Send(t)
  <2>1. /\ thr[t].pc = "call" /\ state[p] = "CONNECTED"
        /\ calls' = [calls EXCEPT ![callee[p]] = Append(@, c)] /\ answers' = answers
        /\ wq' = Add(wq, callee[p], 1)
    BY <1>1 DEF Send
  <2>2. callee[p] \in Tasks /\ c \in AllCalls /\ Unsent(c, t)
    BY <2>1, HandPhone, HandFacts, HandCall DEF PhonePCs, HolderPCs
  <2>3. c \notin Elements(calls[callee[p]])
    BY <2>2 DEF Unsent, Where
  <2> HIDE DEF c, p
  <2> QED BY <2>1, <2>2, <2>3, PutRequest
<1>2. CASE \/ SendRefused(t) \/ BacksendSync(t) \/ WaitFails(t) \/ DequeueNothing(t) \/ Publish(t)
           \/ PublishFails(t) \/ Preprocess(t) \/ PreprocessForgotten(t) \/ SlamCaller(t)
           \/ Discard(t) \/ ForwardFails(t) \/ SyncInterrupted(t) \/ SyncForget(t)
           \/ SyncAnswered(t) \/ Unlist(t) \/ HangupSlammed(t)
  <2>1. UNCHANGED <<calls, answers, wq>>
    BY <1>2 DEF SendRefused, BacksendSync, WaitFails, DequeueNothing, Publish, PublishFails,
                Preprocess, PreprocessForgotten, SlamCaller, Discard, ForwardFails, SyncInterrupted,
                SyncForget, SyncAnswered, Unlist, HangupSlammed, box
  <2> QED BY <1>0, <2>1, NoList
<1>3. CASE Backsend(t)
  <2>1. /\ thr[t].pc = "backsend" /\ answers' = [answers EXCEPT ![k] = Append(@, c)]
        /\ calls' = calls /\ wq' = Add(wq, k, 1)
    BY <1>3 DEF Backsend
  <2>2. c \in AllCalls /\ Unsent(c, t)
    BY <2>1, HandFacts, HandCall DEF HolderPCs
  <2>3. c \notin Elements(answers[k])
    BY <1>0, <2>2 DEF Unsent, Where
  <2>4. \A u \in Threads : wq'[u] = wq[u]
    BY <1>0, <2>1, TaskWq
  <2> HIDE DEF c
  <2> QED BY <1>0, <2>1, <2>2, <2>3, <2>4, PutAnswer
<1>4. CASE Wakeup(t)
  <2>1. UNCHANGED <<calls, answers>> /\ wq' = Add(wq, k, -1)
    BY <1>4 DEF Wakeup
  <2>2. PICK n : n = -1
    OBVIOUS
  <2> QED BY <1>0, <2>1, <2>2, NoList, TaskWq
<1>5. CASE DequeueAnswer(t)
  <2>1. /\ answers[k] # <<>> /\ answers' = [answers EXCEPT ![k] = Tail(@)]
        /\ UNCHANGED <<calls, wq>>
    BY <1>5 DEF DequeueAnswer, ReceiveAnswer
  <2> QED BY <1>0, <2>1, TakeAnswer
<1>6. CASE DequeueRequest(t)
  <2>1. /\ calls[k] # <<>> /\ calls' = [calls EXCEPT ![k] = Tail(@)]
        /\ UNCHANGED <<answers, wq>>
    BY <1>6 DEF DequeueRequest
  <2> QED BY <1>0, <2>1, TakeRequest
<1>7. CASE Deliver(t)
  <2>1. /\ thr[t].pc = "deliver" /\ answers' = [answers EXCEPT ![callerbox[c]] = Append(@, c)]
        /\ UNCHANGED <<calls, wq>>
    BY <1>7 DEF Deliver
  <2>2. c \in AllCalls /\ Handled(c, t) /\ callerbox[c] \in Boxes
    BY <2>1, HandFacts, HandCall DEF HolderPCs
  <2>3. c \notin Elements(answers[callerbox[c]])
    BY <2>2 DEF Handled, Where
  <2> HIDE DEF c
  <2> QED BY <2>1, <2>2, <2>3, PutAnswer
<1>8. CASE Wake(t)
  <2>1. thr[t].pc = "wake" /\ UNCHANGED <<calls, answers>> /\ wq' = Add(wq, callerbox[c], 1)
    BY <1>8 DEF Wake
  <2>2. /\ c \in AllCalls /\ (Answered(c, {t}) \/ Done(c, {t}))
        /\ Sent(c) /\ callerbox[c] \in Boxes
    BY <2>1, HandFacts, HandCall DEF HolderPCs
  <2>3. callerbox[c] \in Threads => c \in SyncCalls
    BY <2>2, Nones DEF Sent
  <2>4. c \in SyncCalls => c \in Elements(answers[callerbox[c]])
    BY <2>2 DEF Answered, Done, Where
  <2>5. callerbox[c] \in Threads => answers[callerbox[c]] # <<>>
    <3>1. answers[callerbox[c]] \in Seq(AllCalls)
      BY <1>0, <2>2 DEF Types
    <3> QED BY <2>3, <2>4, <3>1, ElementsFacts
  <2>6. \A u \in Threads : u # callerbox[c] => wq'[u] = wq[u]
    BY <1>0, <2>1, <2>2, Nones, WqType DEF Types
  <2> QED BY <1>0, <2>1, <2>5, <2>6 DEF ListInv
<1>9. CASE ForwardSend(t)
  <2>1. /\ thr[t].pc = "forward" /\ state[p] = "CONNECTED"
        /\ calls' = [calls EXCEPT ![callee[p]] = Append(@, c)] /\ answers' = answers
        /\ wq' = Add(wq, callee[p], 1)
    BY <1>9 DEF ForwardSend
  <2>2. callee[p] \in Tasks /\ c \in AllCalls /\ Handled(c, t)
    BY <2>1, HandPhone, HandFacts, HandCall DEF PhonePCs, HolderPCs
  <2>3. c \notin Elements(calls[callee[p]])
    BY <2>2 DEF Handled, Where
  <2> HIDE DEF c, p
  <2> QED BY <2>1, <2>2, <2>3, PutRequest
<1>10. CASE SyncReceive(t)
  <2>1. /\ wq' = [wq EXCEPT ![t] = 0] /\ wq[t] > 0
        /\ answers' = [answers EXCEPT ![t] = Tail(@)] /\ calls' = calls
    BY <1>10 DEF SyncReceive, ReceiveAnswer, FreeMybox
  <2>2. answers[t] # <<>>
    BY <1>0, <2>1 DEF ListInv
  <2>3. wq'[t] = 0 /\ \A u \in Threads : u # t => wq'[u] = wq[u]
    BY <1>0, <2>1, Nones DEF Types
  <2> QED BY <1>0, <2>1, <2>2, <2>3, TakeAnswer
<1>11. CASE SendHungup(t)
  <2>1. /\ thr[t].pc = "hungup"
        /\ calls' = [calls EXCEPT ![callee[p]] = Append(@, p)] /\ answers' = answers
        /\ wq' = Add(wq, callee[p], 1)
    BY <1>11 DEF SendHungup
  <2>2. callee[p] \in Tasks /\ p \in Phones /\ hangup_call[p] /\ PhoneOK(p)
    BY <2>1, HandPhone DEF PhonePCs
  <2>3. p \in AllCalls /\ CallOK(p) /\ caller_phone[p] = None
    BY <2>2, Nones DEF IInv, CallInv, PhoneOK
  <2>4. p \notin Elements(calls[callee[p]])
    BY <2>2, <2>3, QueuedCall, Nones DEF Queued, Pending, Sent
  <2> HIDE DEF p
  <2> QED BY <2>1, <2>2, <2>3, <2>4, PutRequest
<1> QED BY <1>1, <1>2, <1>3, <1>4, <1>5, <1>6, <1>7, <1>8, <1>9, <1>10, <1>11 DEF KernelStep

LEMMA CleanupList ==
    ASSUME IInv, NEW t \in Threads, CleanupStep(t)
    PROVE  ListInv'
<1> DEFINE k == TaskOf[t]
<1>0. Types /\ ListInv /\ k \in Tasks /\ k \in Boxes /\ k \notin Threads
  BY Nones DEF IInv
<1>1. CASE \/ Leave(t) \/ Exit(t) \/ HangAllDone(t) \/ SlamDone(t) \/ CleanupDone(t)
           \/ ForgetAllDone(t) \/ WaitAllDone(t) \/ WaitAllNothing(t)
  <2>1. UNCHANGED <<calls, answers, wq>>
    BY <1>1 DEF Leave, Exit, HangAllDone, SlamDone, CleanupDone, ForgetAllDone, WaitAllDone,
                WaitAllNothing, box
  <2> QED BY <1>0, <2>1, NoList
<1>2. ASSUME NEW c \in AllCalls, CleanupDispatched(t, c) \/ ForgetAll(t, c) PROVE ListInv'
  <2>1. UNCHANGED <<calls, answers, wq>>
    BY <1>2 DEF CleanupDispatched, ForgetAll, AnswerCall
  <2> QED BY <1>0, <2>1, NoList
<1>3. ASSUME NEW p \in Phones, HangAll(t, p) \/ SlamPhone(t, p) PROVE ListInv'
  <2>1. UNCHANGED <<calls, answers, wq>>
    BY <1>3 DEF HangAll, SlamPhone, box
  <2> QED BY <1>0, <2>1, NoList
<1>4. CASE WaitAll(t)
  <2>1. UNCHANGED <<calls, answers>> /\ wq' = Add(wq, k, -1)
    BY <1>4 DEF WaitAll
  <2>2. PICK n : n = -1
    OBVIOUS
  <2> QED BY <1>0, <2>1, <2>2, NoList, TaskWq
<1>5. CASE WaitAllAnswer(t)
  <2>1. /\ answers[k] # <<>> /\ answers' = [answers EXCEPT ![k] = Tail(@)]
        /\ UNCHANGED <<calls, wq>>
    BY <1>5 DEF WaitAllAnswer, ReceiveAnswer
  <2> QED BY <1>0, <2>1, TakeAnswer
<1>6. CASE WaitAllRequest(t) \/ CleanupCalls(t)
  <2>1. /\ calls[k] # <<>> /\ calls' = [calls EXCEPT ![k] = Tail(@)]
        /\ UNCHANGED <<answers, wq>>
    BY <1>6 DEF WaitAllRequest, CleanupCalls, AnswerCall
  <2> QED BY <1>0, <2>1, TakeRequest
<1> QED BY <1>1, <1>2, <1>3, <1>4, <1>5, <1>6 DEF CleanupStep

LEMMA ListStep == IInv /\ [Next]_vars => ListInv'
<1> SUFFICES ASSUME IInv, [Next]_vars PROVE ListInv'
  OBVIOUS
<1>1. ASSUME UNCHANGED <<calls, answers, wq>> PROVE ListInv'
  BY <1>1, NoList DEF IInv
<1>2. ASSUME NEW k \in Tasks, Kill(k) PROVE ListInv'
  BY <1>1, <1>2 DEF Kill, box
<1>3. CASE UNCHANGED vars
  BY <1>1, <1>3 DEF vars
<1> QED BY <1>2, <1>3, RequestList, KernelList, CleanupList DEF Next

-----------------------------------------------------------------------------
(* Calls. *)

\* A step of t concerns at most call c.
LEMMA OneCall ==
    ASSUME IInv, NEW c, \A d \in AllCalls : d # c => Same(d), c \in AllCalls => CallOK(c)'
    PROVE  CallInv'
<1> SUFFICES ASSUME NEW d \in AllCalls, d # c PROVE CallOK(d)'
  BY DEF CallInv
<1>1. CallOK(d) /\ Same(d)
  BY DEF IInv, CallInv
<1> QED BY <1>1, SameCall

LEMMA OtherHands ==
    ASSUME NEW t \in Threads, \A u \in Threads : u # t => thr'[u] = thr[u]
    PROVE  \A d : \A u \in Threads : u # t => /\ Holds(u, d)' <=> Holds(u, d)
                                              /\ Waits(u, d)' <=> Waits(u, d)
BY DEF Holds, Waits

\* A synchronous call that is answered has its caller waiting.
LEMMA AnsweredWaits ==
    ASSUME IInv, NEW d \in AllCalls, d \in SyncCalls, NEW b \in Boxes, d \in Elements(answers[b])
    PROVE  callerbox[d] \in Threads /\ Waits(callerbox[d], d)
<1>1. CallOK(d)
  BY DEF IInv, CallInv
<1>2. PICK H \in OneOrNone : Answered(d, H)
  BY <1>1, AnsweredCall
<1> QED BY <1>2 DEF Answered, Sent, CallerWaits, WaitedBy

\* What a step leaves alone of call d.
LEMMA Untouched ==
    ASSUME IInv, NEW t \in Threads, \A u \in Threads : u # t => thr'[u] = thr[u],
           NEW d \in AllCalls,
           \/ thr'[t] = thr[t]
           \/ thr[t].call # d /\ thr'[t].call # d
           \/ Waits(t, d) /\ Waits(t, d)',
           \A k \in Tasks : /\ d \in Elements(calls'[k]) <=> d \in Elements(calls[k])
                            /\ d \in dispatched'[k] <=> d \in dispatched[k]
                            /\ d \in active_calls'[k] <=> d \in active_calls[k],
           \A b \in Boxes : d \in Elements(answers'[b]) <=> d \in Elements(answers[b]),
           caller_phone'[d] = caller_phone[d] /\ callerbox'[d] = callerbox[d],
           active'[d] = active[d] /\ forget'[d] = forget[d],
           call_cap'[d] = call_cap[d] /\ call_refs'[d] = call_refs[d],
           d \in Phones => hangup_call'[d] = hangup_call[d],
           \A u \in Threads : Waits(u, d) => wq'[u] = wq[u]
    PROVE  Same(d)
<1>1. d \in SyncCalls /\ (\E b \in Boxes : d \in Elements(answers[b])) =>
         wq'[callerbox[d]] = wq[callerbox[d]]
  BY AnsweredWaits
<1>2. \A u \in Threads : \/ thr'[u] = thr[u]
                         \/ thr[u].call # d /\ thr'[u].call # d
                         \/ Waits(u, d) /\ Waits(u, d)'
  OBVIOUS
<1> QED BY <1>1, <1>2 DEF Same

\* A step that concerns no call.
LEMMA Quiet ==
    ASSUME IInv, NEW t \in Threads, \A u \in Threads : u # t => thr'[u] = thr[u],
           thr'[t] = thr[t] \/ (thr[t].call = None /\ thr'[t].call = None),
           UNCHANGED <<calls, dispatched, answers, active_calls, hangup_call, caller_phone,
                       callerbox, active, forget, call_cap, call_refs>>,
           \A u \in Threads : wq'[u] = wq[u]
    PROVE  CallInv'
<1>1. \A d \in AllCalls : Same(d)
  BY Untouched, Nones
<1> QED BY <1>1, SameCall DEF IInv, CallInv

\* A step that leaves all of a call but its thread, which goes on with it.
LEMMA Untouched2 ==
    ASSUME IInv, NEW t \in Threads, \A u \in Threads : u # t => thr'[u] = thr[u],
           NEW c, thr[t].call \in {c, None}, thr'[t].call \in {c, None},
           UNCHANGED <<calls, dispatched, answers, active_calls, hangup_call, caller_phone,
                       callerbox, active, forget, call_cap, call_refs>>,
           \A u \in Threads : wq'[u] = wq[u]
    PROVE  \A d \in AllCalls : d # c => Same(d)
BY Untouched, Nones

LEMMA IdleFacts ==
    ASSUME IInv, NEW t \in Threads, thr[t].pc \notin HolderPCs \cup SyncPCs
    PROVE  thr[t].call = None
BY HandFacts DEF Shape

\* What a call put in a box, or taken from it, means for all calls.
LEMMA PutCalls ==
    ASSUME Types, NEW k \in Tasks, NEW c \in AllCalls,
           calls' = [calls EXCEPT ![k] = Append(@, c)]
    PROVE  \A i \in Tasks, d \in AllCalls :
              d \in Elements(calls'[i]) <=> d \in Elements(calls[i]) \/ (i = k /\ d = c)
<1>1. /\ calls[k] \in Seq(AllCalls) /\ calls'[k] = Append(calls[k], c)
      /\ \A i \in Tasks : i # k => calls'[i] = calls[i]
  BY DEF Types
<1>2. calls'[k] \in Seq(AllCalls) /\ ToSet(calls'[k]) = ToSet(calls[k]) \cup {c}
  BY <1>1, AppendList
<1>3. Elements(calls'[k]) = Elements(calls[k]) \cup {c}
  BY <1>1, <1>2, ElementsFacts
<1> QED BY <1>1, <1>3

LEMMA TakeCalls ==
    ASSUME Types, ListInv, NEW k \in Tasks, calls[k] # <<>>,
           calls' = [calls EXCEPT ![k] = Tail(@)]
    PROVE  /\ Head(calls[k]) \in AllCalls /\ Head(calls[k]) \in Elements(calls[k])
           /\ \A i \in Tasks, d \in AllCalls : d \in Elements(calls'[i]) <=>
                 d \in Elements(calls[i]) /\ ~(i = k /\ d = Head(calls[k]))
<1>1. /\ calls[k] \in Seq(AllCalls) /\ calls'[k] = Tail(calls[k]) /\ IsInjective(calls[k])
      /\ \A i \in Tasks : i # k => calls'[i] = calls[i]
  BY DEF Types, ListInv
<1>2. /\ calls'[k] \in Seq(AllCalls) /\ ToSet(calls'[k]) = ToSet(calls[k]) \ {Head(calls[k])}
      /\ Head(calls[k]) \in AllCalls /\ Head(calls[k]) \in ToSet(calls[k])
  BY <1>1, TailList
<1>3. /\ Elements(calls'[k]) = Elements(calls[k]) \ {Head(calls[k])}
      /\ Head(calls[k]) \in Elements(calls[k])
  BY <1>1, <1>2, ElementsFacts
<1> QED BY <1>1, <1>2, <1>3

LEMMA PutAnswers ==
    ASSUME Types, NEW b \in Boxes, NEW c \in AllCalls,
           answers' = [answers EXCEPT ![b] = Append(@, c)]
    PROVE  \A i \in Boxes, d \in AllCalls :
              d \in Elements(answers'[i]) <=> d \in Elements(answers[i]) \/ (i = b /\ d = c)
<1>1. /\ answers[b] \in Seq(AllCalls) /\ answers'[b] = Append(answers[b], c)
      /\ \A i \in Boxes : i # b => answers'[i] = answers[i]
  BY DEF Types
<1>2. answers'[b] \in Seq(AllCalls) /\ ToSet(answers'[b]) = ToSet(answers[b]) \cup {c}
  BY <1>1, AppendList
<1>3. Elements(answers'[b]) = Elements(answers[b]) \cup {c}
  BY <1>1, <1>2, ElementsFacts
<1> QED BY <1>1, <1>3

LEMMA TakeAnswers ==
    ASSUME Types, ListInv, NEW b \in Boxes, answers[b] # <<>>,
           answers' = [answers EXCEPT ![b] = Tail(@)]
    PROVE  /\ Head(answers[b]) \in AllCalls /\ Head(answers[b]) \in Elements(answers[b])
           /\ \A i \in Boxes, d \in AllCalls : d \in Elements(answers'[i]) <=>
                 d \in Elements(answers[i]) /\ ~(i = b /\ d = Head(answers[b]))
<1>1. /\ answers[b] \in Seq(AllCalls) /\ answers'[b] = Tail(answers[b]) /\ IsInjective(answers[b])
      /\ \A i \in Boxes : i # b => answers'[i] = answers[i]
  BY DEF Types, ListInv
<1>2. /\ answers'[b] \in Seq(AllCalls) /\ ToSet(answers'[b]) = ToSet(answers[b]) \ {Head(answers[b])}
      /\ Head(answers[b]) \in AllCalls /\ Head(answers[b]) \in ToSet(answers[b])
  BY <1>1, TailList
<1>3. /\ Elements(answers'[b]) = Elements(answers[b]) \ {Head(answers[b])}
      /\ Head(answers[b]) \in Elements(answers[b])
  BY <1>1, <1>2, ElementsFacts
<1> QED BY <1>1, <1>2, <1>3

\* A call is made: it is in the hands of its sender.
LEMMA CallAsyncCall ==
    ASSUME IInv, NEW t \in Threads, NEW p \in Phones, NEW c \in Calls,
           CallAsync(t, p, c) \/ CallSync(t, p, c) \/ \E q \in Phones : ConnectMeTo(t, p, c, q)
    PROVE  CallInv'
<1> USE Nones
<1>0. /\ Types /\ c \in AllCalls /\ c \notin Phones /\ CallOK(c) /\ thr[t].pc = "user" /\ Unused(c)
      /\ call_refs \in [AllCalls -> Int] /\ hangup_call \in [Phones -> BOOLEAN]
  BY DEF IInv, CallInv, Types, CallAsync, CallSync, ConnectMeTo
<1>1. UNCHANGED <<box, caller_phone, callerbox, active, forget, call_cap, active_calls>>
  BY DEF CallAsync, CallSync, ConnectMeTo
<1>2. /\ \A u \in Threads : u # t => thr'[u] = thr[u]
      /\ thr'[t].pc \in {"call", "backsend"} /\ thr'[t].call = c /\ thr'[t].ref = 0
  BY <1>0, CallAsyncMove
<1>3. thr[t].call = None
  BY <1>0, IdleFacts DEF HolderPCs, SyncPCs
<1>4. Fresh(c)
  BY <1>0, UnusedCall
<1>5. \A u \in Threads : /\ Holds(u, c)' <=> u = t
                         /\ ~Waits(u, c)'
  <2>1. \A u \in Threads : ~Holds(u, c) /\ ~Waits(u, c)
    BY <1>4 DEF Fresh, Where, NotSent, WaitedBy
  <2> QED BY <1>2, <2>1, OtherHands DEF Holds, Waits, HolderPCs, SyncPCs
<1>6. NotSent(c)' /\ Where(c, {}, {}, {}, {t})'
  BY <1>1, <1>4, <1>5 DEF Fresh, NotSent, Where, ActiveIn, WaitedBy, box
<1>7. call_refs'[c] = IF c \in SyncCalls THEN 2 ELSE 1
  BY <1>0, IpcAssumption DEF CallAsync, CallSync, ConnectMeTo
<1>8. CallOK(c)'
  <2>1. Unsent(c, t)'
    BY <1>2, <1>6, <1>7 DEF Unsent
  <2> QED BY <2>1 DEF CallOK
<1>9. ASSUME NEW d \in AllCalls, d # c, call_refs'[d] = call_refs[d],
             d \in Phones => hangup_call'[d] = hangup_call[d]
      PROVE  Same(d)
  BY <1>1, <1>2, <1>3, <1>9, Untouched DEF box
<1>10. CASE CallAsync(t, p, c) \/ CallSync(t, p, c)
  <2>1. \A d \in AllCalls : d # c => call_refs'[d] = call_refs[d] /\ hangup_call' = hangup_call
    BY <1>0, <1>10 DEF CallAsync, CallSync
  <2> QED BY <1>8, <1>9, <2>1, OneCall
<1>11. ASSUME NEW q \in Phones, ConnectMeTo(t, p, c, q) PROVE CallInv'
  <2>1. /\ state[q] = "FREE" /\ q \in AllCalls /\ q # c
        /\ call_refs' = [call_refs EXCEPT ![c] = 1, ![q] = 1]
        /\ hangup_call' = [hangup_call EXCEPT ![q] = TRUE]
    BY <1>0, <1>11 DEF ConnectMeTo
  <2>2. \A d \in AllCalls : d # c /\ d # q => Same(d)
    BY <1>0, <1>9, <2>1
  <2>3. Fresh(q)
    <3>1. PhoneOK(q) /\ CallOK(q)
      BY <2>1 DEF IInv, PhoneInv, CallInv
    <3>2. \A u \in Threads : ~Unsent(q, u)
      BY DEF Unsent
    <3> QED BY <2>1, <3>1, <3>2, UnsentCall DEF PhoneOK
  <2>4. \A u \in Threads : ~Holds(u, q)' /\ ~Waits(u, q)'
    <3>1. \A u \in Threads : ~Holds(u, q) /\ ~Waits(u, q)
      BY <2>3 DEF Fresh, Where, NotSent, WaitedBy
    <3> QED BY <1>2, <2>1, <3>1, OtherHands DEF Holds, Waits
  <2>5. NotSent(q)' /\ Where(q, {}, {}, {}, {})'
    BY <1>1, <2>3, <2>4 DEF Fresh, NotSent, Where, ActiveIn, WaitedBy, box
  <2>6. call_refs'[q] = 1 /\ hangup_call'[q]
    BY <1>0, <2>1
  <2>7. CallOK(q)'
    BY <2>5, <2>6 DEF Fresh, CallOK
  <2>8. \A d \in AllCalls : d # c /\ d # q => CallOK(d)'
    BY <2>2, SameCall DEF IInv, CallInv
  <2> QED BY <1>8, <2>7, <2>8 DEF CallInv
<1> QED BY <1>10, <1>11

\* A call is sent: it is queued in the box of the callee.
LEMMA SendCall ==
    ASSUME IInv, NEW t \in Threads, Send(t)
    PROVE  CallInv'
<1> USE Nones
<1>c. PICK c \in AllCalls : c = thr[t].call /\ c \in Calls
  BY HandFacts, HandCall DEF Send, HolderPCs
<1>p. PICK p \in Phones : p = thr[t].phone
  BY HandFacts DEF Send, PhonePCs
<1>j. PICK j \in Tasks : j = callee[p]
  BY <1>p, HandPhone DEF Send, PhonePCs
<1>k. PICK k \in Tasks : k = TaskOf[t]
  OBVIOUS
<1>b. PICK b \in Boxes : b = ReplyBox(t, c)
  BY <1>k DEF ReplyBox
<1>0. /\ Types /\ thr[t].pc = "call" /\ CallOK(c) /\ Unsent(c, t) /\ Shape(thr[t])
      /\ thr \in [Threads -> ThreadType]
  BY <1>c, HandFacts, HandCall DEF IInv, CallInv, Send
<1>1. /\ calls' = [calls EXCEPT ![j] = Append(@, c)]
      /\ active_calls' = [active_calls EXCEPT ![k] = @ \cup {c}]
      /\ caller_phone' = [caller_phone EXCEPT ![c] = p]
      /\ callerbox' = [callerbox EXCEPT ![c] = b]
      /\ active' = [active EXCEPT ![c] = TRUE]
      /\ wq' = Add(wq, j, 1)
      /\ UNCHANGED <<dispatched, answers, hangup_call, call_refs, forget, call_cap>>
  BY <1>c, <1>p, <1>j, <1>k, <1>b DEF Send, CallActions
<1>2. (c \in SyncCalls => Goto(t, "sync")) /\ (c \notin SyncCalls => Return(t))
  BY <1>c DEF Send
<1>3. /\ \A u \in Threads : u # t => thr'[u] = thr[u]
      /\ c \in SyncCalls => thr'[t].call = c /\ thr'[t].pc = "sync"
      /\ c \notin SyncCalls => thr'[t].call = None
  <2>1. "sync" \in PCs
    BY DEF PCs, SyscallPCs
  <2> QED BY <1>0, <1>2, <1>c, <2>1, GotoFacts, ReturnFacts
<1>4. \A i \in Tasks, d \in AllCalls :
         d \in Elements(calls'[i]) <=> d \in Elements(calls[i]) \/ (i = j /\ d = c)
  BY <1>0, <1>1, PutCalls
<1>5. \A u \in Threads : wq'[u] = wq[u]
  BY <1>0, <1>1, TaskWq
<1>6. ASSUME NEW d \in AllCalls, d # c PROVE Same(d)
  <2>1. /\ caller_phone'[d] = caller_phone[d] /\ callerbox'[d] = callerbox[d]
        /\ active'[d] = active[d] /\ \A i \in Tasks : d \in active_calls'[i] <=> d \in active_calls[i]
    BY <1>0, <1>1, <1>6 DEF Types
  <2>2. thr[t].call # d /\ thr'[t].call # d
    BY <1>3, <1>c, <1>6
  <2>3. /\ \A i \in Tasks : /\ d \in Elements(calls'[i]) <=> d \in Elements(calls[i])
                            /\ d \in dispatched'[i] <=> d \in dispatched[i]
                            /\ d \in active_calls'[i] <=> d \in active_calls[i]
        /\ \A i \in Boxes : d \in Elements(answers'[i]) <=> d \in Elements(answers[i])
        /\ forget'[d] = forget[d] /\ call_cap'[d] = call_cap[d] /\ call_refs'[d] = call_refs[d]
        /\ hangup_call'[d] = hangup_call[d]
    BY <1>1, <1>4, <1>6, <2>1
  <2> QED BY <1>3, <1>5, <2>1, <2>2, <2>3, Untouched
<1>7. caller_phone'[c] = p /\ callerbox'[c] = b /\ active'[c] /\ ~forget'[c] /\ call_cap'[c] = None
      /\ ActiveIn(c, {k})'
  BY <1>0, <1>1 DEF Types, Unsent, NotSent, ActiveIn
<1>8. \A u \in Threads : ~Holds(u, c)' /\ (Waits(u, c)' <=> u = t /\ c \in SyncCalls)
  <2>1. \A u \in Threads : (Holds(u, c) <=> u = t) /\ ~Waits(u, c)
    BY <1>0 DEF Unsent, NotSent, Where, WaitedBy
  <2> QED BY <1>3, <2>1, OtherHands DEF Holds, Waits, HolderPCs, SyncPCs
<1>9. (c \in SyncCalls => b = t) /\ (c \notin SyncCalls => b = k)
  BY <1>b, <1>k DEF ReplyBox
<1>10. Pending(c)'
  <2>1. Owner(c)' = k
    BY <1>7, <1>9, <1>k DEF Owner
  <2>2. CallerWaits(c)'
    BY <1>7, <1>8, <1>9 DEF CallerWaits, WaitedBy
  <2>3. Sent(c)'
    BY <1>7, <1>9 DEF Sent
  <2> QED BY <1>7, <2>1, <2>2, <2>3 DEF Pending
<1>11. Where(c, {j}, {}, {}, {})'
  BY <1>0, <1>1, <1>4, <1>8 DEF Unsent, Where
<1>12. call_refs'[c] = 1 + CallerRef(c)'
  BY <1>0, <1>1, <1>7 DEF Unsent, CallerRef
<1>13. CallOK(c)'
  <2>1. Queued(c, j)'
    BY <1>7, <1>10, <1>11, <1>12 DEF Queued
  <2> QED BY <2>1 DEF CallOK
<1> QED BY <1>6, <1>13, OneCall

LEMMA SendRefusedCall ==
    ASSUME IInv, NEW t \in Threads, SendRefused(t)
    PROVE  CallInv'
<1>c. PICK c \in AllCalls : c = thr[t].call
  BY HandFacts DEF SendRefused, HolderPCs
<1>0. thr[t].pc = "call" /\ Unsent(c, t) /\ thr \in [Threads -> ThreadType] /\ "backsend" \in PCs
  BY <1>c, HandFacts, HandCall DEF SendRefused, PCs, SyscallPCs
<1>1. UNCHANGED <<calls, dispatched, answers, active_calls, hangup_call, caller_phone,
                  callerbox, active, forget, call_cap, call_refs, wq>>
  BY DEF SendRefused, box, phone, call
<1>2. /\ \A u \in Threads : u # t => thr'[u] = thr[u]
      /\ thr'[t].pc = "backsend" /\ thr'[t].call = c
  BY <1>0, <1>c, GotoFacts DEF SendRefused
<1>3. \A d \in AllCalls : d # c => Same(d)
  BY <1>1, <1>2, <1>c, Untouched2
<1>4. \A u \in Threads : (Holds(u, c)' <=> u = t) /\ ~Waits(u, c)'
  <2>1. \A u \in Threads : (Holds(u, c) <=> u = t) /\ ~Waits(u, c)
    BY <1>0 DEF Unsent, NotSent, Where, WaitedBy
  <2> QED BY <1>2, <2>1, OtherHands DEF Holds, Waits, HolderPCs, SyncPCs
<1>5. NotSent(c)' /\ Where(c, {}, {}, {}, {t})'
  BY <1>0, <1>1, <1>4 DEF Unsent, NotSent, Where, ActiveIn, WaitedBy
<1>6. Unsent(c, t)'
  BY <1>0, <1>1, <1>2, <1>5 DEF Unsent
<1>7. CallOK(c)'
  BY <1>6 DEF CallOK
<1> QED BY <1>3, <1>7, OneCall

\* A call that cannot be sent is answered by its own kernel.
LEMMA BacksendCall ==
    ASSUME IInv, NEW t \in Threads, Backsend(t)
    PROVE  CallInv'
<1> USE Nones
<1>c. PICK c \in AllCalls : c = thr[t].call /\ c \in Calls
  BY HandFacts, HandCall DEF Backsend, HolderPCs
<1>p. PICK p \in Phones : p = thr[t].phone
  BY HandFacts DEF Backsend, PhonePCs
<1>k. PICK k \in Tasks : k = TaskOf[t]
  OBVIOUS
<1>0. /\ Types /\ thr[t].pc = "backsend" /\ Unsent(c, t) /\ Shape(thr[t])
      /\ thr \in [Threads -> ThreadType] /\ c \notin SyncCalls
  BY <1>c, HandFacts, HandCall DEF IInv, Backsend
<1>1. /\ answers' = [answers EXCEPT ![k] = Append(@, c)]
      /\ caller_phone' = [caller_phone EXCEPT ![c] = p]
      /\ callerbox' = [callerbox EXCEPT ![c] = k]
      /\ active' = [active EXCEPT ![c] = TRUE]
      /\ wq' = Add(wq, k, 1) /\ Return(t)
      /\ UNCHANGED <<calls, dispatched, active_calls, hangup_call, call_refs, forget, call_cap>>
  BY <1>c, <1>p, <1>k DEF Backsend, CallActions
<1>3. (\A u \in Threads : u # t => thr'[u] = thr[u]) /\ thr'[t].call = None
  BY <1>0, <1>1, ReturnFacts
<1>4. \A i \in Boxes, d \in AllCalls :
         d \in Elements(answers'[i]) <=> d \in Elements(answers[i]) \/ (i = k /\ d = c)
  BY <1>0, <1>1, PutAnswers
<1>5. \A u \in Threads : wq'[u] = wq[u]
  BY <1>0, <1>1, TaskWq
<1>6. ASSUME NEW d \in AllCalls, d # c PROVE Same(d)
  <2>1. /\ caller_phone'[d] = caller_phone[d] /\ callerbox'[d] = callerbox[d]
        /\ active'[d] = active[d]
    BY <1>0, <1>1, <1>6 DEF Types
  <2>2. thr[t].call # d /\ thr'[t].call # d
    BY <1>3, <1>c, <1>6
  <2>3. /\ \A i \in Tasks : /\ d \in Elements(calls'[i]) <=> d \in Elements(calls[i])
                            /\ d \in dispatched'[i] <=> d \in dispatched[i]
                            /\ d \in active_calls'[i] <=> d \in active_calls[i]
        /\ \A i \in Boxes : d \in Elements(answers'[i]) <=> d \in Elements(answers[i])
        /\ forget'[d] = forget[d] /\ call_cap'[d] = call_cap[d] /\ call_refs'[d] = call_refs[d]
        /\ hangup_call'[d] = hangup_call[d]
    BY <1>1, <1>4, <1>6, <2>1
  <2> QED BY <1>3, <1>5, <2>1, <2>2, <2>3, Untouched
<1>7. caller_phone'[c] = p /\ callerbox'[c] = k /\ ~forget'[c] /\ call_cap'[c] = None
      /\ ActiveIn(c, {})'
  BY <1>0, <1>1 DEF Types, Unsent, NotSent, ActiveIn
<1>8. \A u \in Threads : ~Holds(u, c)' /\ ~Waits(u, c)'
  <2>1. \A u \in Threads : (Holds(u, c) <=> u = t) /\ ~Waits(u, c)
    BY <1>0 DEF Unsent, NotSent, Where, WaitedBy
  <2> QED BY <1>3, <2>1, OtherHands DEF Holds, Waits
<1>9. Where(c, {}, {}, {k}, {})'
  BY <1>0, <1>1, <1>4, <1>8 DEF Unsent, Where
<1>10. Sent(c)' /\ CallerWaits(c)' /\ CallerRef(c)' = 0
  BY <1>0, <1>7, <1>8 DEF Sent, CallerWaits, WaitedBy, CallerRef
<1>11. call_refs'[c] = 1 /\ WakerRef({})' = 0
  BY <1>0, <1>1 DEF Unsent, WakerRef
<1>12. CallOK(c)'
  <2>1. Answered(c, {})'
    BY <1>0, <1>7, <1>9, <1>10, <1>11 DEF Answered
  <2> QED BY <2>1 DEF CallOK, OneOrNone
<1> QED BY <1>6, <1>12, OneCall

LEMMA BacksendSyncCall ==
    ASSUME IInv, NEW t \in Threads, BacksendSync(t)
    PROVE  CallInv'
<1> USE Nones
<1>c. PICK c \in AllCalls : c = thr[t].call /\ c \in Calls
  BY HandFacts, HandCall DEF BacksendSync, HolderPCs
<1>p. PICK p \in Phones : p = thr[t].phone
  BY HandFacts DEF BacksendSync, PhonePCs
<1>0. /\ Types /\ thr[t].pc = "backsend" /\ Unsent(c, t) /\ Shape(thr[t])
      /\ thr \in [Threads -> ThreadType] /\ c \in SyncCalls
  BY <1>c, HandFacts, HandCall DEF IInv, BacksendSync
<1>1. /\ caller_phone' = [caller_phone EXCEPT ![c] = p]
      /\ callerbox' = [callerbox EXCEPT ![c] = t]
      /\ active' = [active EXCEPT ![c] = TRUE]
      /\ call_refs' = Add(call_refs, c, -2) /\ Return(t)
      /\ UNCHANGED <<calls, dispatched, answers, active_calls, hangup_call, forget, call_cap, wq>>
  BY <1>c, <1>p DEF BacksendSync, CallActions, box
<1>2. call_refs'[c] = call_refs[c] - 2 /\ \A d \in AllCalls : d # c => call_refs'[d] = call_refs[d]
  BY <1>0, <1>1 DEF Types, Add
<1>3. (\A u \in Threads : u # t => thr'[u] = thr[u]) /\ thr'[t].call = None
  BY <1>0, <1>1, ReturnFacts
<1>6. ASSUME NEW d \in AllCalls, d # c PROVE Same(d)
  <2>1. /\ caller_phone'[d] = caller_phone[d] /\ callerbox'[d] = callerbox[d]
        /\ active'[d] = active[d] /\ call_refs'[d] = call_refs[d]
    BY <1>0, <1>1, <1>2, <1>6 DEF Types
  <2>2. thr[t].call # d /\ thr'[t].call # d
    BY <1>3, <1>c, <1>6
  <2> QED BY <1>1, <1>3, <2>1, <2>2, Untouched
<1>7. caller_phone'[c] = p /\ callerbox'[c] = t /\ ~forget'[c] /\ call_cap'[c] = None
      /\ ActiveIn(c, {})'
  BY <1>0, <1>1 DEF Types, Unsent, NotSent, ActiveIn
<1>8. \A u \in Threads : ~Holds(u, c)' /\ ~Waits(u, c)'
  <2>1. \A u \in Threads : (Holds(u, c) <=> u = t) /\ ~Waits(u, c)
    BY <1>0 DEF Unsent, NotSent, Where, WaitedBy
  <2> QED BY <1>3, <2>1, OtherHands DEF Holds, Waits
<1>9. Where(c, {}, {}, {}, {})' /\ WaitedBy(c, {})'
  BY <1>0, <1>1, <1>8 DEF Unsent, Where, WaitedBy
<1>10. Sent(c)'
  BY <1>0, <1>7 DEF Sent
<1>11. call_refs'[c] = 0 /\ WakerRef({})' = 0
  BY <1>0, <1>2 DEF Unsent, WakerRef
<1>12. CallOK(c)'
  <2>1. Done(c, {})'
    BY <1>0, <1>7, <1>9, <1>10, <1>11 DEF Done
  <2> QED BY <2>1 DEF CallOK, OneOrNone
<1> QED BY <1>6, <1>12, OneCall

\* Hanging up sends the hangup call of the phone.
LEMMA SendHungupCall ==
    ASSUME IInv, NEW t \in Threads, SendHungup(t)
    PROVE  CallInv'
<1> USE Nones
<1>p. PICK p \in Phones : p = thr[t].phone
  BY HandFacts DEF SendHungup, PhonePCs
<1>j. PICK j \in Tasks : j = callee[p]
  BY <1>p, HandPhone DEF SendHungup, PhonePCs
<1>k. PICK k \in Tasks : k = TaskOf[t]
  OBVIOUS
<1>0. /\ Types /\ thr[t].pc = "hungup" /\ Shape(thr[t]) /\ p \in AllCalls /\ p \notin SyncCalls
      /\ thr \in [Threads -> ThreadType] /\ thr[t].call = None
  BY HandFacts, IdleFacts DEF IInv, SendHungup, HolderPCs, SyncPCs
<1>f. Fresh(p) /\ call_refs[p] = 1
  <2>1. hangup_call[p] /\ PhoneOK(p) /\ CallOK(p)
    BY <1>0, <1>p, HandPhone DEF PhonePCs, IInv, CallInv
  <2>2. \A u \in Threads : ~Unsent(p, u)
    BY DEF Unsent
  <2>3. Fresh(p)
    BY <1>0, <2>1, <2>2, UnsentCall DEF PhoneOK
  <2> QED BY <2>1, <2>3 DEF Fresh
<1>1. /\ calls' = [calls EXCEPT ![j] = Append(@, p)]
      /\ active_calls' = [active_calls EXCEPT ![k] = @ \cup {p}]
      /\ caller_phone' = [caller_phone EXCEPT ![p] = p]
      /\ callerbox' = [callerbox EXCEPT ![p] = k]
      /\ active' = [active EXCEPT ![p] = TRUE]
      /\ hangup_call' = [hangup_call EXCEPT ![p] = FALSE]
      /\ wq' = Add(wq, j, 1) /\ Return(t)
      /\ UNCHANGED <<dispatched, answers, call_refs, forget, call_cap>>
  BY <1>p, <1>j, <1>k DEF SendHungup, CallActions
<1>3. (\A u \in Threads : u # t => thr'[u] = thr[u]) /\ thr'[t].call = None
  BY <1>0, <1>1, ReturnFacts
<1>4. \A i \in Tasks, d \in AllCalls :
         d \in Elements(calls'[i]) <=> d \in Elements(calls[i]) \/ (i = j /\ d = p)
  BY <1>0, <1>1, PutCalls
<1>5. \A u \in Threads : wq'[u] = wq[u]
  BY <1>0, <1>1, TaskWq
<1>6. ASSUME NEW d \in AllCalls, d # p PROVE Same(d)
  <2>1. /\ caller_phone'[d] = caller_phone[d] /\ callerbox'[d] = callerbox[d]
        /\ active'[d] = active[d] /\ \A i \in Tasks : d \in active_calls'[i] <=> d \in active_calls[i]
        /\ d \in Phones => hangup_call'[d] = hangup_call[d]
    BY <1>0, <1>1, <1>6 DEF Types
  <2>2. thr[t].call # d /\ thr'[t].call # d
    BY <1>0, <1>3
  <2>3. /\ \A i \in Tasks : /\ d \in Elements(calls'[i]) <=> d \in Elements(calls[i])
                            /\ d \in dispatched'[i] <=> d \in dispatched[i]
                            /\ d \in active_calls'[i] <=> d \in active_calls[i]
        /\ \A i \in Boxes : d \in Elements(answers'[i]) <=> d \in Elements(answers[i])
        /\ forget'[d] = forget[d] /\ call_cap'[d] = call_cap[d] /\ call_refs'[d] = call_refs[d]
    BY <1>1, <1>4, <1>6, <2>1
  <2> QED BY <1>3, <1>5, <2>1, <2>2, <2>3, Untouched
<1>7. caller_phone'[p] = p /\ callerbox'[p] = k /\ active'[p] /\ ~forget'[p] /\ call_cap'[p] = None
      /\ ActiveIn(p, {k})'
  BY <1>0, <1>1, <1>f DEF Types, Fresh, NotSent, ActiveIn
<1>8. \A u \in Threads : ~Holds(u, p)' /\ ~Waits(u, p)'
  <2>1. \A u \in Threads : ~Holds(u, p) /\ ~Waits(u, p)
    BY <1>f DEF Fresh, NotSent, Where, WaitedBy
  <2> QED BY <1>3, <2>1, OtherHands DEF Holds, Waits
<1>10. Pending(p)'
  <2>1. Owner(p)' = k
    BY <1>0, <1>7 DEF Owner
  <2>2. CallerWaits(p)'
    BY <1>0, <1>8 DEF CallerWaits, WaitedBy
  <2>3. Sent(p)'
    BY <1>0, <1>7 DEF Sent
  <2> QED BY <1>7, <2>1, <2>2, <2>3 DEF Pending
<1>11. Where(p, {j}, {}, {}, {})'
  BY <1>f, <1>1, <1>4, <1>8 DEF Fresh, Where
<1>12. call_refs'[p] = 1 + CallerRef(p)'
  BY <1>f, <1>0, <1>1 DEF CallerRef
<1>13. CallOK(p)'
  <2>1. Queued(p, j)'
    BY <1>7, <1>10, <1>11, <1>12 DEF Queued
  <2> QED BY <2>1 DEF CallOK
<1> QED BY <1>0, <1>6, <1>13, OneCall

\* A step of t that concerns call c and changes no phone's hangup call.
LEMMA OnlyCall ==
    ASSUME IInv, NEW t \in Threads, \A u \in Threads : u # t => thr'[u] = thr[u],
           NEW c \in AllCalls, thr[t].call \in {c, None}, thr'[t].call \in {c, None},
           UNCHANGED <<caller_phone, callerbox, hangup_call>>,
           \A i \in Tasks, d \in AllCalls : d # c =>
              /\ d \in Elements(calls'[i]) <=> d \in Elements(calls[i])
              /\ d \in dispatched'[i] <=> d \in dispatched[i]
              /\ d \in active_calls'[i] <=> d \in active_calls[i],
           \A i \in Boxes, d \in AllCalls : d # c =>
              (d \in Elements(answers'[i]) <=> d \in Elements(answers[i])),
           \A d \in AllCalls : d # c =>
              /\ active'[d] = active[d] /\ forget'[d] = forget[d]
              /\ call_cap'[d] = call_cap[d] /\ call_refs'[d] = call_refs[d],
           \A u \in Threads, d \in AllCalls : d # c /\ Waits(u, d) => wq'[u] = wq[u],
           CallOK(c)'
    PROVE  CallInv'
<1>1. ASSUME NEW d \in AllCalls, d # c PROVE Same(d)
  <2>1. thr[t].call # d /\ thr'[t].call # d
    BY <1>1, Nones
  <2>2. /\ \A i \in Tasks : /\ d \in Elements(calls'[i]) <=> d \in Elements(calls[i])
                            /\ d \in dispatched'[i] <=> d \in dispatched[i]
                            /\ d \in active_calls'[i] <=> d \in active_calls[i]
        /\ \A i \in Boxes : d \in Elements(answers'[i]) <=> d \in Elements(answers[i])
        /\ active'[d] = active[d] /\ forget'[d] = forget[d]
        /\ call_cap'[d] = call_cap[d] /\ call_refs'[d] = call_refs[d]
        /\ \A u \in Threads : Waits(u, d) => wq'[u] = wq[u]
    BY <1>1
  <2> QED BY <2>1, <2>2, Untouched
<1> QED BY <1>1, OneCall

\* References to one call are dropped or taken.
LEMMA CountRefs ==
    ASSUME Types, NEW c \in AllCalls, NEW n \in Int, call_refs' = Add(call_refs, c, n)
    PROVE  /\ call_refs'[c] = call_refs[c] + n /\ call_refs[c] \in Int
           /\ \A d \in AllCalls : d # c => call_refs'[d] = call_refs[d]
BY DEF Types, Add

\* An answer to an asynchronous call is received.
LEMMA ReceiveCall ==
    ASSUME IInv, NEW t \in Threads, DequeueAnswer(t) \/ WaitAllAnswer(t)
    PROVE  CallInv'
<1> USE Nones
<1>k. PICK k \in Tasks : k = TaskOf[t]
  OBVIOUS
<1>0. /\ Types /\ ListInv /\ Shape(thr[t]) /\ thr \in [Threads -> ThreadType]
      /\ thr[t].call = None /\ k \in Boxes
  BY HandFacts, IdleFacts DEF IInv, DequeueAnswer, WaitAllAnswer, HolderPCs, SyncPCs
<1>1. /\ answers[k] # <<>> /\ answers' = [answers EXCEPT ![k] = Tail(@)]
      /\ call_refs' = Add(call_refs, Head(answers[k]), -1)
      /\ UNCHANGED <<wq, calls, dispatched, active_calls, hangup_call, caller_phone,
                     callerbox, active, forget, call_cap>>
  BY <1>k DEF DequeueAnswer, WaitAllAnswer, ReceiveAnswer, PutCall
<1>2. /\ Head(answers[k]) \in AllCalls /\ Head(answers[k]) \in Elements(answers[k])
      /\ \A i \in Boxes, d \in AllCalls : d \in Elements(answers'[i]) <=>
            d \in Elements(answers[i]) /\ ~(i = k /\ d = Head(answers[k]))
  BY <1>0, <1>1, TakeAnswers
<1>c. PICK c \in AllCalls : c = Head(answers[k])
  BY <1>2
<1>3. (\A u \in Threads : u # t => thr'[u] = thr[u]) /\ thr'[t].call = None
  <2>1. Return(t) \/ Goto(t, "wait") \/ Goto(t, "rehang")
    BY DEF DequeueAnswer, WaitAllAnswer
  <2>2. "wait" \in PCs /\ "rehang" \in PCs
    BY DEF PCs, SyscallPCs, CleanupPCs
  <2> QED BY <1>0, <2>1, <2>2, ReturnFacts, GotoFacts
<1>4. CallOK(c) /\ callerbox[c] = k /\ \E H \in OneOrNone : Answered(c, H)
  <2>1. CallOK(c)
    BY DEF IInv, CallInv
  <2> QED BY <1>0, <1>2, <1>c, <2>1, AnsweredCall
<1>h. PICK H \in OneOrNone : Answered(c, H)
  BY <1>4
<1>5. c \notin SyncCalls
  BY <1>4, <1>h DEF Answered, Sent
<1>6. call_refs'[c] = call_refs[c] - 1 /\ \A d \in AllCalls : d # c => call_refs'[d] = call_refs[d]
  <2>1. call_refs' = Add(call_refs, c, -1) /\ -1 \in Int
    BY <1>1, <1>c
  <2> QED BY <1>0, <2>1, CountRefs
<1>7. \A u \in Threads : (Holds(u, c)' <=> u \in H) /\ ~Waits(u, c)'
  <2>1. \A u \in Threads : (Holds(u, c) <=> u \in H) /\ ~Waits(u, c)
    BY <1>h, <1>5 DEF Answered, Where, CallerWaits, WaitedBy
  <2> QED BY <1>0, <1>3, <2>1, OtherHands DEF Holds, Waits
<1>8. H \subseteq Threads /\ t \notin H
  BY <1>0, <1>3, <1>7 DEF OneOrNone, Holds
<1>9. (\A u \in H : thr'[u] = thr[u]) /\ WakerRef(H)' = WakerRef(H)
  BY <1>3, <1>8 DEF WakerRef
<1>10. Where(c, {}, {}, {}, H)' /\ WaitedBy(c, {})' /\ ActiveIn(c, {})' /\ Sent(c)'
  BY <1>0, <1>1, <1>2, <1>4, <1>7, <1>c, <1>h DEF Answered, Where, WaitedBy, ActiveIn, Sent
<1>11. call_refs'[c] = WakerRef(H)'
  <2>1. call_refs[c] = 1 + 0 + WakerRef(H) /\ WakerRef(H) \in {0, 1}
    BY <1>5, <1>h DEF Answered, CallerRef, WakerRef
  <2> QED BY <1>6, <1>9, <2>1
<1>12. CallOK(c)'
  <2>1. Done(c, H)'
    BY <1>1, <1>5, <1>9, <1>10, <1>11, <1>h DEF Answered, Done
  <2> QED BY <2>1 DEF CallOK
<1> QED BY <1>0, <1>1, <1>2, <1>3, <1>6, <1>12, <1>c, OnlyCall

\* The answer to a synchronous call is received by its caller.
LEMMA SyncReceiveCall ==
    ASSUME IInv, NEW t \in Threads, SyncReceive(t)
    PROVE  CallInv'
<1> USE Nones
<1>c. PICK c \in AllCalls : c = thr[t].call
  BY HandFacts DEF SyncReceive, SyncPCs
<1>0. /\ Types /\ ListInv /\ Shape(thr[t]) /\ thr \in [Threads -> ThreadType]
      /\ thr[t].pc \in SyncPCs /\ Waits(t, c) /\ wq[t] > 0 /\ t \in Boxes /\ CallOK(c)
      /\ c \in SyncCalls /\ ~forget[c] /\ callerbox[c] = t
  <2>1. thr[t].pc \in SyncPCs /\ wq[t] > 0
    BY DEF SyncReceive, SyncPCs
  <2> QED BY <1>c, <2>1, HandFacts, HandCall DEF IInv, CallInv
<1>1. /\ answers' = [answers EXCEPT ![t] = Tail(@)]
      /\ call_refs' = Add(call_refs, Head(answers[t]), -2)
      /\ wq' = [wq EXCEPT ![t] = 0] /\ Return(t)
      /\ UNCHANGED <<calls, dispatched, active_calls, hangup_call, caller_phone,
                     callerbox, active, forget, call_cap>>
  BY DEF SyncReceive, ReceiveAnswer, PutCall, FreeMybox
<1>2. answers[t] # <<>>
  BY <1>0 DEF ListInv
<1>3. /\ Head(answers[t]) \in AllCalls /\ Head(answers[t]) \in Elements(answers[t])
      /\ \A i \in Boxes, d \in AllCalls : d \in Elements(answers'[i]) <=>
            d \in Elements(answers[i]) /\ ~(i = t /\ d = Head(answers[t]))
  BY <1>0, <1>1, <1>2, TakeAnswers
<1>4. Head(answers[t]) = c
  <2>d. PICK d \in AllCalls : d = Head(answers[t])
    BY <1>3
  <2>1. CallOK(d) /\ callerbox[d] = t /\ \E H \in OneOrNone : Answered(d, H)
    <3>1. CallOK(d)
      BY DEF IInv, CallInv
    <3> QED BY <1>0, <1>3, <2>d, <3>1, AnsweredCall
  <2>2. d \in SyncCalls
    BY <1>0, <2>1 DEF Answered, Sent
  <2>3. Waits(t, d)
    BY <1>0, <1>3, <2>1, <2>2, <2>d, AnsweredWaits
  <2> QED BY <1>c, <2>3, <2>d DEF Waits
<1>h. PICK H \in OneOrNone : Answered(c, H)
  BY <1>0, <1>3, <1>4, AnsweredCall
<1>5. H = {}
  BY <1>0, <1>h DEF Answered
<1>6. call_refs'[c] = call_refs[c] - 2 /\ \A d \in AllCalls : d # c => call_refs'[d] = call_refs[d]
  <2>1. call_refs' = Add(call_refs, c, -2) /\ -2 \in Int
    BY <1>1, <1>4
  <2> QED BY <1>0, <2>1, CountRefs
<1>7. (\A u \in Threads : u # t => thr'[u] = thr[u]) /\ thr'[t].call = None
  BY <1>0, <1>1, ReturnFacts
<1>8. \A u \in Threads : ~Holds(u, c)' /\ ~Waits(u, c)'
  <2>1. \A u \in Threads : ~Holds(u, c) /\ (Waits(u, c) <=> u = t)
    BY <1>0, <1>h, <1>5 DEF Answered, Where, CallerWaits, WaitedBy
  <2> QED BY <1>7, <2>1, OtherHands DEF Holds, Waits
<1>9. \A u \in Threads, d \in AllCalls : d # c /\ Waits(u, d) => wq'[u] = wq[u]
  BY <1>0, <1>1, <1>c DEF Waits, Types
<1>10. Where(c, {}, {}, {}, {})' /\ WaitedBy(c, {})' /\ ActiveIn(c, {})' /\ Sent(c)'
  BY <1>0, <1>1, <1>3, <1>4, <1>8, <1>h DEF Answered, Where, WaitedBy, ActiveIn, Sent
<1>11. call_refs'[c] = 0 /\ WakerRef({})' = 0
  BY <1>0, <1>5, <1>6, <1>h DEF Answered, CallerRef, WakerRef
<1>12. CallOK(c)'
  <2>1. Done(c, {})'
    BY <1>0, <1>1, <1>10, <1>11, <1>h DEF Answered, Done
  <2> QED BY <2>1 DEF CallOK, OneOrNone
<1> QED BY <1>0, <1>1, <1>3, <1>4, <1>6, <1>7, <1>9, <1>12, <1>c, OnlyCall

\* Thread t takes a call up or goes on with it, or lets it go.
LEMMA TakeUp ==
    ASSUME NEW t \in Threads, \A u \in Threads : u # t => thr'[u] = thr[u], NEW c,
           thr[t].pc \notin SyncPCs, thr'[t].call = c, thr'[t].pc \in HolderPCs
    PROVE  \A u \in Threads : /\ Holds(u, c)' <=> Holds(u, c) \/ u = t
                              /\ Waits(u, c)' <=> Waits(u, c)
BY OtherHands DEF Holds, Waits, HolderPCs, SyncPCs

LEMMA LetGo ==
    ASSUME NEW t \in Threads, \A u \in Threads : u # t => thr'[u] = thr[u], NEW c \in AllCalls,
           thr[t].pc \notin SyncPCs, thr'[t].call = None
    PROVE  \A u \in Threads : /\ Holds(u, c)' <=> Holds(u, c) /\ u # t
                              /\ Waits(u, c)' <=> Waits(u, c)
BY OtherHands, Nones DEF Holds, Waits, HolderPCs, SyncPCs

\* A request is received: it is dispatched, and its thread publishes it.
LEMMA DequeueRequestCall ==
    ASSUME IInv, NEW t \in Threads, DequeueRequest(t)
    PROVE  CallInv'
<1> USE Nones
<1>k. PICK k \in Tasks : k = TaskOf[t]
  OBVIOUS
<1>0. /\ Types /\ ListInv /\ Shape(thr[t]) /\ thr[t].pc = "dequeue" /\ thr[t].call = None
      /\ thr[t].ref = 0 /\ thr[t].pc \notin SyncPCs
  <2>1. thr[t].pc = "dequeue" /\ Shape(thr[t]) /\ thr[t].ref \in {0, 1}
    BY HandFacts DEF DequeueRequest
  <2> QED BY <2>1, IdleFacts DEF IInv, Shape, HolderPCs, SyncPCs
<1>1. /\ calls[k] # <<>> /\ calls' = [calls EXCEPT ![k] = Tail(@)]
      /\ dispatched' = [dispatched EXCEPT ![k] = @ \cup {Head(calls[k])}]
      /\ UNCHANGED <<wq, answers, active_calls, hangup_call, caller_phone,
                     callerbox, active, forget, call_cap, call_refs>>
  BY <1>k DEF DequeueRequest, call, phone
<1>2. /\ Head(calls[k]) \in AllCalls /\ Head(calls[k]) \in Elements(calls[k])
      /\ \A i \in Tasks, d \in AllCalls : d \in Elements(calls'[i]) <=>
            d \in Elements(calls[i]) /\ ~(i = k /\ d = Head(calls[k]))
  BY <1>0, <1>1, TakeCalls
<1>c. PICK c \in AllCalls : c = Head(calls[k])
  BY <1>2
<1>3. /\ \A u \in Threads : u # t => thr'[u] = thr[u]
      /\ thr'[t].pc = "publish" /\ thr'[t].call = c /\ thr'[t].ref = 0
  BY <1>0, <1>c, <1>k, DequeueMove
<1>4. Queued(c, k)
  <2>1. CallOK(c)
    BY DEF IInv, CallInv
  <2> QED BY <1>2, <1>c, <2>1, QueuedCall
<1>5. \A u \in Threads : (Holds(u, c)' <=> Holds(u, c) \/ u = t) /\ (Waits(u, c)' <=> Waits(u, c))
  BY <1>0, <1>3, TakeUp DEF HolderPCs
<1>6. \A i \in Tasks, d \in AllCalls : d \in dispatched'[i] <=> d \in dispatched[i] \/ (i = k /\ d = c)
  BY <1>0, <1>1, <1>c DEF Types
<1>7. Pending(c)' /\ CallerRef(c)' = CallerRef(c)
  BY <1>1, <1>4, <1>5, Keeps DEF Queued
<1>8. Where(c, {}, {TaskOf[t]}, {}, {t})'
  BY <1>1, <1>2, <1>4, <1>5, <1>6, <1>c, <1>k DEF Queued, Where
<1>9. CallOK(c)'
  <2>1. call_refs'[c] = 1 + CallerRef(c)' + thr'[t].ref /\ call_cap'[c] = None
    BY <1>1, <1>3, <1>4, <1>7 DEF Queued, CallerRef
  <2>2. Handled(c, t)'
    BY <1>3, <1>7, <1>8, <2>1 DEF Handled
  <2> QED BY <2>2 DEF CallOK
<1> QED BY <1>0, <1>1, <1>2, <1>3, <1>6, <1>9, <1>c, OnlyCall

\* The thread gives the dispatched call to user space.
LEMMA PublishCall ==
    ASSUME IInv, NEW t \in Threads, Publish(t)
    PROVE  CallInv'
<1> USE Nones
<1>k. PICK k \in Tasks : k = TaskOf[t]
  OBVIOUS
<1>c. PICK c \in AllCalls : c = thr[t].call
  BY HandFacts DEF Publish, HolderPCs
<1>0. /\ Types /\ Shape(thr[t]) /\ thr[t].pc = "publish" /\ Handled(c, t) /\ thr[t].ref = 0
      /\ thr \in [Threads -> ThreadType] /\ thr[t].pc \notin SyncPCs
  <2>1. thr[t].pc = "publish" /\ Shape(thr[t]) /\ thr[t].ref \in {0, 1}
    BY HandFacts DEF Publish
  <2> QED BY <1>c, <2>1, HandFacts, HandCall DEF IInv, Shape, SyncPCs
<1>1. /\ call_refs' = Add(call_refs, c, 1) /\ call_cap' = [call_cap EXCEPT ![c] = k] /\ Return(t)
      /\ UNCHANGED <<wq, calls, dispatched, answers, active_calls, hangup_call, caller_phone,
                     callerbox, active, forget>>
  BY <1>c, <1>k DEF Publish, box, phone
<1>2. call_refs'[c] = call_refs[c] + 1 /\ \A d \in AllCalls : d # c => call_refs'[d] = call_refs[d]
  BY <1>0, <1>1, CountRefs
<1>3. call_cap'[c] = k /\ \A d \in AllCalls : d # c => call_cap'[d] = call_cap[d]
  BY <1>0, <1>1 DEF Types
<1>4. (\A u \in Threads : u # t => thr'[u] = thr[u]) /\ thr'[t].call = None
  BY <1>0, <1>1, ReturnFacts
<1>5. \A u \in Threads : (Holds(u, c)' <=> Holds(u, c) /\ u # t) /\ (Waits(u, c)' <=> Waits(u, c))
  BY <1>0, <1>4, LetGo
<1>6. Pending(c) /\ Where(c, {}, {k}, {}, {t}) /\ call_refs[c] = 1 + CallerRef(c)
  BY <1>0, <1>k DEF Handled, CallerRef
<1>7. Pending(c)' /\ CallerRef(c)' = CallerRef(c)
  BY <1>1, <1>5, <1>6, Keeps
<1>8. Where(c, {}, {k}, {}, {})'
  BY <1>1, <1>5, <1>6 DEF Where
<1>9. CallOK(c)'
  <2>1. call_refs'[c] = 1 + CallerRef(c)' + 1 /\ k # None
    BY <1>2, <1>6, <1>7 DEF CallerRef
  <2>2. Open(c, k)'
    BY <1>3, <1>7, <1>8, <2>1 DEF Open
  <2> QED BY <2>2 DEF CallOK
<1> QED BY <1>0, <1>1, <1>2, <1>3, <1>4, <1>9, <1>c, OnlyCall

\* The thread goes on with a call that nothing has been decided about, or with
\* one that will be answered.
LEMMA GoOnCall ==
    ASSUME IInv, NEW t \in Threads,
           PublishFails(t) \/ ForwardFails(t) \/ PreprocessForgotten(t) \/ SlamCaller(t)
    PROVE  CallInv'
<1> USE Nones
<1>c. PICK c \in AllCalls : c = thr[t].call
  BY HandFacts DEF PublishFails, ForwardFails, PreprocessForgotten, SlamCaller, HolderPCs
<1>0. /\ Types /\ thr \in [Threads -> ThreadType] /\ Handled(c, t) /\ thr[t].pc \notin SyncPCs
      /\ "preprocess" \in PCs /\ "deliver" \in PCs
  <2>1. thr[t].pc \in {"publish", "forward", "preprocess", "slam", "deliver"}
    BY DEF PublishFails, ForwardFails, PreprocessForgotten, SlamCaller
  <2> QED BY <1>c, <2>1, HandFacts, HandCall DEF IInv, SyncPCs, PCs, SyscallPCs
<1>1. UNCHANGED <<wq, calls, dispatched, answers, active_calls, hangup_call, caller_phone,
                  callerbox, active, forget, call_cap, call_refs>>
  BY DEF PublishFails, ForwardFails, PreprocessForgotten, SlamCaller, box, phone, call
<1>2. \/ Goto(t, "preprocess") /\ thr[t].pc \in {"publish", "forward"}
      \/ /\ Goto(t, "deliver")
         /\ thr[t].pc = "slam" \/ (thr[t].pc = "preprocess" /\ forget[c])
  BY <1>c DEF PublishFails, ForwardFails, PreprocessForgotten, SlamCaller
<1>3. /\ \A u \in Threads : u # t => thr'[u] = thr[u]
      /\ thr'[t].call = c /\ thr'[t].ref = thr[t].ref
      /\ \/ thr'[t].pc = "preprocess" /\ thr[t].pc \in {"publish", "forward"}
         \/ /\ thr'[t].pc = "deliver"
            /\ thr[t].pc = "slam" \/ (thr[t].pc = "preprocess" /\ forget[c])
  BY <1>0, <1>2, <1>c, GotoFacts
<1>4. \A u \in Threads : (Holds(u, c)' <=> Holds(u, c) \/ u = t) /\ (Waits(u, c)' <=> Waits(u, c))
  BY <1>0, <1>3, TakeUp DEF HolderPCs
<1>5. /\ Pending(c) => Pending(c)'
      /\ Decided(c) => Decided(c)'
      /\ CallerRef(c)' = CallerRef(c)
  BY <1>1, <1>4, Keeps
<1>6. \/ Pending(c)' /\ thr'[t].pc = "preprocess"
      \/ Decided(c)' /\ thr'[t].pc = "deliver"
  <2>1. Pending(c) /\ forget[c] => Decided(c)
    BY DEF Pending, Decided
  <2> QED BY <1>0, <1>3, <1>5, <2>1 DEF Handled
<1>7. Where(c, {}, {TaskOf[t]}, {}, {t})' \/ Where(c, {}, {}, {}, {t})'
  BY <1>0, <1>1, <1>4 DEF Handled, Where
<1>8. CallOK(c)'
  <2>1. call_refs'[c] = 1 + CallerRef(c)' + thr'[t].ref /\ call_cap'[c] = None
    BY <1>0, <1>1, <1>3, <1>5 DEF Handled
  <2>2. Handled(c, t)'
    BY <1>6, <1>7, <2>1 DEF Handled
  <2> QED BY <2>2 DEF CallOK
<1> QED BY <1>1, <1>3, <1>8, <1>c, OnlyCall

\* User space answers the call, or forwards it: its capability is gone.
LEMMA AnswerCallCall ==
    ASSUME IInv, NEW t \in Threads, NEW c \in AllCalls,
           \/ (\E rv \in UserRetvals : Answer(t, c, rv)) \/ ForwardRefused(t, c)
           \/ \E p \in Phones : Forward(t, c, p)
    PROVE  CallInv'
<1> USE Nones
<1>k. PICK k \in Tasks : k = TaskOf[t]
  OBVIOUS
<1>0. /\ Types /\ CallOK(c) /\ thr[t].pc = "user" /\ call_cap[c] = k /\ thr[t].call = None
      /\ thr[t].pc \notin SyncPCs
  <2>1. thr[t].pc = "user" /\ call_cap[c] = k
    BY <1>k DEF Answer, ForwardRefused, Forward
  <2> QED BY <2>1, IdleFacts DEF IInv, CallInv, HolderPCs, SyncPCs
<1>1. Open(c, k)
  BY <1>0, PublishedCall
<1>2. /\ call_cap' = [call_cap EXCEPT ![c] = None]
      /\ UNCHANGED <<wq, calls, answers, active_calls, hangup_call, caller_phone,
                     callerbox, active, forget, call_refs>>
      /\ dispatched' = dispatched \/ dispatched' = [dispatched EXCEPT ![k] = @ \ {c}]
  BY <1>k DEF Answer, ForwardRefused, Forward, box, phone
<1>3. /\ \A u \in Threads : u # t => thr'[u] = thr[u]
      /\ thr'[t].call = c /\ thr'[t].ref = 1
      /\ \/ thr'[t].pc = "preprocess" /\ dispatched' = dispatched
         \/ thr'[t].pc = "forward" /\ dispatched' = [dispatched EXCEPT ![k] = @ \ {c}]
  <2>1. CASE (\E rv \in UserRetvals : Answer(t, c, rv)) \/ ForwardRefused(t, c)
    <3>1. dispatched' = dispatched
      BY <2>1 DEF Answer, ForwardRefused, box
    <3> QED BY <1>0, <2>1, <3>1, AnswerMove
  <2>2. ASSUME NEW p \in Phones, Forward(t, c, p)
        PROVE  /\ \A u \in Threads : u # t => thr'[u] = thr[u]
               /\ thr'[t].call = c /\ thr'[t].ref = 1 /\ thr'[t].pc = "forward"
               /\ dispatched' = [dispatched EXCEPT ![k] = @ \ {c}]
    <3>1. dispatched' = [dispatched EXCEPT ![k] = @ \ {c}]
      BY <1>k, <2>2 DEF Forward
    <3> QED BY <1>0, <2>2, <3>1, ForwardMove
  <2> QED BY <2>1, <2>2
<1>4. call_cap'[c] = None /\ \A d \in AllCalls : d # c => call_cap'[d] = call_cap[d]
  BY <1>0, <1>2 DEF Types
<1>5. \A u \in Threads : (Holds(u, c)' <=> Holds(u, c) \/ u = t) /\ (Waits(u, c)' <=> Waits(u, c))
  BY <1>0, <1>3, TakeUp DEF HolderPCs
<1>6. /\ \A i \in Tasks, d \in AllCalls : d # c => (d \in dispatched'[i] <=> d \in dispatched[i])
      /\ thr'[t].pc = "preprocess" => \A i \in Tasks : c \in dispatched'[i] <=> i = k
      /\ thr'[t].pc = "forward" => \A i \in Tasks : c \notin dispatched'[i]
  <2>1. \A i \in Tasks : c \in dispatched[i] <=> i = k
    BY <1>1 DEF Open, Where
  <2>2. dispatched \in [Tasks -> SUBSET AllCalls]
    BY <1>0 DEF Types
  <2>3. CASE thr'[t].pc = "preprocess" /\ dispatched' = dispatched
    BY <2>1, <2>3
  <2>4. CASE thr'[t].pc = "forward" /\ dispatched' = [dispatched EXCEPT ![k] = @ \ {c}]
    BY <2>1, <2>2, <2>4
  <2> QED BY <1>3, <2>3, <2>4
<1>7. Pending(c)' /\ CallerRef(c)' = CallerRef(c)
  BY <1>1, <1>2, <1>5, Keeps DEF Open
<1>8. \/ Where(c, {}, {TaskOf[t]}, {}, {t})' /\ thr'[t].pc = "preprocess"
      \/ Where(c, {}, {}, {}, {t})' /\ thr'[t].pc = "forward"
  BY <1>1, <1>2, <1>3, <1>5, <1>6, <1>k DEF Open, Where
<1>9. CallOK(c)'
  <2>1. call_refs'[c] = 1 + CallerRef(c)' + thr'[t].ref
    BY <1>0, <1>1, <1>2, <1>3, <1>7 DEF Open, CallerRef
  <2>2. Handled(c, t)'
    BY <1>4, <1>7, <1>8, <2>1 DEF Handled
  <2> QED BY <2>2 DEF CallOK
<1> QED BY <1>0, <1>2, <1>3, <1>4, <1>6, <1>9, OnlyCall

\* What depends on the fields of the call that sending sets, and on the caller.
LEMMA KeepsCaller ==
    ASSUME NEW c \in AllCalls,
           caller_phone'[c] = caller_phone[c] /\ callerbox'[c] = callerbox[c],
           forget'[c] = forget[c], \A u \in Threads : Waits(u, c)' <=> Waits(u, c)
    PROVE  /\ Sent(c) => Sent(c)'
           /\ CallerWaits(c) => CallerWaits(c)'
           /\ CallerRef(c)' = CallerRef(c)
BY DEF Sent, CallerWaits, WaitedBy, CallerRef

\* answer_preprocess() decides that the call will be answered.
LEMMA PreprocessCall ==
    ASSUME IInv, NEW t \in Threads, Preprocess(t)
    PROVE  CallInv'
<1> USE Nones
<1>c. PICK c \in AllCalls : c = thr[t].call
  BY HandFacts DEF Preprocess, HolderPCs
<1>0. /\ Types /\ thr \in [Threads -> ThreadType] /\ Handled(c, t) /\ thr[t].pc \notin SyncPCs
      /\ thr[t].pc = "preprocess" /\ ~forget[c] /\ "slam" \in PCs /\ "deliver" \in PCs
  BY <1>c, HandFacts, HandCall DEF Preprocess, IInv, SyncPCs, PCs, SyscallPCs
<1>1. /\ active' = [active EXCEPT ![c] = FALSE]
      /\ active_calls' = [k \in Tasks |-> active_calls[k] \ {c}]
      /\ UNCHANGED <<wq, calls, dispatched, answers, hangup_call, caller_phone,
                     callerbox, forget, call_cap, call_refs>>
  BY <1>c DEF Preprocess, box
<1>2. Goto(t, "slam") \/ Goto(t, "deliver")
  BY DEF Preprocess
<1>3. /\ \A u \in Threads : u # t => thr'[u] = thr[u]
      /\ thr'[t].call = c /\ thr'[t].ref = thr[t].ref /\ thr'[t].pc \in {"slam", "deliver"}
  BY <1>0, <1>2, <1>c, GotoFacts
<1>4. \A u \in Threads : (Holds(u, c)' <=> Holds(u, c) \/ u = t) /\ (Waits(u, c)' <=> Waits(u, c))
  BY <1>0, <1>3, TakeUp DEF HolderPCs
<1>5. /\ ~active'[c] /\ \A k \in Tasks : c \notin active_calls'[k]
      /\ \A d \in AllCalls : d # c => active'[d] = active[d]
      /\ \A k \in Tasks, d \in AllCalls : d # c => (d \in active_calls'[k] <=> d \in active_calls[k])
  BY <1>0, <1>1 DEF Types
<1>6. Sent(c)' /\ CallerWaits(c)' /\ CallerRef(c)' = CallerRef(c)
  <2>1. Sent(c) /\ CallerWaits(c)
    BY <1>0 DEF Handled, Pending, Decided
  <2> QED BY <1>1, <1>4, <2>1, KeepsCaller
<1>7. Decided(c)'
  BY <1>0, <1>1, <1>5, <1>6 DEF Decided, ActiveIn
<1>8. Where(c, {}, {TaskOf[t]}, {}, {t})' \/ Where(c, {}, {}, {}, {t})'
  BY <1>0, <1>1, <1>4 DEF Handled, Where
<1>9. CallOK(c)'
  <2>1. call_refs'[c] = 1 + CallerRef(c)' + thr'[t].ref /\ call_cap'[c] = None
    BY <1>0, <1>1, <1>3, <1>6 DEF Handled
  <2>2. Handled(c, t)'
    BY <1>0, <1>1, <1>3, <1>7, <1>8, <2>1 DEF Handled
  <2> QED BY <2>2 DEF CallOK
<1>10. UNCHANGED <<wq, calls, dispatched, answers, hangup_call, caller_phone, callerbox,
                   forget, call_cap, call_refs>>
  BY <1>1
<1> QED BY <1>3, <1>5, <1>9, <1>10, <1>c, OnlyCall

\* A call that is about to be answered or discarded leaves the dispatched calls.
LEMMA Undispatch ==
    ASSUME Types, NEW t \in Threads, NEW c \in AllCalls, Handled(c, t),
           dispatched' = [dispatched EXCEPT ![TaskOf[t]] = @ \ {c}]
    PROVE  /\ \A i \in Tasks : c \notin dispatched'[i]
           /\ \A i \in Tasks, d \in AllCalls : d # c => (d \in dispatched'[i] <=> d \in dispatched[i])
<1>1. \A i \in Tasks : c \in dispatched[i] => i = TaskOf[t]
  BY DEF Handled, Where
<1>2. dispatched \in [Tasks -> SUBSET AllCalls]
  BY DEF Types
<1>3. TaskOf[t] \in Tasks
  BY Nones
<1>4. \A i \in Tasks : dispatched'[i] = IF i = TaskOf[t] THEN dispatched[i] \ {c} ELSE dispatched[i]
  BY <1>2, <1>3
<1> QED BY <1>1, <1>4

\* The box of a caller that waits for c is empty until c is answered.
LEMMA MyboxEmpty ==
    ASSUME IInv, NEW c \in AllCalls, NEW b \in Threads, Waits(b, c), c \notin Elements(answers[b])
    PROVE  answers[b] = <<>> /\ wq[b] = 0
<1>0. answers[b] \in Seq(AllCalls) /\ b \in Boxes /\ ListInv
  BY Nones DEF IInv, Types
<1>1. ASSUME answers[b] # <<>> PROVE FALSE
  <2>1. PICK d \in AllCalls : d \in Elements(answers[b])
    BY <1>0, <1>1, ElementsFacts
  <2>2. CallOK(d)
    BY DEF IInv, CallInv
  <2>3. callerbox[d] = b /\ \E H \in OneOrNone : Answered(d, H)
    BY <1>0, <2>1, <2>2, AnsweredCall
  <2>4. d \in SyncCalls
    BY <2>3, Nones DEF Answered, Sent
  <2>5. Waits(b, d)
    BY <1>0, <2>1, <2>3, <2>4, AnsweredWaits
  <2>6. d = c
    BY <2>5 DEF Waits
  <2> QED BY <2>1, <2>6
<1> QED BY <1>0, <1>1 DEF ListInv

\* The answer is put in the box of the caller.
LEMMA DeliverCall ==
    ASSUME IInv, NEW t \in Threads, Deliver(t)
    PROVE  CallInv'
<1> USE Nones
<1>c. PICK c \in AllCalls : c = thr[t].call
  BY HandFacts DEF Deliver, HolderPCs
<1>b. PICK b \in Boxes : b = callerbox[c]
  BY <1>c, HandCall DEF Deliver, HolderPCs
<1>0. /\ Types /\ thr \in [Threads -> ThreadType] /\ Handled(c, t) /\ thr[t].pc \notin SyncPCs
      /\ thr[t].pc = "deliver" /\ ~forget[c] /\ "wake" \in PCs /\ thr[t].ref \in {0, 1}
  BY <1>c, HandFacts, HandCall DEF Deliver, IInv, SyncPCs, PCs, SyscallPCs
<1>1. /\ dispatched' = [dispatched EXCEPT ![TaskOf[t]] = @ \ {c}]
      /\ answers' = [answers EXCEPT ![b] = Append(@, c)]
      /\ UNCHANGED <<wq, calls, active_calls, hangup_call, caller_phone,
                     callerbox, active, forget, call_cap, call_refs>>
  BY <1>c, <1>b DEF Deliver, phone, call
<1>2. /\ \A u \in Threads : u # t => thr'[u] = thr[u]
      /\ thr'[t].call = c /\ thr'[t].ref = thr[t].ref /\ thr'[t].pc = "wake"
  BY <1>0, <1>c, GotoFacts DEF Deliver
<1>3. \A i \in Boxes, d \in AllCalls :
         d \in Elements(answers'[i]) <=> d \in Elements(answers[i]) \/ (i = b /\ d = c)
  BY <1>0, <1>1, PutAnswers
<1>4. \A u \in Threads : (Holds(u, c)' <=> Holds(u, c) \/ u = t) /\ (Waits(u, c)' <=> Waits(u, c))
  BY <1>0, <1>2, TakeUp DEF HolderPCs
<1>5. /\ \A i \in Tasks : c \notin dispatched'[i]
      /\ \A i \in Tasks, d \in AllCalls : d # c => (d \in dispatched'[i] <=> d \in dispatched[i])
  BY <1>0, <1>1, Undispatch
<1>6. Decided(c) /\ ~active[c]
  BY <1>0 DEF Handled, Decided
<1>7. Decided(c)' /\ CallerRef(c)' = CallerRef(c)
  BY <1>1, <1>4, <1>6, Keeps
<1>8. /\ \A i \in Tasks : c \notin Elements(calls[i])
      /\ \A i \in Boxes : c \notin Elements(answers[i])
      /\ \A u \in Threads : Holds(u, c) <=> u = t
  BY <1>0 DEF Handled, Where
<1>9. Where(c, {}, {}, {b}, {t})'
  BY <1>1, <1>3, <1>4, <1>5, <1>8 DEF Where
<1>10. c \in SyncCalls => wq'[b] = 0
  <2>1. c \in SyncCalls => b \in Threads /\ Waits(b, c)
    BY <1>0, <1>6, <1>b DEF Decided, Sent, CallerWaits, WaitedBy
  <2> QED BY <1>1, <1>8, <2>1, MyboxEmpty
<1>11. call_refs'[c] = 1 + CallerRef(c)' + WakerRef({t})' /\ call_cap'[c] = None
  BY <1>0, <1>1, <1>2, <1>7 DEF Handled, WakerRef
<1>12. CallOK(c)'
  <2>1. callerbox'[c] = b /\ ~forget'[c] /\ ~active'[c]
    BY <1>0, <1>1, <1>6, <1>b
  <2>2. Answered(c, {t})'
    BY <1>2, <1>7, <1>9, <1>10, <1>11, <2>1 DEF Answered, Decided
  <2> QED BY <2>2 DEF CallOK, OneOrNone
<1> QED BY <1>1, <1>2, <1>3, <1>5, <1>12, <1>c, OnlyCall

\* A forgotten call is discarded.
LEMMA DiscardCall ==
    ASSUME IInv, NEW t \in Threads, Discard(t)
    PROVE  CallInv'
<1> USE Nones
<1>c. PICK c \in AllCalls : c = thr[t].call
  BY HandFacts DEF Discard, HolderPCs
<1>0. /\ Types /\ thr \in [Threads -> ThreadType] /\ Handled(c, t) /\ thr[t].pc \notin SyncPCs
      /\ Shape(thr[t]) /\ thr[t].pc = "deliver" /\ forget[c] /\ thr[t].ref \in {0, 1}
  BY <1>c, HandFacts, HandCall DEF Discard, IInv, SyncPCs
<1>n. PICK n \in Int : n = thr[t].ref
  BY <1>0
<1>1. /\ dispatched' = [dispatched EXCEPT ![TaskOf[t]] = @ \ {c}]
      /\ call_refs' = Add(call_refs, c, -(1 + n)) /\ Return(t)
      /\ UNCHANGED <<wq, calls, answers, active_calls, hangup_call, caller_phone,
                     callerbox, active, forget, call_cap>>
  BY <1>c, <1>n DEF Discard, PutCall
<1>2. (\A u \in Threads : u # t => thr'[u] = thr[u]) /\ thr'[t].call = None
  BY <1>0, <1>1, ReturnFacts
<1>3. /\ call_refs'[c] = call_refs[c] - (1 + n) /\ call_refs[c] \in Int
      /\ \A d \in AllCalls : d # c => call_refs'[d] = call_refs[d]
  <2>1. -(1 + n) \in Int
    OBVIOUS
  <2> QED BY <1>0, <1>1, <2>1, CountRefs
<1>4. \A u \in Threads : (Holds(u, c)' <=> Holds(u, c) /\ u # t) /\ (Waits(u, c)' <=> Waits(u, c))
  BY <1>0, <1>2, LetGo
<1>5. /\ \A i \in Tasks : c \notin dispatched'[i]
      /\ \A i \in Tasks, d \in AllCalls : d # c => (d \in dispatched'[i] <=> d \in dispatched[i])
  BY <1>0, <1>1, Undispatch
<1>6. Decided(c) /\ active[c] /\ call_refs[c] = 1 + n
  BY <1>0, <1>n DEF Handled, Decided, Pending, CallerRef
<1>7. Decided(c)'
  BY <1>1, <1>4, <1>6, Keeps
<1>8. Where(c, {}, {}, {}, {})'
  BY <1>0, <1>1, <1>4, <1>5 DEF Handled, Where
<1>9. CallOK(c)'
  <2>1. call_refs'[c] = 0 /\ WakerRef({})' = 0 /\ call_cap'[c] = None
    BY <1>0, <1>1, <1>3, <1>6 DEF Handled, WakerRef
  <2>2. WaitedBy(c, {})' /\ forget'[c] /\ active'[c]
    BY <1>0, <1>1, <1>6, <1>7 DEF Decided, CallerWaits
  <2>3. Done(c, {})'
    BY <1>7, <1>8, <2>1, <2>2 DEF Done, Decided
  <2> QED BY <2>3 DEF CallOK, OneOrNone
<1> QED BY <1>1, <1>2, <1>3, <1>5, <1>9, <1>c, OnlyCall

\* The caller is woken up.
LEMMA WakeCall ==
    ASSUME IInv, NEW t \in Threads, Wake(t)
    PROVE  CallInv'
<1> USE Nones
<1>c. PICK c \in AllCalls : c = thr[t].call
  BY HandFacts DEF Wake, HolderPCs
<1>b. PICK b \in Boxes : b = callerbox[c]
  BY <1>c, HandCall DEF Wake, HolderPCs
<1>0. /\ Types /\ thr \in [Threads -> ThreadType] /\ thr[t].pc \notin SyncPCs
      /\ Shape(thr[t]) /\ thr[t].pc = "wake" /\ thr[t].ref \in {0, 1}
      /\ Answered(c, {t}) \/ Done(c, {t})
  BY <1>c, HandFacts, HandCall DEF Wake, IInv, SyncPCs
<1>n. PICK n \in Int : n = thr[t].ref
  BY <1>0
<1>1. /\ wq' = Add(wq, b, 1) /\ Return(t)
      /\ UNCHANGED <<calls, dispatched, answers, active_calls, hangup_call, caller_phone,
                     callerbox, active, forget, call_cap>>
      /\ IF thr[t].ref = 1 THEN call_refs' = Add(call_refs, c, -1) ELSE call_refs' = call_refs
  BY <1>c, <1>b DEF Wake, PutCall
<1>2. (\A u \in Threads : u # t => thr'[u] = thr[u]) /\ thr'[t].call = None
  BY <1>0, <1>1, ReturnFacts
<1>3. /\ call_refs'[c] = call_refs[c] - n /\ call_refs[c] \in Int
      /\ \A d \in AllCalls : d # c => call_refs'[d] = call_refs[d]
  <2>1. -1 \in Int /\ call_refs[c] \in Int
    BY <1>0 DEF Types
  <2>2. CASE thr[t].ref = 1
    BY <1>0, <1>1, <1>n, <2>1, <2>2, CountRefs
  <2>3. CASE thr[t].ref = 0
    BY <1>1, <1>n, <2>1, <2>3
  <2> QED BY <1>0, <2>2, <2>3
<1>4. \A u \in Threads : (Holds(u, c)' <=> Holds(u, c) /\ u # t) /\ (Waits(u, c)' <=> Waits(u, c))
  BY <1>0, <1>2, LetGo
<1>5. /\ \A a \in Boxes : a # b => wq'[a] = wq[a]
      /\ wq'[b] = wq[b] + 1
  BY <1>0, <1>1, WqType DEF Types
<1>6. WakerRef({t}) = n /\ WakerRef({})' = 0
  BY <1>0, <1>n DEF WakerRef
<1>7. ASSUME Answered(c, {t}) PROVE CallOK(c)' /\ (b \in Threads => Waits(b, c))
  <2>1. Sent(c)' /\ CallerWaits(c)' /\ CallerRef(c)' = CallerRef(c)
    BY <1>1, <1>4, <1>7, KeepsCaller DEF Answered
  <2>2. Where(c, {}, {}, {b}, {})' /\ ActiveIn(c, {})'
    BY <1>1, <1>4, <1>7, <1>b DEF Answered, Where, ActiveIn
  <2>3. call_refs'[c] = 1 + CallerRef(c)' + WakerRef({})'
    BY <1>3, <1>6, <1>7, <2>1 DEF Answered, CallerRef
  <2>4. c \in SyncCalls => ~active'[c] /\ wq'[b] = 1
    BY <1>1, <1>5, <1>7, <1>b DEF Answered
  <2>5. Answered(c, {})'
    BY <1>1, <1>7, <1>b, <2>1, <2>2, <2>3, <2>4 DEF Answered
  <2>6. b \in Threads => Waits(b, c)
    BY <1>7, <1>b DEF Answered, Sent, CallerWaits, WaitedBy
  <2> QED BY <2>5, <2>6 DEF CallOK, OneOrNone
<1>8. ASSUME Done(c, {t}) PROVE CallOK(c)' /\ b \notin Threads
  <2>1. Sent(c)' /\ WaitedBy(c, {})' /\ ActiveIn(c, {})' /\ Where(c, {}, {}, {}, {})'
    BY <1>1, <1>4, <1>8 DEF Done, Where, ActiveIn, WaitedBy, Sent
  <2>2. call_refs'[c] = WakerRef({})'
    BY <1>3, <1>6, <1>8 DEF Done
  <2>3. Done(c, {})'
    BY <1>1, <1>8, <2>1, <2>2 DEF Done
  <2>4. b \notin Threads
    BY <1>8, <1>b DEF Done, Sent
  <2> QED BY <2>3, <2>4 DEF CallOK, OneOrNone
<1>9. \A u \in Threads, d \in AllCalls : d # c /\ Waits(u, d) => wq'[u] = wq[u]
  <2>1. b \in Threads => thr[b].call = c
    BY <1>0, <1>7, <1>8 DEF Waits
  <2> QED BY <1>5, <2>1 DEF Waits
<1> QED BY <1>0, <1>1, <1>2, <1>3, <1>7, <1>8, <1>9, <1>c, OnlyCall

\* A call is forwarded: it is queued again.
LEMMA ForwardSendCall ==
    ASSUME IInv, NEW t \in Threads, ForwardSend(t)
    PROVE  CallInv'
<1> USE Nones
<1>c. PICK c \in AllCalls : c = thr[t].call
  BY HandFacts DEF ForwardSend, HolderPCs
<1>p. PICK p \in Phones : p = thr[t].phone
  BY HandFacts DEF ForwardSend, PhonePCs
<1>j. PICK j \in Tasks : j = callee[p]
  BY <1>p, HandPhone DEF ForwardSend, PhonePCs
<1>0. /\ Types /\ thr \in [Threads -> ThreadType] /\ thr[t].pc \notin SyncPCs
      /\ Shape(thr[t]) /\ thr[t].pc = "forward" /\ thr[t].ref = 1 /\ Handled(c, t)
  <2>1. thr[t].pc = "forward" /\ Shape(thr[t])
    BY HandFacts DEF ForwardSend
  <2> QED BY <1>c, <2>1, HandFacts, HandCall DEF IInv, SyncPCs, Shape
<1>1. /\ calls' = [calls EXCEPT ![j] = Append(@, c)] /\ wq' = Add(wq, j, 1) /\ Return(t)
      /\ call_refs' = Add(call_refs, c, -1)
      /\ UNCHANGED <<dispatched, answers, active_calls, hangup_call, caller_phone,
                     callerbox, active, forget, call_cap>>
  BY <1>c, <1>p, <1>j DEF ForwardSend, PutCall
<1>2. (\A u \in Threads : u # t => thr'[u] = thr[u]) /\ thr'[t].call = None
  BY <1>0, <1>1, ReturnFacts
<1>3. /\ call_refs'[c] = call_refs[c] - 1 /\ call_refs[c] \in Int
      /\ \A d \in AllCalls : d # c => call_refs'[d] = call_refs[d]
  <2>1. -1 \in Int
    OBVIOUS
  <2> QED BY <1>0, <1>1, <2>1, CountRefs
<1>4. \A u \in Threads : (Holds(u, c)' <=> Holds(u, c) /\ u # t) /\ (Waits(u, c)' <=> Waits(u, c))
  BY <1>0, <1>2, LetGo
<1>5. \A i \in Tasks, d \in AllCalls :
         d \in Elements(calls'[i]) <=> d \in Elements(calls[i]) \/ (i = j /\ d = c)
  BY <1>0, <1>1, PutCalls
<1>6. \A u \in Threads : wq'[u] = wq[u]
  BY <1>0, <1>1, TaskWq
<1>7. Pending(c) /\ Where(c, {}, {}, {}, {t})
  BY <1>0 DEF Handled
<1>8. Pending(c)' /\ CallerRef(c)' = CallerRef(c)
  BY <1>1, <1>4, <1>7, Keeps
<1>9. Where(c, {j}, {}, {}, {})'
  BY <1>1, <1>4, <1>5, <1>7 DEF Where
<1>10. CallOK(c)'
  <2>1. call_refs'[c] = 1 + CallerRef(c)' /\ call_cap'[c] = None
    BY <1>0, <1>1, <1>3, <1>8 DEF Handled, CallerRef
  <2>2. Queued(c, j)'
    BY <1>8, <1>9, <2>1 DEF Queued
  <2> QED BY <2>2 DEF CallOK
<1> QED BY <1>1, <1>2, <1>3, <1>5, <1>6, <1>10, <1>c, OnlyCall

\* The interrupted caller goes on waiting.
LEMMA SyncStayCall ==
    ASSUME IInv, NEW t \in Threads, SyncInterrupted(t) \/ SyncAnswered(t)
    PROVE  CallInv'
<1>1. UNCHANGED <<wq, calls, dispatched, answers, active_calls, hangup_call, caller_phone,
                  callerbox, active, forget, call_cap, call_refs>>
  BY DEF SyncInterrupted, SyncAnswered, box, phone, call
<1>2. /\ thr \in [Threads -> ThreadType] /\ "race" \in PCs /\ "answered" \in PCs
      /\ thr[t].pc \in SyncPCs
  BY DEF IInv, Types, PCs, SyscallPCs, SyncInterrupted, SyncAnswered, SyncPCs
<1>3. /\ \A u \in Threads : u # t => thr'[u] = thr[u]
      /\ thr'[t].call = thr[t].call /\ thr'[t].pc \in SyncPCs
  BY <1>2, GotoFacts DEF SyncInterrupted, SyncAnswered, SyncPCs
<1>4. ASSUME NEW d \in AllCalls PROVE Same(d)
  <2>1. \/ thr[t].call # d /\ thr'[t].call # d
        \/ Waits(t, d) /\ Waits(t, d)'
    BY <1>2, <1>3 DEF Waits
  <2> QED BY <1>1, <1>3, <2>1, Untouched
<1> QED BY <1>4, SameCall DEF IInv, CallInv

\* The caller forgets a call that nothing has been decided about.
LEMMA Forgotten ==
    ASSUME NEW c \in AllCalls, call_refs[c] \in Int, \A u \in Threads : thr[u].ref \in {0, 1},
           Pending(c), ~forget[c],
           \/ \E k \in Tasks : Queued(c, k) \/ Open(c, k)
           \/ \E u \in Threads : Handled(c, u) /\ thr[u].pc \notin {"slam", "deliver"},
           UNCHANGED <<calls, dispatched, answers, call_cap, caller_phone, callerbox, active>>,
           forget'[c], \A k \in Tasks : c \notin active_calls'[k],
           \A u \in Threads : /\ ~Waits(u, c)'
                              /\ Holds(u, c)' <=> Holds(u, c)
                              /\ Holds(u, c) => thr'[u] = thr[u],
           call_refs'[c] = call_refs[c] - CallerRef(c)
    PROVE  CallOK(c)'
<1>1. Pending(c)' /\ CallerRef(c)' = 0 /\ CallerRef(c) \in {0, 1}
  BY DEF Pending, Sent, CallerWaits, WaitedBy, ActiveIn, CallerRef
<1>2. \A Q, D, A, H : Where(c, Q, D, A, H) => Where(c, Q, D, A, H)'
  BY DEF Where
<1>3. ASSUME NEW k \in Tasks, Queued(c, k) PROVE CallOK(c)'
  <2>1. call_refs'[c] = 1 + CallerRef(c)'
    BY <1>1, <1>3 DEF Queued
  <2>2. Queued(c, k)'
    BY <1>1, <1>2, <1>3, <2>1 DEF Queued
  <2> QED BY <2>2 DEF CallOK
<1>4. ASSUME NEW k \in Tasks, Open(c, k) PROVE CallOK(c)'
  <2>1. call_refs'[c] = 1 + CallerRef(c)' + (IF call_cap[c] = None THEN 0 ELSE 1)
    BY <1>1, <1>4 DEF Open
  <2>2. Open(c, k)'
    BY <1>1, <1>2, <1>4, <2>1 DEF Open
  <2> QED BY <2>2 DEF CallOK
<1>5. ASSUME NEW u \in Threads, Handled(c, u), thr[u].pc \notin {"slam", "deliver"} PROVE CallOK(c)'
  <2>0. Holds(u, c)
    BY <1>5 DEF Handled, Where
  <2>1. thr'[u] = thr[u]
    BY <2>0
  <2>2. call_refs'[c] = 1 + CallerRef(c)' + thr[u].ref
    BY <1>1, <1>5 DEF Handled
  <2>3. Handled(c, u)'
    BY <1>1, <1>2, <1>5, <2>1, <2>2 DEF Handled
  <2> QED BY <2>3 DEF CallOK
<1> QED BY <1>3, <1>4, <1>5

LEMMA SyncForgetCall ==
    ASSUME IInv, NEW t \in Threads, SyncForget(t)
    PROVE  CallInv'
<1> USE Nones
<1>c. PICK c \in AllCalls : c = thr[t].call
  BY HandFacts DEF SyncForget, SyncPCs
<1>k. PICK k \in Tasks : k = TaskOf[t]
  OBVIOUS
<1>0. /\ Types /\ Shape(thr[t]) /\ thr \in [Threads -> ThreadType] /\ thr[t].pc = "race"
      /\ Waits(t, c) /\ CallOK(c) /\ active[c] /\ call_refs[c] \in Int
      /\ \A u \in Threads : thr[u].ref \in {0, 1}
  <2>1. thr[t].pc = "race" /\ active[c]
    BY <1>c DEF SyncForget
  <2>2. Types /\ call_refs[c] \in Int /\ CallOK(c)
    BY DEF IInv, CallInv, Types
  <2> QED BY <1>c, <2>1, <2>2, HandFacts DEF SyncPCs
<1>1. /\ forget' = [forget EXCEPT ![c] = TRUE]
      /\ active_calls' = [active_calls EXCEPT ![k] = @ \ {c}]
      /\ call_refs' = Add(call_refs, c, -1) /\ Return(t)
      /\ UNCHANGED <<wq, calls, dispatched, answers, hangup_call, caller_phone, callerbox,
                     active, call_cap>>
  BY <1>c, <1>k DEF SyncForget, ForgetCall, PutCall
<1>2. (\A u \in Threads : u # t => thr'[u] = thr[u]) /\ thr'[t].call = None
  BY <1>0, <1>1, ReturnFacts
<1>3. /\ c \in SyncCalls /\ ~forget[c] /\ callerbox[c] = t /\ CallerWaits(c)
      /\ \/ \E i \in Tasks : Queued(c, i) \/ Open(c, i)
         \/ \E u \in Threads : Handled(c, u)
         \/ \E H \in OneOrNone : Answered(c, H)
  BY <1>0, WaitedCall
<1>4. /\ Pending(c)
      /\ \/ \E i \in Tasks : Queued(c, i) \/ Open(c, i)
         \/ \E u \in Threads : Handled(c, u) /\ thr[u].pc \notin {"slam", "deliver"}
  <2>1. \A H \in OneOrNone : ~Answered(c, H)
    BY <1>0, <1>3 DEF Answered
  <2>2. ~Decided(c)
    BY <1>0, <1>3 DEF Decided
  <2>3. \A u \in Threads : Handled(c, u) => Pending(c) /\ thr[u].pc \notin {"slam", "deliver"}
    BY <2>2 DEF Handled
  <2>4. \A i \in Tasks : Queued(c, i) \/ Open(c, i) => Pending(c)
    BY DEF Queued, Open
  <2> QED BY <1>3, <2>1, <2>3, <2>4
<1>5. CallerRef(c) = 1
  BY <1>3 DEF CallerRef
<1>6. call_refs'[c] = call_refs[c] - 1 /\ \A d \in AllCalls : d # c => call_refs'[d] = call_refs[d]
  <2>1. -1 \in Int
    OBVIOUS
  <2> QED BY <1>0, <1>1, <2>1, CountRefs
<1>7. /\ forget'[c] /\ \A d \in AllCalls : d # c => forget'[d] = forget[d]
  BY <1>0, <1>1 DEF Types
<1>8. /\ \A i \in Tasks : c \notin active_calls'[i]
      /\ \A i \in Tasks, d \in AllCalls : d # c => (d \in active_calls'[i] <=> d \in active_calls[i])
  <2>1. \A i \in Tasks : c \in active_calls[i] => i = k
    BY <1>3, <1>4, <1>k DEF Pending, ActiveIn, Owner
  <2>2. \A i \in Tasks : active_calls'[i] = IF i = k THEN active_calls[i] \ {c} ELSE active_calls[i]
    BY <1>0, <1>1 DEF Types
  <2> QED BY <2>1, <2>2
<1>9. \A u \in Threads : /\ ~Waits(u, c)'
                         /\ Holds(u, c)' <=> Holds(u, c)
                         /\ Holds(u, c) => thr'[u] = thr[u]
  <2>1. \A u \in Threads : Waits(u, c) <=> u = t
    BY <1>3 DEF CallerWaits, WaitedBy
  <2>2. ~Holds(t, c) /\ ~Holds(t, c)' /\ ~Waits(t, c)'
    BY <1>0, <1>2 DEF Holds, Waits, HolderPCs
  <2> QED BY <1>2, <2>1, <2>2, OtherHands
<1>10. CallOK(c)'
  BY <1>0, <1>1, <1>3, <1>4, <1>5, <1>6, <1>7, <1>8, <1>9, Forgotten
<1>11. UNCHANGED <<wq, calls, dispatched, answers, hangup_call, caller_phone, callerbox,
                   active, call_cap>>
  BY <1>1
<1> QED BY <1>2, <1>6, <1>7, <1>8, <1>10, <1>11, <1>c, OnlyCall

LEMMA ForgetAllCall ==
    ASSUME IInv, NEW t \in Threads, NEW c \in AllCalls, ForgetAll(t, c)
    PROVE  CallInv'
<1> USE Nones
<1>k. PICK k \in Tasks : k = TaskOf[t]
  OBVIOUS
<1>0. /\ Types /\ CallOK(c) /\ thr[t].pc = "forget_all" /\ c \in active_calls[k] /\ thr[t].call = None
      /\ call_refs[c] \in Int /\ ThreadOK(t) /\ \A u \in Threads : thr[u].ref \in {0, 1}
  <2>1. thr[t].pc = "forget_all" /\ c \in active_calls[k]
    BY <1>k DEF ForgetAll
  <2>2. Types /\ CallOK(c) /\ ThreadOK(t) /\ call_refs[c] \in Int
    BY DEF IInv, CallInv, ThreadInv, Types
  <2> QED BY <2>1, <2>2, IdleFacts, HandFacts DEF HolderPCs, SyncPCs
<1>1. /\ forget' = [forget EXCEPT ![c] = TRUE]
      /\ active_calls' = [active_calls EXCEPT ![k] = @ \ {c}]
      /\ UNCHANGED <<wq, calls, dispatched, answers, hangup_call, caller_phone, callerbox,
                     active, call_cap, call_refs, thr>>
  BY <1>k DEF ForgetAll, ForgetCall
<1>2. /\ Pending(c) /\ ~forget[c] /\ k = Owner(c)
      /\ \/ \E i \in Tasks : Queued(c, i) \/ Open(c, i)
         \/ \E u \in Threads : Handled(c, u) /\ thr[u].pc \notin {"slam", "deliver"}
  BY <1>0, ActiveCall
<1>3. c \notin SyncCalls
  <2> SUFFICES ASSUME c \in SyncCalls PROVE FALSE
    OBVIOUS
  <2>1. PICK u \in Threads : u = callerbox[c] /\ Waits(u, c)
    BY <1>2 DEF Pending, Sent, CallerWaits, WaitedBy
  <2>2. TaskOf[u] = TaskOf[t]
    BY <1>2, <1>k, <2>1 DEF Owner
  <2>3. Cleaning(thr[t])
    BY <1>0 DEF Cleaning, CleanupPCs
  <2>4. u = t \/ thr[u].pc = "dead"
    BY <1>0, <2>2, <2>3 DEF ThreadOK
  <2> QED BY <1>0, <2>1, <2>4 DEF Waits, SyncPCs
<1>4. call_refs'[c] = call_refs[c] - CallerRef(c)
  BY <1>0, <1>1, <1>3 DEF CallerRef
<1>5. /\ forget'[c] /\ \A d \in AllCalls : d # c => forget'[d] = forget[d]
  BY <1>0, <1>1 DEF Types
<1>6. /\ \A i \in Tasks : c \notin active_calls'[i]
      /\ \A i \in Tasks, d \in AllCalls : d # c => (d \in active_calls'[i] <=> d \in active_calls[i])
  <2>1. \A i \in Tasks : c \in active_calls[i] => i = k
    BY <1>2 DEF Pending, ActiveIn
  <2>2. \A i \in Tasks : active_calls'[i] = IF i = k THEN active_calls[i] \ {c} ELSE active_calls[i]
    BY <1>0, <1>1 DEF Types
  <2> QED BY <2>1, <2>2
<1>7. \A u \in Threads : /\ ~Waits(u, c)'
                         /\ Holds(u, c)' <=> Holds(u, c)
                         /\ Holds(u, c) => thr'[u] = thr[u]
  <2>1. \A u \in Threads : ~Waits(u, c)
    BY <1>2, <1>3 DEF Pending, CallerWaits, WaitedBy
  <2> QED BY <1>1, <2>1 DEF Holds, Waits
<1>8. CallOK(c)'
  BY <1>0, <1>1, <1>2, <1>4, <1>5, <1>6, <1>7, Forgotten
<1>9. UNCHANGED <<wq, calls, dispatched, answers, hangup_call, caller_phone, callerbox,
                  active, call_cap, call_refs, thr>>
  BY <1>1
<1> QED BY <1>0, <1>5, <1>6, <1>8, <1>9, OnlyCall

\* ipc_cleanup() answers a queued call ...
LEMMA CleanupCallsCall ==
    ASSUME IInv, NEW t \in Threads, CleanupCalls(t)
    PROVE  CallInv'
<1> USE Nones
<1>k. PICK k \in Tasks : k = TaskOf[t]
  OBVIOUS
<1>0. /\ Types /\ ListInv /\ thr[t].pc = "calls" /\ thr[t].call = None
      /\ thr[t].ref = 0 /\ thr[t].pc \notin SyncPCs
  <2>1. thr[t].pc = "calls" /\ Shape(thr[t]) /\ thr[t].ref \in {0, 1}
    BY HandFacts DEF CleanupCalls
  <2> QED BY <2>1, IdleFacts DEF IInv, Shape, HolderPCs, SyncPCs
<1>1. /\ calls[k] # <<>> /\ calls' = [calls EXCEPT ![k] = Tail(@)]
      /\ UNCHANGED <<wq, dispatched, answers, active_calls, hangup_call, caller_phone,
                     callerbox, active, forget, call_cap, call_refs>>
  BY <1>k DEF CleanupCalls, AnswerCall, phone
<1>2. /\ Head(calls[k]) \in AllCalls /\ Head(calls[k]) \in Elements(calls[k])
      /\ \A i \in Tasks, d \in AllCalls : d \in Elements(calls'[i]) <=>
            d \in Elements(calls[i]) /\ ~(i = k /\ d = Head(calls[k]))
  BY <1>0, <1>1, TakeCalls
<1>c. PICK c \in AllCalls : c = Head(calls[k])
  BY <1>2
<1>3. /\ \A u \in Threads : u # t => thr'[u] = thr[u]
      /\ thr'[t].pc = "preprocess" /\ thr'[t].call = c /\ thr'[t].ref = 0
  <2>1. AnswerCall(t, c)
    BY <1>c, <1>k DEF CleanupCalls
  <2> QED BY <1>0, <2>1, AnswerCallMove
<1>4. Queued(c, k)
  <2>1. CallOK(c)
    BY DEF IInv, CallInv
  <2> QED BY <1>2, <1>c, <2>1, QueuedCall
<1>5. \A u \in Threads : (Holds(u, c)' <=> Holds(u, c) \/ u = t) /\ (Waits(u, c)' <=> Waits(u, c))
  BY <1>0, <1>3, TakeUp DEF HolderPCs
<1>6. Pending(c)' /\ CallerRef(c)' = CallerRef(c)
  BY <1>1, <1>4, <1>5, Keeps DEF Queued
<1>7. Where(c, {}, {}, {}, {t})'
  BY <1>1, <1>2, <1>4, <1>5, <1>c DEF Queued, Where
<1>8. CallOK(c)'
  <2>1. call_refs'[c] = 1 + CallerRef(c)' + thr'[t].ref /\ call_cap'[c] = None
    BY <1>1, <1>3, <1>4, <1>6 DEF Queued, CallerRef
  <2>2. Handled(c, t)'
    BY <1>3, <1>6, <1>7, <2>1 DEF Handled
  <2> QED BY <2>2 DEF CallOK
<1> QED BY <1>0, <1>1, <1>2, <1>3, <1>8, <1>c, OnlyCall

\* ... or a dispatched one: no thread of the task is working on it, and its
\* capability is gone.
LEMMA CleanupDispatchedCall ==
    ASSUME IInv, NEW t \in Threads, NEW c \in AllCalls, CleanupDispatched(t, c)
    PROVE  CallInv'
<1> USE Nones
<1>k. PICK k \in Tasks : k = TaskOf[t]
  OBVIOUS
<1>0. /\ Types /\ ThreadOK(t) /\ CallOK(c) /\ thr[t].pc = "dispatched" /\ thr[t].call = None
      /\ thr[t].ref = 0 /\ thr[t].pc \notin SyncPCs /\ c \in dispatched[k]
  <2>1. thr[t].pc = "dispatched" /\ Shape(thr[t]) /\ thr[t].ref \in {0, 1} /\ c \in dispatched[k]
    BY <1>k, HandFacts DEF CleanupDispatched
  <2>2. Types /\ ThreadOK(t) /\ CallOK(c)
    BY DEF IInv, ThreadInv, CallInv
  <2> QED BY <2>1, <2>2, IdleFacts DEF Shape, HolderPCs, SyncPCs
<1>1. /\ dispatched' = [dispatched EXCEPT ![k] = @ \ {c}] /\ AnswerCall(t, c)
      /\ UNCHANGED <<wq, calls, answers, active_calls, hangup_call, caller_phone,
                     callerbox, active, forget, call_cap, call_refs>>
  BY <1>k DEF CleanupDispatched, AnswerCall, phone
<1>2. Open(c, k) /\ call_cap[c] = None
  <2>1. Cleaning(thr[t]) /\ Late(thr[t])
    BY <1>0 DEF Cleaning, Late, CleanupPCs
  <2>2. call_cap[c] # k
    BY <1>0, <1>k, <2>1 DEF ThreadOK
  <2>3. ASSUME NEW u \in Threads, TaskOf[u] = k, Holds(u, c) PROVE FALSE
    <3>1. u = t \/ thr[u].pc = "dead"
      BY <1>0, <1>k, <2>1, <2>3 DEF ThreadOK
    <3> QED BY <1>0, <2>3, <3>1 DEF Holds, HolderPCs
  <2>4. Open(c, k)
    BY <1>0, <2>3, DispatchedCall
  <2> QED BY <2>2, <2>4 DEF Open
<1>3. /\ \A u \in Threads : u # t => thr'[u] = thr[u]
      /\ thr'[t].pc = "preprocess" /\ thr'[t].call = c /\ thr'[t].ref = 0
  BY <1>0, <1>1, AnswerCallMove
<1>4. /\ \A i \in Tasks : c \notin dispatched'[i]
      /\ \A i \in Tasks, d \in AllCalls : d # c => (d \in dispatched'[i] <=> d \in dispatched[i])
  <2>1. \A i \in Tasks : c \in dispatched[i] => i = k
    BY <1>2 DEF Open, Where
  <2>2. \A i \in Tasks : dispatched'[i] = IF i = k THEN dispatched[i] \ {c} ELSE dispatched[i]
    BY <1>0, <1>1 DEF Types
  <2> QED BY <2>1, <2>2
<1>5. \A u \in Threads : (Holds(u, c)' <=> Holds(u, c) \/ u = t) /\ (Waits(u, c)' <=> Waits(u, c))
  BY <1>0, <1>3, TakeUp DEF HolderPCs
<1>6. Pending(c)' /\ CallerRef(c)' = CallerRef(c)
  BY <1>1, <1>2, <1>5, Keeps DEF Open
<1>7. Where(c, {}, {}, {}, {t})'
  BY <1>1, <1>2, <1>4, <1>5 DEF Open, Where
<1>8. CallOK(c)'
  <2>1. call_refs'[c] = 1 + CallerRef(c)' + thr'[t].ref /\ call_cap'[c] = None
    BY <1>1, <1>2, <1>3, <1>6 DEF Open, CallerRef
  <2>2. Handled(c, t)'
    BY <1>3, <1>6, <1>7, <2>1 DEF Handled
  <2> QED BY <2>2 DEF CallOK
<1>9. UNCHANGED <<wq, calls, answers, active_calls, hangup_call, caller_phone,
                  callerbox, active, forget, call_cap, call_refs>>
  BY <1>1
<1> QED BY <1>0, <1>3, <1>4, <1>8, <1>9, OnlyCall

\* A request is received where only answers are expected.
LEMMA WaitAllRequestCall ==
    ASSUME IInv, NEW t \in Threads, WaitAllRequest(t)
    PROVE  CallInv'
<1> USE Nones
<1>k. PICK k \in Tasks : k = TaskOf[t]
  OBVIOUS
<1>0. /\ Types /\ ListInv /\ thr \in [Threads -> ThreadType] /\ thr[t].call = None
      /\ thr[t].pc \notin SyncPCs /\ "panic" \in PCs
  BY IdleFacts DEF IInv, Types, WaitAllRequest, HolderPCs, SyncPCs, PCs, CleanupPCs
<1>1. /\ calls[k] # <<>> /\ calls' = [calls EXCEPT ![k] = Tail(@)]
      /\ dispatched' = [dispatched EXCEPT ![k] = @ \cup {Head(calls[k])}]
      /\ UNCHANGED <<wq, answers, active_calls, hangup_call, caller_phone,
                     callerbox, active, forget, call_cap, call_refs>>
  BY <1>k DEF WaitAllRequest, call, phone
<1>2. /\ Head(calls[k]) \in AllCalls /\ Head(calls[k]) \in Elements(calls[k])
      /\ \A i \in Tasks, d \in AllCalls : d \in Elements(calls'[i]) <=>
            d \in Elements(calls[i]) /\ ~(i = k /\ d = Head(calls[k]))
  BY <1>0, <1>1, TakeCalls
<1>c. PICK c \in AllCalls : c = Head(calls[k])
  BY <1>2
<1>3. (\A u \in Threads : u # t => thr'[u] = thr[u]) /\ thr'[t].call = None
  BY <1>0, GotoFacts DEF WaitAllRequest
<1>4. Queued(c, k)
  <2>1. CallOK(c)
    BY DEF IInv, CallInv
  <2> QED BY <1>2, <1>c, <2>1, QueuedCall
<1>5. \A u \in Threads : (Holds(u, c)' <=> Holds(u, c) /\ u # t) /\ (Waits(u, c)' <=> Waits(u, c))
  BY <1>0, <1>3, LetGo
<1>6. \A i \in Tasks, d \in AllCalls : d \in dispatched'[i] <=> d \in dispatched[i] \/ (i = k /\ d = c)
  BY <1>0, <1>1, <1>c DEF Types
<1>7. Pending(c)' /\ CallerRef(c)' = CallerRef(c)
  BY <1>1, <1>4, <1>5, Keeps DEF Queued
<1>8. Where(c, {}, {k}, {}, {})'
  BY <1>1, <1>2, <1>4, <1>5, <1>6, <1>c DEF Queued, Where
<1>9. CallOK(c)'
  <2>1. call_refs'[c] = 1 + CallerRef(c)' + 0 /\ call_cap'[c] = None
    BY <1>1, <1>4, <1>7 DEF Queued, CallerRef
  <2>2. Open(c, k)'
    BY <1>7, <1>8, <2>1 DEF Open
  <2> QED BY <2>2 DEF CallOK
<1> QED BY <1>0, <1>1, <1>2, <1>3, <1>6, <1>9, <1>c, OnlyCall

\* The capabilities of the task's calls are released.
LEMMA SlamDoneCall ==
    ASSUME IInv, NEW t \in Threads, SlamDone(t)
    PROVE  CallInv'
<1> USE Nones
<1>k. PICK k \in Tasks : k = TaskOf[t]
  OBVIOUS
<1>0. /\ Types /\ thr \in [Threads -> ThreadType] /\ thr[t].call = None
      /\ thr[t].pc \notin SyncPCs /\ "calls" \in PCs
  BY IdleFacts DEF IInv, Types, SlamDone, HolderPCs, SyncPCs, PCs, CleanupPCs
<1>1. UNCHANGED <<wq, calls, dispatched, answers, active_calls, hangup_call, caller_phone,
                  callerbox, active, forget>>
  BY DEF SlamDone, box, phone
<1>2. \A d \in AllCalls :
         /\ call_cap[d] = k => call_cap'[d] = None /\ call_refs'[d] = call_refs[d] - 1
         /\ call_cap[d] # k => call_cap'[d] = call_cap[d] /\ call_refs'[d] = call_refs[d]
  <2>1. \A d \in AllCalls : call_refs[d] \in Int
    BY <1>0 DEF Types
  <2>2. /\ call_refs' = [d \in AllCalls |-> call_refs[d] - (IF call_cap[d] = k THEN 1 ELSE 0)]
        /\ call_cap' = [d \in AllCalls |-> IF call_cap[d] = k THEN None ELSE call_cap[d]]
    BY <1>k DEF SlamDone
  <2> QED BY <2>1, <2>2
<1>3. (\A u \in Threads : u # t => thr'[u] = thr[u]) /\ thr'[t].call = None
  BY <1>0, GotoFacts DEF SlamDone
<1> SUFFICES ASSUME NEW d \in AllCalls PROVE CallOK(d)'
  BY DEF CallInv
<1>4. CallOK(d) /\ call_refs[d] \in Int
  BY DEF IInv, CallInv, Types
<1>5. CASE call_cap[d] # k
  <2>1. Same(d)
    BY <1>0, <1>1, <1>2, <1>3, <1>5, Untouched
  <2> QED BY <1>4, <2>1, SameCall
<1>6. CASE call_cap[d] = k
  <2>1. Open(d, k)
    BY <1>4, <1>6, PublishedCall
  <2>2. \A u \in Threads : (Holds(u, d)' <=> Holds(u, d) /\ u # t) /\ (Waits(u, d)' <=> Waits(u, d))
    BY <1>0, <1>3, LetGo
  <2>3. Pending(d)' /\ CallerRef(d)' = CallerRef(d)
    BY <1>1, <2>1, <2>2, Keeps DEF Open
  <2>4. Where(d, {}, {k}, {}, {})'
    BY <1>1, <2>1, <2>2 DEF Open, Where
  <2>5. call_cap'[d] = None /\ call_refs'[d] = 1 + CallerRef(d)' + 0
    BY <1>2, <1>4, <1>6, <2>1, <2>3 DEF Open, CallerRef
  <2>6. Open(d, k)'
    BY <2>3, <2>4, <2>5 DEF Open
  <2> QED BY <2>6 DEF CallOK
<1> QED BY <1>5, <1>6

\* Steps that concern no call: the thread has none before and after.
LEMMA QuietCall ==
    ASSUME IInv, NEW t \in Threads,
           \/ WaitForCall(t) \/ Poke(t) \/ Wakeup(t) \/ WaitFails(t) \/ DequeueNothing(t)
           \/ Unlist(t) \/ HangupSlammed(t) \/ Leave(t) \/ Exit(t) \/ HangAllDone(t)
           \/ (\E p \in Phones : SysHangup(t, p) \/ HangAll(t, p) \/ SlamPhone(t, p))
           \/ CleanupDone(t) \/ ForgetAllDone(t) \/ WaitAllDone(t) \/ WaitAll(t) \/ WaitAllNothing(t)
    PROVE  CallInv'
<1> USE Nones
<1>0. Types /\ thr \in [Threads -> ThreadType] /\ Shape(thr[t]) /\ TaskOf[t] \in Tasks
  BY HandFacts DEF IInv
<1>1. thr[t].call = None
  <2>1. thr[t].pc \notin HolderPCs \cup SyncPCs
    BY DEF WaitForCall, Poke, Wakeup, WaitFails, DequeueNothing, Unlist, HangupSlammed, Leave,
           Exit, HangAllDone, SysHangup, HangAll, SlamPhone, CleanupDone, ForgetAllDone,
           WaitAllDone, WaitAll, WaitAllNothing, HolderPCs, SyncPCs
  <2> QED BY <2>1, IdleFacts
<1>2. UNCHANGED <<calls, dispatched, answers, active_calls, hangup_call, caller_phone,
                  callerbox, active, forget, call_cap, call_refs>>
  BY DEF WaitForCall, Poke, Wakeup, WaitFails, DequeueNothing, Unlist, HangupSlammed, Leave,
         Exit, HangAllDone, SysHangup, HangAll, SlamPhone, CleanupDone, ForgetAllDone,
         WaitAllDone, WaitAll, WaitAllNothing, box, phone, call
<1>3. \A u \in Threads : wq'[u] = wq[u]
  <2>1. \/ wq' = wq \/ wq' = Add(wq, TaskOf[t], 1) \/ wq' = Add(wq, TaskOf[t], -1)
    BY DEF WaitForCall, Poke, Wakeup, WaitFails, DequeueNothing, Unlist, HangupSlammed, Leave,
           Exit, HangAllDone, SysHangup, HangAll, SlamPhone, CleanupDone, ForgetAllDone,
           WaitAllDone, WaitAll, WaitAllNothing, box
  <2> QED BY <1>0, <2>1, TaskWq
<1>4. \/ thr' = thr \/ Return(t)
      \/ Goto(t, "wait") \/ Goto(t, "dequeue") \/ Goto(t, "hungup") \/ Goto(t, "exit")
      \/ Goto(t, "hang_all") \/ Goto(t, "dead") \/ Goto(t, "slam_all") \/ Goto(t, "forget_all")
      \/ Goto(t, "dispatched") \/ Goto(t, "wait_all") \/ Goto(t, "dequeue_all")
      \/ \E p \in Phones : SysHangup(t, p) \/ HangAll(t, p)
  BY DEF WaitForCall, Poke, Wakeup, WaitFails, DequeueNothing, Unlist, HangupSlammed, Leave,
         Exit, HangAllDone, SlamPhone, CleanupDone, ForgetAllDone,
         WaitAllDone, WaitAll, WaitAllNothing
<1>5. (\A u \in Threads : u # t => thr'[u] = thr[u]) /\ (thr'[t] = thr[t] \/ thr'[t].call = None)
  <2>1. ASSUME NEW pc \in PCs, Goto(t, pc)
        PROVE  (\A u \in Threads : u # t => thr'[u] = thr[u]) /\ thr'[t].call = None
    BY <1>0, <1>1, <2>1, GotoFacts
  <2>2. {"wait", "dequeue", "hungup", "exit", "hang_all", "dead", "slam_all", "forget_all",
         "dispatched", "wait_all", "dequeue_all"} \subseteq PCs
    BY DEF PCs, SyscallPCs, CleanupPCs
  <2>3. ASSUME Return(t)
        PROVE  (\A u \in Threads : u # t => thr'[u] = thr[u]) /\ thr'[t].call = None
    BY <1>0, <2>3, ReturnFacts
  <2>4. ASSUME NEW p \in Phones, SysHangup(t, p) \/ HangAll(t, p)
        PROVE  (\A u \in Threads : u # t => thr'[u] = thr[u]) /\ thr'[t].call = None
    BY <1>0, <1>1, <2>4, SysHangupMove, HangAllMove
  <2> QED BY <1>4, <2>1, <2>2, <2>3, <2>4
<1> QED BY <1>1, <1>2, <1>3, <1>5, Quiet

LEMMA CallStep == IInv /\ [Next]_vars => CallInv'
<1> SUFFICES ASSUME IInv, [Next]_vars PROVE CallInv'
  OBVIOUS
<1>1. ASSUME UNCHANGED <<wq, calls, dispatched, answers, active_calls, hangup_call, caller_phone,
                         callerbox, active, forget, call_cap, call_refs, thr>>
      PROVE  CallInv'
  <2>1. \A d \in AllCalls : Same(d)
    BY <1>1 DEF Same
  <2> QED BY <2>1, SameCall DEF IInv, CallInv
<1>2. ASSUME NEW t \in Threads, Request(t) PROVE CallInv'
  <2>1. ASSUME NEW p \in Phones, NEW c \in Calls,
               CallAsync(t, p, c) \/ CallSync(t, p, c) \/ \E q \in Phones : ConnectMeTo(t, p, c, q)
        PROVE  CallInv'
    BY <2>1, CallAsyncCall
  <2>2. ASSUME NEW c \in AllCalls,
               \/ (\E rv \in UserRetvals : Answer(t, c, rv)) \/ ForwardRefused(t, c)
               \/ \E p \in Phones : Forward(t, c, p)
        PROVE  CallInv'
    BY <2>2, AnswerCallCall
  <2>3. ASSUME WaitForCall(t) \/ Poke(t) \/ \E p \in Phones : SysHangup(t, p) PROVE CallInv'
    BY <2>3, QuietCall
  <2> QED BY <1>2, <2>1, <2>2, <2>3 DEF Request
<1>3. ASSUME NEW t \in Threads, KernelStep(t) PROVE CallInv'
  BY <1>3, SendCall, SendRefusedCall, BacksendCall, BacksendSyncCall, ReceiveCall,
     DequeueRequestCall, PublishCall, GoOnCall, PreprocessCall, DeliverCall, DiscardCall, WakeCall,
     ForwardSendCall, SyncReceiveCall, SyncStayCall, SyncForgetCall, SendHungupCall, QuietCall
  DEF KernelStep
<1>4. ASSUME NEW t \in Threads, CleanupStep(t) PROVE CallInv'
  BY <1>4, ReceiveCall, SlamDoneCall, CleanupCallsCall, CleanupDispatchedCall, ForgetAllCall,
     WaitAllRequestCall, QuietCall
  DEF CleanupStep
<1>5. ASSUME NEW k \in Tasks, Kill(k) PROVE CallInv'
  BY <1>1, <1>5 DEF Kill, box, phone, call
<1>6. CASE UNCHANGED vars
  BY <1>1, <1>6 DEF vars
<1> QED BY <1>2, <1>3, <1>4, <1>5, <1>6 DEF Next

-----------------------------------------------------------------------------
(* The inductive invariant. *)

LEMMA InitIInv == Init => IInv
<1> SUFFICES ASSUME Init PROVE IInv
  OBVIOUS
<1> USE Nones
<1>0. Elements(<<>>) = {} /\ IsInjective(<<>>)
  BY DEF Elements, IsInjective
<1>1. Types
  <2>1. /\ box_active \in [Tasks -> BOOLEAN] /\ wq \in [Boxes -> Nat]
        /\ box_active_calls \in [Boxes -> Int] /\ calls \in [Tasks -> Seq(AllCalls)]
        /\ dispatched \in [Tasks -> SUBSET AllCalls] /\ answers \in [Boxes -> Seq(AllCalls)]
    BY DEF Init
  <2>2. /\ state \in [Phones -> PhoneStates] /\ lock \in [Phones -> Threads \cup {None}]
        /\ caller \in [Phones -> Tasks \cup {None}] /\ callee \in [Phones -> Tasks \cup {None}]
        /\ linked \in [Phones -> BOOLEAN] /\ phone_active_calls \in [Phones -> Int]
        /\ hangup_call \in [Phones -> BOOLEAN] /\ phone_refs \in [Phones -> Int]
        /\ phone_cap \in [Phones -> BOOLEAN]
    BY IpcAssumption DEF Init, PhoneStates
  <2>3. /\ call_refs \in [AllCalls -> Int] /\ caller_phone \in [AllCalls -> Phones \cup {None}]
        /\ callerbox \in [AllCalls -> Boxes \cup {None}] /\ active \in [AllCalls -> BOOLEAN]
        /\ forget \in [AllCalls -> BOOLEAN] /\ priv \in [AllCalls -> Phones \cup {None}]
        /\ retval \in [AllCalls -> Retvals] /\ call_cap \in [AllCalls -> Tasks \cup {None}]
    BY DEF Init, Retvals
  <2>4. /\ active_calls \in [Tasks -> SUBSET AllCalls] /\ interrupted \in [Threads -> BOOLEAN]
        /\ thr \in [Threads -> ThreadType] /\ pokes \in 0..MaxPokes
    BY UserFacts, IpcAssumption DEF Init
  <2> QED BY <2>1, <2>2, <2>3, <2>4 DEF Types
<1>2. ThreadInv
  <2>1. \A t \in Threads : thr[t] = User
    BY DEF Init
  <2>2. Shape(User) /\ ~Cleaning(User) /\ ~Late(User) /\ User.pc # "hungup"
    BY UserFacts DEF Shape, Cleaning, Late, HolderPCs, SyncPCs, PhonePCs, CleanupPCs
  <2> QED BY <2>1, <2>2 DEF ThreadInv, ThreadOK
<1>3. PhoneInv
  <2> SUFFICES ASSUME NEW p \in Phones PROVE PhoneOK(p)
    BY DEF PhoneInv
  <2>1. /\ state[p] = (IF p \in BootPhones THEN "CONNECTED" ELSE "FREE") /\ lock[p] = None
        /\ callee[p] = (IF p \in BootPhones THEN BootCallee[p] ELSE None)
        /\ linked[p] = (p \in BootPhones) /\ hangup_call[p] = (p \in BootPhones)
        /\ caller_phone[p] = None
    BY DEF Init
  <2>2. p \in BootPhones => callee[p] \in Tasks
    BY <2>1, IpcAssumption
  <2> QED BY <2>1, <2>2 DEF PhoneOK
<1>4. ListInv
  BY <1>0 DEF Init, ListInv
<1>5. CallInv
  <2> SUFFICES ASSUME NEW c \in AllCalls PROVE CallOK(c)
    BY DEF CallInv
  <2>1. /\ caller_phone[c] = None /\ ~active[c] /\ ~forget[c] /\ call_cap[c] = None
        /\ call_refs[c] = IF c \in BootPhones THEN 1 ELSE 0
        /\ \A k \in Tasks : active_calls[k] = {} /\ calls[k] = <<>> /\ dispatched[k] = {}
        /\ \A b \in Boxes : answers[b] = <<>>
        /\ \A t \in Threads : thr[t].call = None
        /\ c \in Phones => hangup_call[c] = (c \in BootPhones)
    BY UserFacts DEF Init
  <2>2. Where(c, {}, {}, {}, {})
    BY <1>0, <2>1 DEF Where, Holds
  <2>3. NotSent(c)
    BY <2>1 DEF NotSent, ActiveIn, WaitedBy, Waits
  <2>4. Fresh(c)
    BY <2>1, <2>2, <2>3, IpcAssumption DEF Fresh
  <2> QED BY <2>4 DEF CallOK
<1> QED BY <1>1, <1>2, <1>3, <1>4, <1>5 DEF IInv

\* Every call is in one of its states: with its sender, queued in one box,
\* dispatched in one task, handled by one thread, answered or done, with the
\* references that belong to the state; and the threads, phones and lists fit.
THEOREM Invariance == Spec => []IInv
<1>1. IInv /\ [Next]_vars => IInv'
  BY TypesStep, ThreadStep, PhoneStep, ListStep, CallStep DEF IInv
<1> QED BY InitIInv, <1>1, PTL DEF Spec

\* A call in the box of its caller.
LEMMA InBox ==
    ASSUME IInv, NEW c \in AllCalls, NEW b \in Boxes, c \in Elements(answers[b])
    PROVE  /\ ~forget[c] /\ \A k \in Tasks : c \notin active_calls[k]
           /\ Cardinality({i \in 1..Len(answers[b]) : answers[b][i] = c}) = 1
<1>1. CallOK(c)
  BY DEF IInv, CallInv
<1>2. PICK H \in OneOrNone : Answered(c, H)
  BY <1>1, AnsweredCall
<1>3. answers[b] \in Seq(AllCalls) /\ IsInjective(answers[b])
  BY DEF IInv, Types, ListInv
<1>4. PICK i \in 1..Len(answers[b]) : answers[b][i] = c
  BY DEF Elements
<1>5. \A j \in 1..Len(answers[b]) : answers[b][j] = c => j = i
  BY <1>3, <1>4 DEF IsInjective
<1>6. {j \in 1..Len(answers[b]) : answers[b][j] = c} = {i}
  BY <1>4, <1>5
<1>7. Cardinality({i}) = 1
  BY FS_Singleton
<1> QED BY <1>2, <1>6, <1>7 DEF Answered, ActiveIn

\* However answering races with forgetting (an interrupted ipc_call_sync(), or
\* ipc_cleanup()), a forgotten call is never answered, an answered call is never
\* forgotten, and no call is answered twice.
THEOREM ForgottenXorAnsweredAlways == Spec => []ForgottenXorAnswered
<1>1. IInv => ForgottenXorAnswered
  <2> SUFFICES ASSUME IInv, NEW c \in AllCalls
               PROVE  /\ forget[c] => active[c] /\ \A k \in Tasks : c \notin active_calls[k]
                      /\ \A b \in Boxes : c \in Elements(answers[b]) =>
                            /\ ~forget[c] /\ \A k \in Tasks : c \notin active_calls[k]
                            /\ Cardinality({i \in 1..Len(answers[b]) : answers[b][i] = c}) = 1
    BY DEF ForgottenXorAnswered
  <2>1. CallOK(c)
    BY DEF IInv, CallInv
  <2>2. forget[c] => active[c] /\ \A k \in Tasks : c \notin active_calls[k]
    <3>1. Fresh(c) \/ (\E t \in Threads : Unsent(c, t)) => ~forget[c]
      BY DEF Fresh, Unsent, NotSent
    <3>2. Pending(c) \/ Decided(c) =>
             (forget[c] => active[c] /\ \A k \in Tasks : c \notin active_calls[k])
      BY DEF Pending, Decided, ActiveIn
    <3>3. \A H \in OneOrNone : Answered(c, H) \/ Done(c, H) =>
             (forget[c] => active[c] /\ \A k \in Tasks : c \notin active_calls[k])
      BY DEF Answered, Done, ActiveIn
    <3>4. \A t \in Threads : Handled(c, t) => Pending(c) \/ Decided(c)
      BY DEF Handled
    <3>5. \A k \in Tasks : Queued(c, k) \/ Open(c, k) => Pending(c)
      BY DEF Queued, Open
    <3> QED BY <2>1, <3>1, <3>2, <3>3, <3>4, <3>5 DEF CallOK
  <2> QED BY <2>2, InBox
<1> QED BY <1>1, Invariance, PTL

\* The assertions of answer_preprocess(), ipc_answerbox_slam_phones(),
\* ipc_phone_hangup() and ipc_call_sync() never fail; in particular the box of a
\* synchronous caller that is woken up has the answer to its own call, alone.
THEOREM AssertionsAlways == Spec => []AssertionsHold
<1>1. IInv => AssertionsHold
  <2> SUFFICES ASSUME IInv PROVE AssertionsHold
    OBVIOUS
  <2>1. ASSUME NEW t \in Threads, thr[t].pc = "preprocess"
        PROVE  forget[thr[t].call] \/ active[thr[t].call]
    <3>1. Handled(thr[t].call, t)
      BY <2>1, HandCall
    <3> QED BY <2>1, <3>1 DEF Handled, Pending
  <2>2. ASSUME NEW t \in Threads, thr[t].pc = "hungup" PROVE hangup_call[thr[t].phone]
    BY <2>2, HandPhone DEF PhonePCs
  <2>3. ASSUME NEW t \in Threads, thr[t].pc = "race" PROVE ~forget[thr[t].call]
    BY <2>3, HandCall DEF SyncPCs
  <2>4. ASSUME NEW t \in Threads, thr[t].pc \in {"sync", "answered"}, wq[t] > 0
        PROVE  answers[t] = <<thr[t].call>>
    <3>c. PICK c \in AllCalls : c = thr[t].call /\ Waits(t, c)
      BY <2>4, HandFacts DEF SyncPCs
    <3>1. /\ answers[t] \in Seq(AllCalls) /\ IsInjective(answers[t]) /\ t \in Boxes
          /\ answers[t] # <<>>
      BY <2>4, Nones DEF IInv, Types, ListInv
    <3>2. ASSUME NEW d \in Elements(answers[t]) PROVE d = c
      <4>1. d \in AllCalls /\ CallOK(d)
        BY <3>1, ElementsFacts DEF IInv, CallInv
      <4>2. callerbox[d] = t /\ \E H \in OneOrNone : Answered(d, H)
        BY <3>1, <4>1, AnsweredCall
      <4>3. d \in SyncCalls
        BY <4>2, Nones DEF Answered, Sent
      <4>4. Waits(t, d)
        BY <3>1, <4>1, <4>2, <4>3, AnsweredWaits
      <4> QED BY <3>c, <4>4 DEF Waits
    <3>3. \A i \in 1..Len(answers[t]) : answers[t][i] = c
      BY <3>2 DEF Elements
    <3>4. Len(answers[t]) = 1
      <4>1. Len(answers[t]) \in Nat /\ Len(answers[t]) # 0
        BY <3>1
      <4>2. PICK n \in Nat : n = Len(answers[t])
        BY <4>1
      <4>3. ~(1 \in 1..n /\ 2 \in 1..n)
        BY <3>1, <3>3, <4>2 DEF IsInjective
      <4>4. 2 <= n => 1 \in 1..n /\ 2 \in 1..n
        OBVIOUS
      <4>5. ~(2 <= n) /\ n # 0
        BY <4>1, <4>2, <4>3, <4>4
      <4>6. \A m \in Nat : ~(2 <= m) /\ m # 0 => m = 1
        OBVIOUS
      <4> QED BY <4>2, <4>5, <4>6
    <3> QED BY <3>1, <3>3, <3>4, <3>c
  <2>5. \A p \in Phones : linked[p] /\ lock[p] = None => state[p] = "CONNECTED"
    BY DEF IInv, PhoneInv, PhoneOK
  <2> QED BY <2>1, <2>2, <2>3, <2>4, <2>5 DEF AssertionsHold
<1> QED BY <1>1, Invariance, PTL

\* A thread that refers to a call holds it or waits for it.
LEMMA HandIsHold ==
    ASSUME IInv, NEW c \in AllCalls
    PROVE  InHand(c) <=> \E t \in Threads : \/ Waits(t, c)
                                            \/ Holds(t, c) /\ (thr[t].pc # "wake" \/ thr[t].ref = 1)
<1>1. ASSUME NEW t \in Threads
      PROVE  thr[t].call = c <=> Holds(t, c) \/ Waits(t, c)
  <2>1. thr[t].call = c => thr[t].pc \in HolderPCs \cup SyncPCs
    BY HandFacts, Nones DEF Shape
  <2> QED BY <2>1 DEF Holds, Waits
<1>2. \A t \in Threads : Waits(t, c) => thr[t].pc # "wake"
  BY DEF Waits, SyncPCs
<1> QED BY <1>1, <1>2 DEF InHand

\* A call_t exists exactly as long as a list, a capability, a phone or a thread
\* refers to it, in whatever order answering, forgetting, forwarding and
\* ipc_cleanup() on both sides drop their references: no use after free, no leak.
THEOREM CallLifetimeAlways == Spec => []CallLifetime
<1>1. IInv => CallLifetime
  <2> SUFFICES ASSUME IInv, NEW c \in AllCalls
               PROVE  call_refs[c] > 0 <=> Listed(c) \/ InHand(c)
    BY DEF CallLifetime
  <2>1. CallOK(c)
    BY DEF IInv, CallInv
  <2>2. InHand(c) <=> \E t \in Threads : \/ Waits(t, c)
                                         \/ Holds(t, c) /\ (thr[t].pc # "wake" \/ thr[t].ref = 1)
    BY HandIsHold
  <2>3. CallerRef(c) \in {0, 1} /\ \A t \in Threads : thr[t].ref \in {0, 1}
    BY HandFacts DEF CallerRef
  <2>4. CASE Fresh(c)
    <3>1. /\ \A k \in Tasks : c \notin Elements(calls[k]) /\ c \notin dispatched[k] /\ call_cap[c] # k
          /\ \A b \in Boxes : c \notin Elements(answers[b])
          /\ \A t \in Threads : ~Holds(t, c) /\ ~Waits(t, c)
          /\ call_refs[c] = IF c \in Phones /\ hangup_call[c] THEN 1 ELSE 0
      BY <2>4, Nones DEF Fresh, NotSent, WaitedBy, Where
    <3> QED BY <2>2, <3>1 DEF Listed
  <2>5. ASSUME NEW t \in Threads, Unsent(c, t) PROVE call_refs[c] > 0 /\ InHand(c)
    BY <2>2, <2>5 DEF Unsent, Where
  <2>6. ASSUME NEW t \in Threads, Handled(c, t) PROVE call_refs[c] > 0 /\ InHand(c)
    <3>1. Holds(t, c) /\ thr[t].pc # "wake"
      BY <2>6 DEF Handled, Where
    <3> QED BY <2>2, <2>3, <2>6, <3>1 DEF Handled
  <2>7. ASSUME NEW k \in Tasks, Queued(c, k) \/ Open(c, k) PROVE call_refs[c] > 0 /\ Listed(c)
    BY <2>3, <2>7 DEF Queued, Open, Where, Listed
  <2>8. ASSUME NEW H \in OneOrNone, Answered(c, H) PROVE call_refs[c] > 0 /\ Listed(c)
    <3>1. callerbox[c] \in Boxes
      BY <2>8 DEF Answered, Sent, Boxes
    <3> QED BY <2>3, <2>8, <3>1 DEF Answered, WakerRef, Where, Listed
  <2>9. ASSUME NEW H \in OneOrNone, Done(c, H) PROVE call_refs[c] > 0 <=> Listed(c) \/ InHand(c)
    <3>1. ~Listed(c)
      <4>1. caller_phone[c] # None
        BY <2>9, Nones DEF Done, Sent
      <4>2. c \in Phones => ~hangup_call[c]
        BY <4>1 DEF IInv, PhoneInv, PhoneOK
      <4> QED BY <2>9, <4>2, Nones DEF Done, Where, Listed
    <3>2. InHand(c) <=> \E t \in H : thr[t].ref = 1
      BY <2>2, <2>9 DEF Done, Where, WaitedBy, OneOrNone
    <3> QED BY <2>9, <3>1, <3>2 DEF Done, WakerRef
  <2> QED BY <2>1, <2>4, <2>5, <2>6, <2>7, <2>8, <2>9 DEF CallOK
<1> QED BY <1>1, Invariance, PTL

-----------------------------------------------------------------------------
(* Messages and wakeups. *)

\* Thread t stands for a wakeup of the box of task k: it is about to look into
\* the box, or to wake up somebody who will.
Token(t, k) ==
    \/ TaskOf[t] = k /\ thr[t].pc \in {"dequeue", "dequeue_all"}
    \/ thr[t].pc = "wake" /\ callerbox[thr[t].call] = k

TokenPCs == {"dequeue", "dequeue_all", "wake"}

\* A message has a wakeup; if X, there is no wakeup without a message either.
Awaited(k, X) ==
    LET messages == Len(calls[k]) + Len(answers[k])
        wakeups  == wq[k] + Cardinality({t \in Threads : Token(t, k)})
    IN  messages <= wakeups /\ (X => wakeups <= messages)

\* Two sets that differ in the element z at most.
LEMMA CardDelta ==
    ASSUME NEW S, NEW T, NEW z, IsFiniteSet(S), T \ {z} = S \ {z}
    PROVE  /\ IsFiniteSet(T) /\ Cardinality(S) \in Nat /\ Cardinality(T) \in Nat
           /\ Cardinality(T) + (IF z \in S THEN 1 ELSE 0)
                = Cardinality(S) + (IF z \in T THEN 1 ELSE 0)
<1>1. Cardinality(S) \in Nat
  BY FS_CardinalityType
<1>2. CASE z \in T <=> z \in S
  <2>1. T = S
    BY <1>2
  <2> QED BY <1>1, <2>1
<1>3. CASE z \in T /\ z \notin S
  <2>1. T = S \cup {z}
    BY <1>3
  <2>2. IsFiniteSet(T) /\ Cardinality(T) = Cardinality(S) + 1
    BY <1>3, <2>1, FS_AddElement
  <2> QED BY <1>1, <1>3, <2>2
<1>4. CASE z \notin T /\ z \in S
  <2>1. T = S \ {z}
    BY <1>4
  <2>2. IsFiniteSet(T) /\ Cardinality(T) = Cardinality(S) - 1
    BY <1>4, <2>1, FS_RemoveElement
  <2>3. Cardinality(T) \in Nat
    BY <2>2, FS_CardinalityType
  <2> QED BY <1>1, <1>4, <2>2, <2>3
<1> QED BY <1>2, <1>3, <1>4

LEMMA TokensFinite ==
    ASSUME NEW k
    PROVE  IsFiniteSet({t \in Threads : Token(t, k)})
<1>1. {t \in Threads : Token(t, k)} \subseteq Threads /\ IsFiniteSet(Threads)
  BY IpcAssumption
<1> QED BY <1>1, FS_Subset

\* Wakeups and tokens make up for the messages a step of t puts in the box.
LEMMA AwaitedFrame ==
    ASSUME Types, NEW t \in Threads, NEW X \in BOOLEAN, NEW k \in Tasks, Awaited(k, X),
           \A u \in Threads : u # t => (Token(u, k)' <=> Token(u, k)),
           NEW m \in Int, NEW n \in Int, NEW w \in Int,
           Len(calls'[k]) = Len(calls[k]) + m, Len(answers'[k]) = Len(answers[k]) + n,
           wq'[k] = wq[k] + w,
           NEW x \in {0, 1}, NEW y \in {0, 1}, Token(t, k) <=> x = 1, Token(t, k)' <=> y = 1,
           m + n + x <= w + y, X => w + y <= m + n + x
    PROVE  Awaited(k, X)'
<1>1. PICK S : S = {u \in Threads : Token(u, k)}
  OBVIOUS
<1>2. PICK T : T = {u \in Threads : Token(u, k)'}
  OBVIOUS
<1>3. IsFiniteSet(S)
  BY <1>1, TokensFinite
<1>4. T \ {t} = S \ {t} /\ (t \in S <=> x = 1) /\ (t \in T <=> y = 1)
  BY <1>1, <1>2
<1>5. /\ Cardinality(S) \in Nat /\ Cardinality(T) \in Nat
      /\ Cardinality(T) + x = Cardinality(S) + y
  <2>1. /\ Cardinality(S) \in Nat /\ Cardinality(T) \in Nat
        /\ Cardinality(T) + (IF t \in S THEN 1 ELSE 0)
                = Cardinality(S) + (IF t \in T THEN 1 ELSE 0)
    BY <1>3, <1>4, CardDelta
  <2> QED BY <1>4, <2>1
<1>6. /\ Len(calls[k]) + Len(answers[k]) <= wq[k] + Cardinality(S)
      /\ X => wq[k] + Cardinality(S) <= Len(calls[k]) + Len(answers[k])
  BY <1>1 DEF Awaited
<1>7. calls[k] \in Seq(AllCalls) /\ answers[k] \in Seq(AllCalls) /\ wq[k] \in Nat
  BY Nones DEF Types
<1>a. PICK a \in Nat : a = Len(calls[k])
  BY <1>7
<1>b. PICK b \in Nat : b = Len(answers[k])
  BY <1>7
<1>c. PICK c \in Nat : c = wq[k]
  BY <1>7
<1>e. PICK e \in Nat : e = Cardinality(S)
  BY <1>5
<1>f. PICK f \in Nat : f = Cardinality(T)
  BY <1>5
<1>8. a + b <= c + e /\ (X => c + e <= a + b)
  BY <1>6, <1>a, <1>b, <1>c, <1>e
<1>9. f + x = e + y
  BY <1>5, <1>e, <1>f
<1>10. (a + m) + (b + n) <= (c + w) + f
  <2>1. x \in Int /\ y \in Int /\ f = e + (y - x)
    BY <1>9
  <2>2. (a + b) + (m + n) <= (c + e) + (w + y - x)
    BY <1>8, <2>1, SMTT(30)
  <2> QED BY <2>1, <2>2, SMTT(30)
<1>13. ASSUME X PROVE (c + w) + f <= (a + m) + (b + n)
  <2>1. x \in Int /\ y \in Int /\ f = e + (y - x)
    BY <1>9
  <2>2. (c + e) + (w + y - x) <= (a + b) + (m + n)
    BY <1>8, <1>13, <2>1, SMTT(30)
  <2> QED BY <2>1, <2>2, SMTT(30)
<1>11. /\ a + m = Len(calls'[k]) /\ b + n = Len(answers'[k]) /\ c + w = wq'[k]
       /\ f = Cardinality(T)
  BY <1>a, <1>b, <1>c, <1>f
<1>12. /\ Len(calls'[k]) + Len(answers'[k]) <= wq'[k] + Cardinality(T)
       /\ X => wq'[k] + Cardinality(T) <= Len(calls'[k]) + Len(answers'[k])
  BY <1>10, <1>11, <1>13
<1> QED BY <1>2, <1>12 DEF Awaited

LEMMA OtherTokens ==
    ASSUME NEW t \in Threads, \A u \in Threads : u # t => thr'[u] = thr[u], callerbox' = callerbox
    PROVE  \A k \in Tasks : \A u \in Threads : u # t => (Token(u, k)' <=> Token(u, k))
BY DEF Token

LEMMA NoToken ==
    ASSUME NEW t \in Threads
    PROVE  /\ thr[t].pc \notin TokenPCs => \A k : ~Token(t, k)
           /\ thr'[t].pc \notin TokenPCs => \A k : ~Token(t, k)'
BY DEF Token, TokenPCs

\* A step that puts nothing in the boxes of tasks and takes no wakeup.
LEMMA SameBoxes ==
    ASSUME Types, NEW t \in Threads,
           \A k \in Tasks : \A u \in Threads : u # t => (Token(u, k)' <=> Token(u, k)),
           NEW X \in BOOLEAN, NEW k \in Tasks, Awaited(k, X), Token(t, k) <=> Token(t, k)',
           calls'[k] = calls[k] /\ answers'[k] = answers[k] /\ wq'[k] = wq[k]
    PROVE  Awaited(k, X)'
<1>1. calls[k] \in Seq(AllCalls) /\ answers[k] \in Seq(AllCalls) /\ wq[k] \in Nat
  BY Nones DEF Types
<1>2. /\ 0 \in Int /\ Len(calls'[k]) = Len(calls[k]) + 0 /\ Len(answers'[k]) = Len(answers[k]) + 0
      /\ wq'[k] = wq[k] + 0
  BY <1>1
<1>3. PICK x \in {0, 1} : Token(t, k) <=> x = 1
  OBVIOUS
<1>4. PICK y \in {0, 1} : Token(t, k)' <=> y = 1
  OBVIOUS
<1>5. 0 + 0 + x <= 0 + y /\ (X => 0 + y <= 0 + 0 + x)
  BY <1>3, <1>4
<1> QED BY <1>2, <1>3, <1>4, <1>5, AwaitedFrame

LEMMA FreshTokens ==
    ASSUME IInv, NEW t \in Threads, \A u \in Threads : u # t => thr'[u] = thr[u],
           NEW c, caller_phone[c] = None, NEW b, callerbox' = [callerbox EXCEPT ![c] = b]
    PROVE  \A k \in Tasks : \A u \in Threads : u # t => (Token(u, k)' <=> Token(u, k))
<1>1. ASSUME NEW u \in Threads, thr[u].pc = "wake" PROVE callerbox'[thr[u].call] = callerbox[thr[u].call]
  <2>1. thr[u].call \in AllCalls /\ caller_phone[thr[u].call] \in Phones
    BY <1>1, HandFacts, HandCall DEF HolderPCs
  <2>2. thr[u].call # c
    BY <2>1, Nones
  <2>3. callerbox \in [AllCalls -> Boxes \cup {None}]
    BY DEF IInv, Types
  <2> QED BY <2>1, <2>2, <2>3
<1> QED BY <1>1 DEF Token

LEMMA ListLengths ==
    ASSUME NEW s \in Seq(AllCalls), NEW c \in AllCalls
    PROVE  /\ Len(s) \in Nat /\ Len(Append(s, c)) = Len(s) + 1
           /\ s # <<>> => Len(Tail(s)) = Len(s) - 1
OBVIOUS

\* A step of t that concerns the box of task j.
LEMMA OneBox ==
    ASSUME Types, NEW X \in BOOLEAN, \A k \in Tasks : Awaited(k, X), NEW t \in Threads,
           \A k \in Tasks : \A u \in Threads : u # t => (Token(u, k)' <=> Token(u, k)),
           NEW j \in Tasks,
           \A k \in Tasks : k # j => /\ calls'[k] = calls[k] /\ answers'[k] = answers[k]
                                     /\ wq'[k] = wq[k] /\ (Token(t, k) <=> Token(t, k)'),
           NEW m \in Int, NEW n \in Int, NEW w \in Int,
           Len(calls'[j]) = Len(calls[j]) + m, Len(answers'[j]) = Len(answers[j]) + n,
           wq'[j] = wq[j] + w,
           NEW x \in {0, 1}, NEW y \in {0, 1}, Token(t, j) <=> x = 1, Token(t, j)' <=> y = 1,
           m + n + x <= w + y, X => w + y <= m + n + x
    PROVE  \A k \in Tasks : Awaited(k, X)'
<1>1. Awaited(j, X)'
  BY AwaitedFrame
<1>2. ASSUME NEW k \in Tasks, k # j PROVE Awaited(k, X)'
  BY <1>2, SameBoxes
<1> QED BY <1>1, <1>2

\* A step of t that concerns no box of a task.
LEMMA NoBox ==
    ASSUME Types, NEW X \in BOOLEAN, \A k \in Tasks : Awaited(k, X), NEW t \in Threads,
           \A k \in Tasks : \A u \in Threads : u # t => (Token(u, k)' <=> Token(u, k)),
           \A k \in Tasks : /\ calls'[k] = calls[k] /\ answers'[k] = answers[k]
                            /\ wq'[k] = wq[k] /\ (Token(t, k) <=> Token(t, k)')
    PROVE  \A k \in Tasks : Awaited(k, X)'
BY SameBoxes

\* A request, an answer or no message is put in the box of j, and a wakeup.
LEMMA PutBox ==
    ASSUME Types, NEW X \in BOOLEAN, \A k \in Tasks : Awaited(k, X), NEW t \in Threads,
           \A k \in Tasks : \A u \in Threads : u # t => (Token(u, k)' <=> Token(u, k)),
           thr[t].pc \notin TokenPCs, thr'[t].pc \notin TokenPCs, NEW j \in Tasks, NEW c,
           \/ c \in AllCalls /\ calls' = [calls EXCEPT ![j] = Append(@, c)] /\ answers' = answers
           \/ c \in AllCalls /\ calls' = calls /\ answers' = [answers EXCEPT ![j] = Append(@, c)]
           \/ ~X /\ calls' = calls /\ answers' = answers,
           wq' = Add(wq, j, 1)
    PROVE  \A k \in Tasks : Awaited(k, X)'
<1>1. /\ calls \in [Tasks -> Seq(AllCalls)] /\ answers \in [Boxes -> Seq(AllCalls)]
      /\ wq \in [Boxes -> Nat] /\ calls[j] \in Seq(AllCalls) /\ answers[j] \in Seq(AllCalls)
      /\ j \in Boxes
  BY Nones DEF Types
<1>2. \A k \in Tasks : k # j => /\ calls'[k] = calls[k] /\ answers'[k] = answers[k]
                                /\ wq'[k] = wq[k] /\ (Token(t, k) <=> Token(t, k)')
  BY <1>1, NoToken, Nones DEF Add
<1>3. wq'[j] = wq[j] + 1 /\ 1 \in Int /\ 0 \in Int /\ 0 \in {0, 1}
  BY <1>1 DEF Add
<1>4. PICK x \in {0, 1} : (Token(t, j) <=> x = 1) /\ x = 0
  BY NoToken
<1>5. PICK y \in {0, 1} : (Token(t, j)' <=> y = 1) /\ y = 0
  BY NoToken
<1>6. PICK m \in {0, 1}, n \in {0, 1} :
         /\ Len(calls'[j]) = Len(calls[j]) + m /\ Len(answers'[j]) = Len(answers[j]) + n
         /\ m + n <= 1 /\ (X => m + n = 1)
  <2>1. CASE c \in AllCalls /\ calls' = [calls EXCEPT ![j] = Append(@, c)] /\ answers' = answers
    BY <1>1, <2>1, ListLengths
  <2>2. CASE c \in AllCalls /\ calls' = calls /\ answers' = [answers EXCEPT ![j] = Append(@, c)]
    BY <1>1, <2>2, ListLengths
  <2>3. CASE ~X /\ calls' = calls /\ answers' = answers
    BY <1>1, <2>3
  <2> QED BY <2>1, <2>2, <2>3
<1>7. m \in Int /\ n \in Int /\ m + n + x <= 1 + y /\ (X => 1 + y <= m + n + x)
  BY <1>4, <1>5, <1>6
<1> QED BY <1>2, <1>3, <1>4, <1>5, <1>6, <1>7, OneBox, ZenonT(60)

\* The thread takes a message and leaves.
LEMMA TakeBox ==
    ASSUME Types, NEW X \in BOOLEAN, \A k \in Tasks : Awaited(k, X), NEW t \in Threads,
           \A k \in Tasks : \A u \in Threads : u # t => (Token(u, k)' <=> Token(u, k)),
           thr[t].pc # "wake", thr'[t].pc \notin TokenPCs,
           X => thr[t].pc \in {"dequeue", "dequeue_all"},
           \/ calls[TaskOf[t]] # <<>> /\ calls' = [calls EXCEPT ![TaskOf[t]] = Tail(@)] /\ answers' = answers
           \/ answers[TaskOf[t]] # <<>> /\ calls' = calls /\ answers' = [answers EXCEPT ![TaskOf[t]] = Tail(@)],
           wq' = wq
    PROVE  \A k \in Tasks : Awaited(k, X)'
<1>0. PICK j \in Tasks : j = TaskOf[t]
  BY Nones
<1>1. /\ calls \in [Tasks -> Seq(AllCalls)] /\ answers \in [Boxes -> Seq(AllCalls)]
      /\ wq \in [Boxes -> Nat] /\ calls[j] \in Seq(AllCalls) /\ answers[j] \in Seq(AllCalls)
      /\ j \in Boxes
  BY Nones DEF Types
<1>2. \A k \in Tasks : k # j => /\ calls'[k] = calls[k] /\ answers'[k] = answers[k]
                                /\ wq'[k] = wq[k] /\ (Token(t, k) <=> Token(t, k)')
  BY <1>0, <1>1, Nones, NoToken DEF Token
<1>3. wq'[j] = wq[j] + 0 /\ 0 \in Int
  BY <1>1
<1>4. PICK x \in {0, 1} : (Token(t, j) <=> x = 1) /\ (X => x = 1)
  BY <1>0 DEF Token
<1>5. PICK y \in {0, 1} : (Token(t, j)' <=> y = 1) /\ y = 0
  BY NoToken
<1>6. PICK o \in Int : o = 0 - 1
  OBVIOUS
<1>7. /\ o + 0 + x <= 0 + y /\ (X => 0 + y <= o + 0 + x)
      /\ 0 + o + x <= 0 + y /\ (X => 0 + y <= 0 + o + x)
  BY <1>4, <1>5, <1>6
<1>8. CASE calls[j] # <<>> /\ calls' = [calls EXCEPT ![j] = Tail(@)] /\ answers' = answers
  <2>1. Len(calls'[j]) = Len(calls[j]) + o /\ Len(answers'[j]) = Len(answers[j]) + 0
    BY <1>1, <1>6, <1>8, ListLengths
  <2> QED BY <1>2, <1>3, <1>4, <1>5, <1>7, <2>1, OneBox, ZenonT(60)
<1>9. CASE answers[j] # <<>> /\ calls' = calls /\ answers' = [answers EXCEPT ![j] = Tail(@)]
  <2>1. Len(answers'[j]) = Len(answers[j]) + o /\ Len(calls'[j]) = Len(calls[j]) + 0
    BY <1>1, <1>6, <1>9, ListLengths
  <2> QED BY <1>2, <1>3, <1>4, <1>5, <1>7, <2>1, OneBox, ZenonT(60)
<1> QED BY <1>0, <1>8, <1>9

\* The thread takes a wakeup and looks into the box.
LEMMA WakeupBox ==
    ASSUME Types, NEW X \in BOOLEAN, \A k \in Tasks : Awaited(k, X), NEW t \in Threads,
           \A k \in Tasks : \A u \in Threads : u # t => (Token(u, k)' <=> Token(u, k)),
           thr[t].pc \notin TokenPCs, thr'[t].pc \in {"dequeue", "dequeue_all"},
           UNCHANGED <<calls, answers>>, wq' = Add(wq, TaskOf[t], -1)
    PROVE  \A k \in Tasks : Awaited(k, X)'
<1>0. PICK j \in Tasks : j = TaskOf[t]
  BY Nones
<1>1. /\ calls \in [Tasks -> Seq(AllCalls)] /\ answers \in [Boxes -> Seq(AllCalls)]
      /\ wq \in [Boxes -> Nat] /\ calls[j] \in Seq(AllCalls) /\ answers[j] \in Seq(AllCalls)
      /\ j \in Boxes
  BY Nones DEF Types
<1>2. \A k \in Tasks : k # j => /\ calls'[k] = calls[k] /\ answers'[k] = answers[k]
                                /\ wq'[k] = wq[k] /\ (Token(t, k) <=> Token(t, k)')
  BY <1>0, <1>1, NoToken, Nones DEF Add, Token
<1>3. /\ wq'[j] = wq[j] + (0 - 1) /\ 0 \in Int /\ 0 - 1 \in Int
      /\ Len(calls'[j]) = Len(calls[j]) + 0 /\ Len(answers'[j]) = Len(answers[j]) + 0
  BY <1>0, <1>1 DEF Add
<1>4. PICK x \in {0, 1} : (Token(t, j) <=> x = 1) /\ x = 0
  BY NoToken
<1>5. PICK y \in {0, 1} : (Token(t, j)' <=> y = 1) /\ y = 1
  BY <1>0 DEF Token
<1>6. PICK w \in Int : w = 0 - 1
  OBVIOUS
<1>7. 0 + 0 + x <= w + y /\ (X => w + y <= 0 + 0 + x) /\ wq'[j] = wq[j] + w
  BY <1>3, <1>4, <1>5, <1>6
<1> QED BY <1>2, <1>3, <1>4, <1>5, <1>6, <1>7, OneBox, ZenonT(60)

\* There is no message in the box.
LEMMA EmptyBox ==
    ASSUME Types, NEW X \in BOOLEAN, \A k \in Tasks : Awaited(k, X), NEW t \in Threads,
           \A k \in Tasks : \A u \in Threads : u # t => (Token(u, k)' <=> Token(u, k)),
           thr[t].pc # "wake", thr'[t].pc \notin TokenPCs, UNCHANGED <<calls, answers, wq>>,
           calls[TaskOf[t]] = <<>>, answers[TaskOf[t]] = <<>>
    PROVE  \A k \in Tasks : Awaited(k, X)'
<1>1. ASSUME NEW k \in Tasks, k # TaskOf[t] PROVE Awaited(k, X)'
  <2>1. ~Token(t, k) /\ ~Token(t, k)'
    BY <1>1, NoToken DEF Token
  <2> QED BY <2>1, SameBoxes
<1>2. ASSUME NEW k \in Tasks, k = TaskOf[t] PROVE Awaited(k, X)'
  <2>1. PICK T : T = {u \in Threads : Token(u, k)'}
    OBVIOUS
  <2>2. PICK S : S = {u \in Threads : Token(u, k)}
    OBVIOUS
  <2>3. IsFiniteSet(S) /\ T \subseteq S
    BY <2>1, <2>2, TokensFinite, NoToken
  <2>4. Cardinality(T) \in Nat /\ Cardinality(S) \in Nat /\ Cardinality(T) <= Cardinality(S)
    BY <2>3, FS_Subset, FS_CardinalityType
  <2>5. wq[k] \in Nat /\ Len(calls[k]) = 0 /\ Len(answers[k]) = 0
    BY <1>2, Nones DEF Types
  <2>6. X => wq[k] + Cardinality(S) <= Len(calls[k]) + Len(answers[k])
    BY <2>2 DEF Awaited
  <2>7. /\ Len(calls'[k]) + Len(answers'[k]) <= wq'[k] + Cardinality(T)
        /\ X => wq'[k] + Cardinality(T) <= Len(calls'[k]) + Len(answers'[k])
    BY <2>4, <2>5, <2>6
  <2> QED BY <2>1, <2>7 DEF Awaited
<1> QED BY <1>1, <1>2

\* The answer is put in the box b of the caller, which is to be woken up.
LEMMA DeliverBox ==
    ASSUME IInv, NEW X \in BOOLEAN, \A k \in Tasks : Awaited(k, X), NEW t \in Threads, Deliver(t)
    PROVE  \A k \in Tasks : Awaited(k, X)'
<1>1. /\ thr[t].pc = "deliver" /\ UNCHANGED <<calls, wq, callerbox>>
      /\ answers' = [answers EXCEPT ![callerbox[thr[t].call]] = Append(@, thr[t].call)]
      /\ Goto(t, "wake")
  BY DEF Deliver, call
<1>2. PICK b \in Boxes, c \in AllCalls : b = callerbox[c] /\ c = thr[t].call
  BY <1>1, HandFacts, HandCall DEF HolderPCs
<1>3. (\A u \in Threads : u # t => thr'[u] = thr[u]) /\ thr'[t].pc = "wake" /\ thr'[t].call = c
  <2>1. thr \in [Threads -> ThreadType] /\ "wake" \in PCs
    BY DEF IInv, Types, PCs, SyscallPCs
  <2> QED BY <1>1, <1>2, <2>1, GotoFacts
<1>4. \A k \in Tasks : \A u \in Threads : u # t => (Token(u, k)' <=> Token(u, k))
  BY <1>1, <1>3, OtherTokens
<1>5. Types /\ \A k : ~Token(t, k)
  BY <1>1, NoToken DEF IInv, TokenPCs
<1>9. \A k : k # b => ~Token(t, k)'
  BY <1>1, <1>2, <1>3 DEF Token
<1>6. /\ answers \in [Boxes -> Seq(AllCalls)] /\ answers[b] \in Seq(AllCalls)
      /\ answers' = [answers EXCEPT ![b] = Append(@, c)]
  BY <1>1, <1>2 DEF IInv, Types
<1>7. CASE b \notin Tasks
  <2>1. \A k \in Tasks : answers'[k] = answers[k]
    BY <1>6, <1>7, Nones
  <2> QED BY <1>1, <1>4, <1>5, <1>7, <1>9, <2>1, NoBox
<1>8. CASE b \in Tasks
  <2>1. \A k \in Tasks : k # b => /\ calls'[k] = calls[k] /\ answers'[k] = answers[k]
                                  /\ wq'[k] = wq[k] /\ (Token(t, k) <=> Token(t, k)')
    BY <1>1, <1>5, <1>6, <1>9, Nones
  <2>2. calls[b] \in Seq(AllCalls) /\ wq[b] \in Nat
    BY <1>5, <1>8 DEF Types
  <2>3. /\ 0 \in Int /\ 1 \in Int /\ Len(calls'[b]) = Len(calls[b]) + 0
        /\ Len(answers'[b]) = Len(answers[b]) + 1 /\ wq'[b] = wq[b] + 0
    BY <1>1, <1>6, <2>2, ListLengths
  <2>4. PICK x \in {0, 1} : (Token(t, b) <=> x = 1) /\ x = 0
    BY <1>5
  <2>5. PICK y \in {0, 1} : (Token(t, b)' <=> y = 1) /\ y = 1
    BY <1>1, <1>2, <1>3 DEF Token
  <2>6. 0 + 1 + x <= 0 + y /\ (X => 0 + y <= 0 + 1 + x)
    BY <2>4, <2>5
  <2> QED BY <1>4, <1>5, <1>8, <2>1, <2>3, <2>4, <2>5, <2>6, OneBox
<1> QED BY <1>7, <1>8

\* The box of the caller gets the wakeup.
LEMMA WakeBox ==
    ASSUME IInv, NEW X \in BOOLEAN, \A k \in Tasks : Awaited(k, X), NEW t \in Threads, Wake(t)
    PROVE  \A k \in Tasks : Awaited(k, X)'
<1>1. /\ thr[t].pc = "wake" /\ UNCHANGED <<calls, answers, callerbox>>
      /\ wq' = Add(wq, callerbox[thr[t].call], 1) /\ Return(t)
  BY DEF Wake
<1>2. PICK b \in Boxes, c \in AllCalls : b = callerbox[c] /\ c = thr[t].call
  BY <1>1, HandFacts, HandCall DEF HolderPCs
<1>3. (\A u \in Threads : u # t => thr'[u] = thr[u]) /\ thr'[t].pc \notin TokenPCs
  BY <1>1, HandFacts, ReturnFacts DEF TokenPCs
<1>4. \A k \in Tasks : \A u \in Threads : u # t => (Token(u, k)' <=> Token(u, k))
  BY <1>1, <1>3, OtherTokens
<1>5. Types /\ (\A k : k # b => ~Token(t, k)) /\ \A k : ~Token(t, k)'
  BY <1>1, <1>2, <1>3, NoToken DEF IInv, Token
<1>6. wq \in [Boxes -> Nat] /\ wq' = Add(wq, b, 1)
  BY <1>1, <1>2 DEF IInv, Types
<1>7. CASE b \notin Tasks
  <2>1. \A k \in Tasks : wq'[k] = wq[k] /\ ~Token(t, k)
    BY <1>5, <1>6, <1>7, Nones DEF Add
  <2> QED BY <1>1, <1>4, <1>5, <2>1, NoBox
<1>8. CASE b \in Tasks
  <2>1. \A k \in Tasks : k # b => /\ calls'[k] = calls[k] /\ answers'[k] = answers[k]
                                  /\ wq'[k] = wq[k] /\ (Token(t, k) <=> Token(t, k)')
    BY <1>1, <1>5, <1>6, Nones DEF Add
  <2>2. calls[b] \in Seq(AllCalls) /\ answers[b] \in Seq(AllCalls) /\ wq[b] \in Nat
    BY <1>5, <1>8, Nones DEF Types
  <2>3. /\ 0 \in Int /\ 1 \in Int /\ Len(calls'[b]) = Len(calls[b]) + 0
        /\ Len(answers'[b]) = Len(answers[b]) + 0 /\ wq'[b] = wq[b] + 1
    BY <1>1, <1>6, <2>2, ListLengths DEF Add
  <2>4. PICK x \in {0, 1} : (Token(t, b) <=> x = 1) /\ x = 1
    BY <1>1, <1>2 DEF Token
  <2>5. PICK y \in {0, 1} : (Token(t, b)' <=> y = 1) /\ y = 0
    BY <1>5
  <2>6. 0 + 0 + x <= 1 + y /\ (X => 1 + y <= 0 + 0 + x)
    BY <2>4, <2>5
  <2> QED BY <1>4, <1>5, <1>8, <2>1, <2>3, <2>4, <2>5, <2>6, OneBox
<1> QED BY <1>7, <1>8

LEMMA RequestBox ==
    ASSUME IInv, NEW X \in BOOLEAN, \A k \in Tasks : Awaited(k, X), NEW t \in Threads, Request(t),
           X => ~Poke(t)
    PROVE  \A k \in Tasks : Awaited(k, X)'
<1>0. Types /\ thr \in [Threads -> ThreadType] /\ TaskOf[t] \in Tasks
  BY Nones DEF IInv, Types
<1>1. ASSUME thr[t].pc = "user", UNCHANGED <<calls, answers, callerbox>>,
             thr'[t].pc \notin TokenPCs, wq' = wq \/ (~X /\ wq' = Add(wq, TaskOf[t], 1)),
             \A u \in Threads : u # t => thr'[u] = thr[u]
      PROVE  \A k \in Tasks : Awaited(k, X)'
  <2>1. \A k \in Tasks : \A u \in Threads : u # t => (Token(u, k)' <=> Token(u, k))
    BY <1>1, OtherTokens
  <2>2. thr[t].pc \notin TokenPCs
    BY <1>1 DEF TokenPCs
  <2>3. CASE wq' = wq
    BY <1>0, <1>1, <2>1, <2>2, <2>3, NoToken, NoBox
  <2>4. CASE ~X /\ wq' = Add(wq, TaskOf[t], 1)
    BY <1>0, <1>1, <2>1, <2>2, <2>4, PutBox
  <2> QED BY <1>1, <2>3, <2>4
<1>2. ASSUME NEW p \in Phones, NEW c \in Calls,
             CallAsync(t, p, c) \/ CallSync(t, p, c) \/ \E q \in Phones : ConnectMeTo(t, p, c, q)
      PROVE  \A k \in Tasks : Awaited(k, X)'
  <2>1. (\A u \in Threads : u # t => thr'[u] = thr[u]) /\ thr'[t].pc \notin TokenPCs
    BY <1>0, <1>2, CallAsyncMove DEF TokenPCs
  <2>2. thr[t].pc = "user" /\ UNCHANGED <<calls, answers, callerbox, wq>>
    BY <1>2 DEF CallAsync, CallSync, ConnectMeTo, box
  <2> QED BY <1>1, <2>1, <2>2
<1>3. ASSUME NEW p \in Phones, NEW c \in AllCalls, Forward(t, c, p) PROVE \A k \in Tasks : Awaited(k, X)'
  <2>1. (\A u \in Threads : u # t => thr'[u] = thr[u]) /\ thr'[t].pc \notin TokenPCs
    BY <1>0, <1>3, ForwardMove DEF TokenPCs
  <2> QED BY <1>1, <1>3, <2>1 DEF Forward
<1>4. ASSUME NEW p \in Phones, SysHangup(t, p) PROVE \A k \in Tasks : Awaited(k, X)'
  <2>1. (\A u \in Threads : u # t => thr'[u] = thr[u]) /\ thr'[t].pc \notin TokenPCs
    BY <1>0, <1>4, SysHangupMove DEF TokenPCs
  <2> QED BY <1>1, <1>4, <2>1 DEF SysHangup, box, call
<1>5. ASSUME NEW c \in AllCalls, (\E rv \in UserRetvals : Answer(t, c, rv)) \/ ForwardRefused(t, c)
      PROVE  \A k \in Tasks : Awaited(k, X)'
  <2>1. (\A u \in Threads : u # t => thr'[u] = thr[u]) /\ thr'[t].pc \notin TokenPCs
    BY <1>0, <1>5, AnswerMove DEF TokenPCs
  <2> QED BY <1>1, <1>5, <2>1 DEF Answer, ForwardRefused, box
<1>6. CASE WaitForCall(t)
  <2>1. thr[t].pc = "user" /\ Goto(t, "wait") /\ "wait" \in PCs \ TokenPCs
        /\ UNCHANGED <<calls, answers, callerbox, wq>>
    BY <1>6 DEF WaitForCall, PCs, SyscallPCs, TokenPCs, box, call
  <2>2. (\A u \in Threads : u # t => thr'[u] = thr[u]) /\ thr'[t].pc \notin TokenPCs
    BY <1>0, <2>1, GotoFacts
  <2> QED BY <1>1, <2>1, <2>2
<1>7. CASE Poke(t)
  <2>1. thr[t].pc = "user" /\ thr' = thr /\ ~X /\ wq' = Add(wq, TaskOf[t], 1)
        /\ UNCHANGED <<calls, answers, callerbox>>
    BY <1>7 DEF Poke, call
  <2>2. thr'[t].pc \notin TokenPCs
    BY <2>1 DEF TokenPCs
  <2> QED BY <1>1, <2>1, <2>2
<1> QED BY <1>2, <1>3, <1>4, <1>5, <1>6, <1>7 DEF Request

LEMMA KernelBox ==
    ASSUME IInv, NEW X \in BOOLEAN, \A k \in Tasks : Awaited(k, X), NEW t \in Threads, KernelStep(t)
    PROVE  \A k \in Tasks : Awaited(k, X)'
<1> DEFINE c == thr[t].call
           p == thr[t].phone
           k == TaskOf[t]
<1>0. Types /\ thr \in [Threads -> ThreadType] /\ k \in Tasks
  BY Nones DEF IInv, Types
<1>1. \A u \in Threads : u # t => thr'[u] = thr[u]
  BY OthersStay
<1>2. ASSUME callerbox' = callerbox
      PROVE  \A j \in Tasks : \A u \in Threads : u # t => (Token(u, j)' <=> Token(u, j))
  BY <1>1, <1>2, OtherTokens
<1>3. ASSUME NEW d, caller_phone[d] = None, NEW b, callerbox' = [callerbox EXCEPT ![d] = b]
      PROVE  \A j \in Tasks : \A u \in Threads : u # t => (Token(u, j)' <=> Token(u, j))
  BY <1>1, <1>3, FreshTokens
<1>4. ASSUME thr[t].pc \in {"call", "backsend"} PROVE c \in AllCalls /\ caller_phone[c] = None
  BY <1>4, HandFacts, HandCall DEF HolderPCs, Unsent, NotSent
<1>15. ASSUME Return(t) PROVE thr'[t].pc \notin TokenPCs
  BY <1>15, HandFacts, ReturnFacts DEF TokenPCs
<1>16. ASSUME NEW pc \in PCs \ TokenPCs, Goto(t, pc) PROVE thr'[t].pc \notin TokenPCs
  BY <1>0, <1>16, GotoFacts
<1>17. {"wait", "sync", "race", "answered", "preprocess", "slam", "deliver", "backsend", "hungup"}
          \subseteq PCs \ TokenPCs
  BY DEF PCs, SyscallPCs, CleanupPCs, TokenPCs
<1>5. CASE Send(t)
  <2>1. /\ thr[t].pc = "call" /\ state[p] = "CONNECTED"
        /\ callerbox' = [callerbox EXCEPT ![c] = ReplyBox(t, c)]
        /\ calls' = [calls EXCEPT ![callee[p]] = Append(@, c)] /\ answers' = answers
        /\ wq' = Add(wq, callee[p], 1) /\ (Goto(t, "sync") \/ Return(t))
    BY <1>5 DEF Send, CallActions
  <2>2. callee[p] \in Tasks /\ thr[t].pc \notin TokenPCs /\ thr'[t].pc \notin TokenPCs
    BY <1>15, <1>16, <1>17, <2>1, HandPhone DEF PhonePCs, TokenPCs
  <2> HIDE DEF c, p
  <2> QED BY <1>0, <1>3, <1>4, <2>1, <2>2, PutBox
<1>6. CASE Backsend(t)
  <2>1. /\ thr[t].pc = "backsend" /\ callerbox' = [callerbox EXCEPT ![c] = k]
        /\ calls' = calls /\ answers' = [answers EXCEPT ![k] = Append(@, c)]
        /\ wq' = Add(wq, k, 1) /\ Return(t)
    BY <1>6 DEF Backsend, CallActions
  <2>2. thr[t].pc \notin TokenPCs /\ thr'[t].pc \notin TokenPCs
    BY <1>15, <2>1 DEF TokenPCs
  <2> HIDE DEF c, k
  <2> QED BY <1>0, <1>3, <1>4, <2>1, <2>2, PutBox
<1>7. CASE BacksendSync(t)
  <2>1. /\ thr[t].pc = "backsend" /\ callerbox' = [callerbox EXCEPT ![c] = t]
        /\ UNCHANGED <<calls, answers, wq>> /\ Return(t)
    BY <1>7 DEF BacksendSync, CallActions, box
  <2>2. thr[t].pc \notin TokenPCs /\ thr'[t].pc \notin TokenPCs
    BY <1>15, <2>1 DEF TokenPCs
  <2> HIDE DEF c
  <2> QED BY <1>0, <1>3, <1>4, <2>1, <2>2, NoToken, NoBox
<1>8. CASE SendHungup(t)
  <2>1. /\ thr[t].pc = "hungup" /\ callerbox' = [callerbox EXCEPT ![p] = k]
        /\ calls' = [calls EXCEPT ![callee[p]] = Append(@, p)] /\ answers' = answers
        /\ wq' = Add(wq, callee[p], 1) /\ Return(t)
    BY <1>8 DEF SendHungup, CallActions
  <2>2. callee[p] \in Tasks /\ p \in AllCalls /\ caller_phone[p] = None /\ thr[t].pc \notin TokenPCs
    BY <2>1, HandPhone, Nones DEF PhonePCs, TokenPCs, PhoneOK
  <2>3. thr'[t].pc \notin TokenPCs
    BY <1>15, <2>1
  <2> HIDE DEF p, k
  <2> QED BY <1>0, <1>3, <2>1, <2>2, <2>3, PutBox
<1>9. CASE ForwardSend(t)
  <2>1. /\ thr[t].pc = "forward" /\ state[p] = "CONNECTED" /\ callerbox' = callerbox
        /\ calls' = [calls EXCEPT ![callee[p]] = Append(@, c)] /\ answers' = answers
        /\ wq' = Add(wq, callee[p], 1) /\ Return(t)
    BY <1>9 DEF ForwardSend
  <2>2. callee[p] \in Tasks /\ c \in AllCalls /\ thr[t].pc \notin TokenPCs
    BY <2>1, HandPhone, HandFacts DEF PhonePCs, TokenPCs, HolderPCs
  <2>3. thr'[t].pc \notin TokenPCs
    BY <1>15, <2>1
  <2> HIDE DEF c, p
  <2> QED BY <1>0, <1>2, <2>1, <2>2, <2>3, PutBox
<1>10. CASE Wakeup(t)
  <2>1. /\ thr[t].pc = "wait" /\ callerbox' = callerbox /\ UNCHANGED <<calls, answers>>
        /\ wq' = Add(wq, TaskOf[t], -1) /\ Goto(t, "dequeue")
    BY <1>10 DEF Wakeup, call
  <2>2. thr[t].pc \notin TokenPCs /\ thr'[t].pc \in {"dequeue", "dequeue_all"}
    BY <1>0, <2>1 DEF TokenPCs, Goto
  <2> QED BY <1>0, <1>2, <2>1, <2>2, WakeupBox
<1>11. CASE DequeueAnswer(t) \/ DequeueRequest(t)
  <2>1. /\ thr[t].pc = "dequeue" /\ callerbox' = callerbox /\ wq' = wq
        /\ \/ calls[TaskOf[t]] # <<>> /\ calls' = [calls EXCEPT ![TaskOf[t]] = Tail(@)] /\ answers' = answers
           \/ answers[TaskOf[t]] # <<>> /\ calls' = calls /\ answers' = [answers EXCEPT ![TaskOf[t]] = Tail(@)]
    BY <1>11 DEF DequeueAnswer, DequeueRequest, ReceiveAnswer, call
  <2>2. thr'[t].pc \notin TokenPCs
    <3>1. CASE DequeueAnswer(t)
      <4>1. Goto(t, "wait") \/ Return(t)
        BY <3>1 DEF DequeueAnswer
      <4> QED BY <1>15, <1>16, <1>17, <4>1
    <3>2. CASE DequeueRequest(t)
      BY <3>2, DequeueMove DEF IInv, TokenPCs
    <3> QED BY <1>11, <3>1, <3>2
  <2> QED BY <1>0, <1>2, <2>1, <2>2, TakeBox
<1>12. CASE DequeueNothing(t)
  <2>1. /\ thr[t].pc # "wake" /\ callerbox' = callerbox /\ UNCHANGED <<calls, answers, wq>>
        /\ calls[TaskOf[t]] = <<>> /\ answers[TaskOf[t]] = <<>> /\ Return(t)
    BY <1>12 DEF DequeueNothing, call, box
  <2> QED BY <1>0, <1>2, <1>15, <2>1, EmptyBox
<1>13. CASE SyncReceive(t)
  <2>1. /\ thr[t].pc \notin TokenPCs /\ callerbox' = callerbox /\ calls' = calls
        /\ answers' = [answers EXCEPT ![t] = Tail(@)] /\ wq' = [wq EXCEPT ![t] = 0]
        /\ Return(t)
    BY <1>13 DEF SyncReceive, ReceiveAnswer, FreeMybox, TokenPCs
  <2>2. \A j \in Tasks : answers'[j] = answers[j] /\ wq'[j] = wq[j]
    BY <1>0, <2>1, Nones DEF Types
  <2> QED BY <1>0, <1>2, <1>15, <2>1, <2>2, NoToken, NoBox
<1>14. CASE \/ SendRefused(t) \/ WaitFails(t) \/ Publish(t)
            \/ PublishFails(t) \/ Preprocess(t) \/ PreprocessForgotten(t) \/ SlamCaller(t)
            \/ Discard(t) \/ ForwardFails(t) \/ SyncInterrupted(t) \/ SyncForget(t)
            \/ SyncAnswered(t) \/ Unlist(t) \/ HangupSlammed(t)
  <2>1. UNCHANGED <<calls, answers, wq, callerbox>>
    BY <1>14 DEF SendRefused, WaitFails, Publish, PublishFails, Preprocess, PreprocessForgotten,
                 SlamCaller, Discard, ForwardFails, SyncInterrupted, SyncForget, SyncAnswered,
                 Unlist, HangupSlammed, box, call
  <2>2. thr[t].pc \notin TokenPCs
    BY <1>14 DEF SendRefused, WaitFails, Publish, PublishFails, Preprocess, PreprocessForgotten,
                 SlamCaller, Discard, ForwardFails, SyncInterrupted, SyncForget, SyncAnswered,
                 Unlist, HangupSlammed, TokenPCs
  <2>3. Return(t) \/ \E pc \in PCs \ TokenPCs : Goto(t, pc)
    BY <1>14, <1>17
    DEF SendRefused, WaitFails, Publish, PublishFails, Preprocess, PreprocessForgotten,
        SlamCaller, Discard, ForwardFails, SyncInterrupted, SyncForget, SyncAnswered,
        Unlist, HangupSlammed
  <2>4. thr'[t].pc \notin TokenPCs
    BY <1>15, <1>16, <2>3
  <2> QED BY <1>0, <1>2, <2>1, <2>2, <2>4, NoToken, NoBox
<1> QED BY <1>5, <1>6, <1>7, <1>8, <1>9, <1>10, <1>11, <1>12, <1>13, <1>14, DeliverBox, WakeBox
    DEF KernelStep

LEMMA CleanupBox ==
    ASSUME IInv, NEW X \in BOOLEAN, \A k \in Tasks : Awaited(k, X), NEW t \in Threads, CleanupStep(t),
           X => ~CleanupCalls(t)
    PROVE  \A k \in Tasks : Awaited(k, X)'
<1>0. Types /\ thr \in [Threads -> ThreadType] /\ TaskOf[t] \in Tasks
  BY Nones DEF IInv, Types
<1>1. callerbox' = callerbox
  BY DEF CleanupStep, Leave, Exit, HangAllDone, SlamDone, CleanupDone, ForgetAllDone, WaitAllDone,
         WaitAll, WaitAllAnswer, WaitAllNothing, WaitAllRequest, HangAll, SlamPhone, CleanupCalls,
         CleanupDispatched, ForgetAll, AnswerCall, call
<1>2. \A j \in Tasks : \A u \in Threads : u # t => (Token(u, j)' <=> Token(u, j))
  BY <1>1, OthersStay, OtherTokens
<1>3. ASSUME UNCHANGED <<calls, answers, wq>>, thr[t].pc \notin TokenPCs, thr'[t].pc \notin TokenPCs
      PROVE  \A k \in Tasks : Awaited(k, X)'
  BY <1>0, <1>2, <1>3, NoToken, NoBox
<1>4. CASE \/ Leave(t) \/ Exit(t) \/ HangAllDone(t) \/ SlamDone(t) \/ CleanupDone(t)
           \/ ForgetAllDone(t) \/ WaitAllDone(t)
  <2>1. UNCHANGED <<calls, answers, wq>> /\ thr[t].pc \notin TokenPCs
    BY <1>4 DEF Leave, Exit, HangAllDone, SlamDone, CleanupDone, ForgetAllDone, WaitAllDone,
                box, TokenPCs
  <2>2. {"exit", "hang_all", "slam_all", "calls", "dispatched", "forget_all", "wait_all", "dead"}
          \subseteq PCs \ TokenPCs
    BY DEF PCs, CleanupPCs, TokenPCs
  <2>3. PICK pc \in PCs \ TokenPCs : Goto(t, pc)
    BY <1>4, <2>2 DEF Leave, Exit, HangAllDone, SlamDone, CleanupDone, ForgetAllDone, WaitAllDone
  <2> QED BY <1>0, <1>3, <2>1, <2>3, GotoFacts
<1>5. ASSUME NEW c \in AllCalls, CleanupDispatched(t, c) \/ ForgetAll(t, c)
      PROVE  \A k \in Tasks : Awaited(k, X)'
  <2>1. UNCHANGED <<calls, answers, wq>> /\ thr[t].pc \notin TokenPCs
    BY <1>5 DEF CleanupDispatched, ForgetAll, AnswerCall, TokenPCs
  <2>2. thr'[t].pc \notin TokenPCs
    BY <1>0, <1>5, <2>1, AnswerCallMove DEF CleanupDispatched, ForgetAll, TokenPCs
  <2> QED BY <1>3, <2>1, <2>2
<1>6. ASSUME NEW p \in Phones, HangAll(t, p) \/ SlamPhone(t, p) PROVE \A k \in Tasks : Awaited(k, X)'
  <2>1. UNCHANGED <<calls, answers, wq>> /\ thr[t].pc \notin TokenPCs
    BY <1>6 DEF HangAll, SlamPhone, box, TokenPCs
  <2>2. thr'[t].pc \notin TokenPCs
    BY <1>0, <1>6, <2>1, HangAllMove DEF SlamPhone, TokenPCs
  <2> QED BY <1>3, <2>1, <2>2
<1>7. CASE WaitAll(t)
  <2>1. /\ thr[t].pc = "wait_all" /\ UNCHANGED <<calls, answers>>
        /\ wq' = Add(wq, TaskOf[t], -1) /\ Goto(t, "dequeue_all")
    BY <1>7 DEF WaitAll
  <2>2. thr[t].pc \notin TokenPCs /\ thr'[t].pc \in {"dequeue", "dequeue_all"}
    BY <1>0, <2>1 DEF TokenPCs, Goto
  <2> QED BY <1>0, <1>2, <2>1, <2>2, WakeupBox
<1>8. CASE WaitAllAnswer(t) \/ WaitAllRequest(t) \/ CleanupCalls(t)
  <2>1. /\ thr[t].pc # "wake" /\ wq' = wq /\ (X => thr[t].pc \in {"dequeue", "dequeue_all"})
        /\ \/ calls[TaskOf[t]] # <<>> /\ calls' = [calls EXCEPT ![TaskOf[t]] = Tail(@)] /\ answers' = answers
           \/ answers[TaskOf[t]] # <<>> /\ calls' = calls /\ answers' = [answers EXCEPT ![TaskOf[t]] = Tail(@)]
    BY <1>8 DEF WaitAllAnswer, WaitAllRequest, CleanupCalls, AnswerCall, ReceiveAnswer
  <2>2. thr'[t].pc \notin TokenPCs
    <3>1. CASE WaitAllAnswer(t) \/ WaitAllRequest(t)
      <4>1. /\ {"rehang", "panic"} \subseteq PCs \ TokenPCs
            /\ Goto(t, "rehang") \/ Goto(t, "panic")
        BY <3>1 DEF WaitAllAnswer, WaitAllRequest, PCs, CleanupPCs, TokenPCs
      <4> QED BY <1>0, <4>1, GotoFacts
    <3>2. CASE CleanupCalls(t)
      <4>1. Head(calls[TaskOf[t]]) \in AllCalls /\ AnswerCall(t, Head(calls[TaskOf[t]]))
        BY <1>0, <3>2, TakeFrom DEF CleanupCalls, IInv, Types, ListInv
      <4> QED BY <1>0, <4>1, AnswerCallMove DEF TokenPCs
    <3> QED BY <1>8, <3>1, <3>2
  <2> QED BY <1>0, <1>2, <2>1, <2>2, TakeBox
<1>9. CASE WaitAllNothing(t)
  <2>1. /\ thr[t].pc # "wake" /\ UNCHANGED <<calls, answers, wq>>
        /\ calls[TaskOf[t]] = <<>> /\ answers[TaskOf[t]] = <<>> /\ Goto(t, "wait_all")
        /\ "wait_all" \in PCs \ TokenPCs
    BY <1>9 DEF WaitAllNothing, box, PCs, CleanupPCs, TokenPCs
  <2>2. thr'[t].pc \notin TokenPCs
    BY <1>0, <2>1, GotoFacts
  <2> QED BY <1>0, <1>2, <2>1, <2>2, EmptyBox
<1> QED BY <1>4, <1>5, <1>6, <1>7, <1>8, <1>9 DEF CleanupStep

\* Only sys_ipc_poke(), and ipc_cleanup_call_list() taking a call off the
\* answerbox, leave a wakeup behind that no message belongs to.
NoSpareWakeup == \A t \in Threads : ~Poke(t) /\ ~CleanupCalls(t)

LEMMA BoxStep ==
    ASSUME NEW X \in BOOLEAN, IInv, \A k \in Tasks : Awaited(k, X), [Next]_vars,
           X => [NoSpareWakeup]_vars
    PROVE  (\A k \in Tasks : Awaited(k, X))'
<1>1. ASSUME UNCHANGED <<calls, answers, wq, callerbox, thr>> PROVE \A k \in Tasks : Awaited(k, X)'
  BY <1>1 DEF Awaited, Token
<1>2. ASSUME NEW k \in Tasks, Kill(k) PROVE \A j \in Tasks : Awaited(j, X)'
  BY <1>1, <1>2 DEF Kill, box, call
<1>3. CASE UNCHANGED vars
  BY <1>1, <1>3 DEF vars
<1>4. CASE Next /\ ~UNCHANGED vars
  <2>1. \A t \in Threads : X => ~Poke(t) /\ ~CleanupCalls(t)
    BY <1>4 DEF NoSpareWakeup
  <2> QED BY <1>2, <1>4, <2>1, RequestBox, KernelBox, CleanupBox DEF Next
<1> QED BY <1>3, <1>4

LEMMA BoxStart ==
    ASSUME NEW X \in BOOLEAN, Init
    PROVE  \A k \in Tasks : Awaited(k, X)
<1> SUFFICES ASSUME NEW k \in Tasks PROVE Awaited(k, X)
  OBVIOUS
<1>1. PICK S : S = {t \in Threads : Token(t, k)}
  OBVIOUS
<1>2. S = {}
  BY <1>1, UserFacts DEF Init, Token
<1>3. Cardinality(S) = 0
  BY <1>2, FS_EmptySet
<1>4. Len(calls[k]) = 0 /\ Len(answers[k]) = 0 /\ wq[k] = 0
  BY Nones DEF Init
<1> QED BY <1>1, <1>3, <1>4 DEF Awaited

\* However senders, receivers, pokes, forgetting and cleanup interleave, each
\* message in an answerbox has a wakeup that is stored, a thread that is about
\* to look into the box, or an answerer that is about to wake one up: nobody
\* sleeps in ipc_wait_for_call() with a message for it in the box for ever.
THEOREM NoStrandedMessageAlways == Spec => []NoStrandedMessage
<1> DEFINE Inv == \A k \in Tasks : Awaited(k, FALSE)
<1>1. Init => Inv
  BY BoxStart
<1>2. IInv /\ Inv /\ [Next]_vars => Inv'
  BY BoxStep
<1>3. Inv => NoStrandedMessage
  BY DEF Awaited, Token, NoStrandedMessage
<1> HIDE DEF Inv
<1> QED BY <1>1, <1>2, <1>3, Invariance, PTL DEF Spec
=============================================================================
