---------------------------- MODULE FibrilProofs ----------------------------
(***************************************************************************)
(* Proofs about the fibril scheduler, for any number of runners, fibrils,  *)
(* buffers and calls.                                                      *)
(*                                                                         *)
(* A switch has two halves: the fibril that runs leaves its runner, and    *)
(* the runner goes on with another one. Between them the state is that of  *)
(* a helper with a fibril in its hand. The part of the invariant that a    *)
(* switch changes is therefore an operator of the state: rn stands for     *)
(* run, rl for ready_list, ev for event, nt for note, tm for timeout_list, *)
(* fs for fst, cl for clean, wl for ipc_waiter_list and gt for got.        *)
(***************************************************************************)
EXTENDS Fibril, ListTheorems

-----------------------------------------------------------------------------
(* The inductive invariant.                                                *)

\* What runner r has in its hands while it executes a fibril or its helper.
RunnerInv(r, x) ==
    /\ x.cur \in Fibrils \cup {r} /\ x.hand \in Fibrils \cup {r, NoFibril}
    /\ x.pc \in {"off", "timeouts"} => x.cur = r
    /\ x.pc = "run" => x.cur \in Fibrils
    /\ x.kind = "none" <=> x.pc \in {"off", "run", "timeouts"}
    /\ x.kind = "helper" => x.cur = r
    /\ x.kind \in {"yield", "exit"} => x.cur \in Workers
    /\ x.hand = NoFibril <=> x.pc # "switch"
    /\ x.call # "none" => x.pc \in {"leave", "deliver"}
    /\ x.pc = "deliver" => x.call # "none"

Gone == {"new", "dead", "freed"}

\* A fibril is in one place at most: in the ready list, on a runner, in the
\* hand of one, or waiting; and in one place unless it is not alive.
PlaceInv(f, rn, rl, ev, fs) ==
    /\ fs[f] \in Gone => /\ f \notin ToSet(rl) /\ ev[f] # "waiting"
                         /\ \A r \in Runners : rn[r].cur # f /\ rn[r].hand # f
    /\ fs[f] \notin Gone => \/ f \in ToSet(rl) \/ ev[f] = "waiting"
                            \/ \E r \in Runners : rn[r].cur = f \/ rn[r].hand = f
    /\ f \in ToSet(rl) => /\ ev[f] # "waiting"
                          /\ \A r \in Runners : rn[r].cur # f /\ rn[r].hand # f
    /\ ev[f] = "waiting" => \A r \in Runners : rn[r].cur # f /\ rn[r].hand # f
    /\ \A r, s \in Runners : /\ rn[r].cur = f /\ rn[s].cur = f => r = s
                             /\ rn[r].hand = f /\ rn[s].hand = f => r = s
                             /\ ~(rn[r].cur = f /\ rn[s].hand = f)

\* What a fibril may be doing in each place.
StateInv(f, rn, rl, ev, fs) ==
    /\ \A r \in Runners : rn[r].cur = f =>
          /\ fs[f] \in {"user", "linked", "handle"}
          /\ rn[r].kind # "none" => fs[f] = "user"
    /\ \A r \in Runners : rn[r].hand = f => fs[f] \in {"start", "user", "wait"}
    /\ f \in ToSet(rl) => fs[f] \in {"start", "user", "wait"}
    /\ ev[f] \in {"waiting", "timedout"} => fs[f] = "wait"
    /\ fs[f] = "wait" => ev[f] # "initial"
    /\ fs[f] \in {"linked", "handle"} => f \in Managers

\* A timeout belongs to a fibril that waits; the event keeps a notification.
EventInv(f, ev, nt, tm, fs) ==
    /\ f \in tm => f \in Workers /\ fs[f] = "wait" /\ ev[f] # "timedout"
    /\ nt[f] = (ev[f] = "triggered")

\* A manager in ipc_waiter_list has no call yet; one that waits for a call and
\* is not triggered is in the list.
ManagerInv(f, ev, fs, wl, gt) ==
    /\ fs[f] \in {"start", "user", "linked", "wait", "handle"}
    /\ f \in ToSet(wl) <=> fs[f] \in {"linked", "wait"} /\ ev[f] \in {"initial", "waiting"}
    /\ fs[f] \in {"start", "user", "handle"} => ev[f] = "initial"
    /\ ev[f] # "timedout"
    /\ f \in ToSet(wl) \/ fs[f] \in {"start", "user"} => gt[f] = "none"

\* A fibril is cleaned up once, and only after its death.
CleanInv(fs, cl) ==
    /\ \A x \in Fibrils \cup Runners : cl[x] \in Fibrils => fs[cl[x]] = "dead"
    /\ \A x, y \in Fibrils \cup Runners : cl[x] = cl[y] /\ cl[x] \in Fibrils => x = y

States == {"new", "start", "user", "linked", "wait", "handle", "dead", "freed"}
Events == {"initial", "waiting", "triggered", "timedout"}

SchedType(rn, rl, ev, nt, fs, cl, wl, gt) ==
    /\ rn \in [Runners -> RunnerStates]
    /\ rl \in Seq(Fibrils) /\ wl \in Seq(Managers)
    /\ ev \in [Fibrils -> Events] /\ nt \in [Fibrils -> BOOLEAN]
    /\ fs \in [Fibrils -> States]
    /\ cl \in [Fibrils \cup Runners -> Fibrils \cup {NoFibril}]
    /\ gt \in [Managers -> Calls]

FibrilInv(f, rn, rl, ev, nt, tm, fs) ==
    /\ PlaceInv(f, rn, rl, ev, fs)
    /\ StateInv(f, rn, rl, ev, fs)
    /\ EventInv(f, ev, nt, tm, fs)

Sched(rn, rl, ev, nt, tm, fs, cl, wl, gt) ==
    /\ SchedType(rn, rl, ev, nt, fs, cl, wl, gt)
    /\ tm \subseteq Fibrils
    /\ IsInjective(rl) /\ IsInjective(wl)
    /\ \A r \in Runners : RunnerInv(r, rn[r])
    /\ \A f \in Fibrils : FibrilInv(f, rn, rl, ev, nt, tm, fs)
    /\ \A f \in Managers : ManagerInv(f, ev, fs, wl, gt)
    /\ CleanInv(fs, cl)

SchedInv == Sched(run, ready_list, event, note, timeout_list, fst, clean, ipc_waiter_list, got)

\* Runners that hold the token of a free buffer, and those that count as
\* waiting for calls.
Buffering == {r \in Runners : run[r].pc \in {"ipc", "leave", "return", "deliver"}}
Waiting == {r \in Runners : run[r].pc \in {"ipc", "leave"}}

TokenInv ==
    /\ TokenAccounting
    /\ Cardinality(Buffering) <= free
    /\ free + Len(ipc_buffer_list) = BufferCount
    /\ threads_in_ipc_wait = Cardinality(Waiting)

\* Before there are other threads, the only one asks for calls when it has
\* nothing else to do.
SingleInv ==
    ~multithreaded =>
        /\ \A r \in Runners : r # FirstRunner => run[r].pc = "off"
        /\ ipc_buffer_list = <<>>
        /\ run[FirstRunner].pc \in {"ipc", "leave", "return", "deliver"} => ready_list = <<>>

\* Runners with a call that is not delivered yet, and managers with one that
\* is not handled yet.
Carrying == {r \in Runners : run[r].call = "call"}
Holding == {f \in Managers : got[f] = "call"}

NumberType ==
    /\ multithreaded \in BOOLEAN /\ sem \in Nat /\ free \in Nat
    /\ ipc_buffer_list \in Seq(Calls \ {"none"})
    /\ box \in Nat /\ wakeups \in Nat /\ handled \in Nat
    /\ arrived \in 0..MaxCalls /\ ops \in 0..MaxOps
    /\ due \subseteq timeout_list

CountInv ==
    /\ NumberType
    /\ TokenInv
    /\ SingleInv
    /\ CallsConserved

IInv == SchedInv /\ CountInv

-----------------------------------------------------------------------------
(* Moves of the fibrils, each with what it does to the invariant. The      *)
(* actions are made up of them.                                            *)

LEMMA Constants ==
    /\ FirstRunner \in Runners /\ Main \in Workers /\ Late \subseteq Workers
    /\ Workers \subseteq Fibrils /\ Managers \subseteq Fibrils
    /\ \A f \in Workers : f \notin Managers
    /\ \A f \in Fibrils : f \notin Runners
    /\ NoFibril \notin Fibrils /\ NoFibril \notin Runners
    /\ BufferCount \in Nat /\ BufferCount > 0 /\ MaxOps \in Nat /\ MaxCalls \in Nat
    /\ IsFiniteSet(Runners) /\ IsFiniteSet(Fibrils)
  BY FibrilAssumption DEF Fibrils

\* The record of a runner has the fields it has been given.
LEMMA RunnerFields ==
    ASSUME NEW pc, NEW cur, NEW kind
    PROVE  /\ Runner(pc, cur, kind).pc = pc /\ Runner(pc, cur, kind).cur = cur
           /\ Runner(pc, cur, kind).kind = kind /\ Runner(pc, cur, kind).hand = NoFibril
           /\ Runner(pc, cur, kind).to = NoFibril /\ Runner(pc, cur, kind).call = "none"
           /\ Runner(pc, cur, kind) \in RunnerStates <=>
                 /\ pc \in {"off", "run", "timeouts", "down", "pop", "ipc", "leave", "return",
                            "deliver", "switch"}
                 /\ cur \in Fibrils \cup Runners /\ kind \in {"none", "helper", "yield", "exit"}
  BY DEF Runner, RunnerStates, Calls

\* _fibril_switch_to(): the runner, so far a helper, goes on with dst.
LEMMA Enter ==
    ASSUME NEW rn, NEW rl, NEW ev, NEW nt, NEW tm, NEW fs, NEW cl, NEW wl, NEW gt,
           Sched(rn, rl, ev, nt, tm, fs, cl, wl, gt),
           NEW r \in Runners, NEW dst,
           rn[r].pc = "switch", rn[r].cur = r, rn[r].hand = dst,
           run \in [Runners -> RunnerStates],
           \A s \in Runners : s # r => run[s] = rn[s],
           SwitchTo(r, dst, ev, nt, tm, fs, cl)
    PROVE  Sched(run', rl, event', note', timeout_list', fst', clean', wl, gt)
<1> DEFINE waits == dst \in Fibrils /\ fs[dst] = "wait"
           fresh == dst \in Fibrils /\ fs[dst] = "start"
           freed == IF fresh THEN NoFibril ELSE cl[dst]
<1>t. SchedType(rn, rl, ev, nt, fs, cl, wl, gt) /\ tm \subseteq Fibrils
  BY DEF Sched
<1>1. RunnerInv(r, rn[r]) /\ \A s \in Runners : RunnerInv(s, rn[s])
  BY DEF Sched
<1>2. dst \in Fibrils \cup {r} /\ dst # NoFibril
  BY <1>1, Constants DEF RunnerInv
<1>3. /\ run'[r] = Runner(IF dst = r THEN "timeouts" ELSE "run", dst, "none")
      /\ run'[r].pc = (IF dst = r THEN "timeouts" ELSE "run") /\ run'[r].cur = dst
      /\ run'[r].kind = "none" /\ run'[r].hand = NoFibril /\ run'[r].call = "none"
      /\ \A s \in Runners : s # r => run'[s] = rn[s]
      /\ run' \in [Runners -> RunnerStates]
  <2>1. run' = [run EXCEPT ![r] = Runner(IF dst = r THEN "timeouts" ELSE "run", dst, "none")]
    BY DEF SwitchTo
  <2>2. run'[r] = Runner(IF dst = r THEN "timeouts" ELSE "run", dst, "none")
    BY <2>1
  <2>3. Runner(IF dst = r THEN "timeouts" ELSE "run", dst, "none") \in RunnerStates
    BY <1>2, RunnerFields
  <2>4. \A s \in Runners : s # r => run'[s] = rn[s]
    BY <2>1
  <2> QED BY <2>1, <2>2, <2>3, <2>4, RunnerFields
<1>4. \A s \in Runners : RunnerInv(s, run'[s])
  <2>1. RunnerInv(r, run'[r])
    BY <1>2, <1>3, Constants DEF RunnerInv
  <2> QED BY <2>1, <1>1, <1>3
<1>5. /\ event' = IF waits THEN [ev EXCEPT ![dst] = "initial"] ELSE ev
      /\ note' = IF waits /\ ev[dst] = "triggered" THEN [nt EXCEPT ![dst] = FALSE] ELSE nt
      /\ timeout_list' = tm \ {dst}
      /\ fst' = [f \in Fibrils |->
                     IF f = dst THEN (IF waits /\ f \in Managers THEN "handle" ELSE "user")
                     ELSE IF f = freed THEN "freed" ELSE fs[f]]
      /\ clean' = IF fresh THEN cl ELSE [cl EXCEPT ![dst] = NoFibril]
  BY DEF SwitchTo
<1>6. /\ event' \in [Fibrils -> Events] /\ note' \in [Fibrils -> BOOLEAN]
      /\ fst' \in [Fibrils -> States]
      /\ clean' \in [Fibrils \cup Runners -> Fibrils \cup {NoFibril}]
  <2>1. event' \in [Fibrils -> Events]
    BY <1>5, <1>t DEF SchedType, Events
  <2>2. note' \in [Fibrils -> BOOLEAN]
    BY <1>5, <1>t DEF SchedType
  <2>3. fst' \in [Fibrils -> States]
    BY <1>5, <1>t DEF SchedType, States
  <2>4. clean' \in [Fibrils \cup Runners -> Fibrils \cup {NoFibril}]
    BY <1>5, <1>t DEF SchedType
  <2> QED BY <2>1, <2>2, <2>3, <2>4
<1>7. \A g \in Fibrils : /\ FibrilInv(g, rn, rl, ev, nt, tm, fs)
                         /\ g \in Managers => ManagerInv(g, ev, fs, wl, gt)
  BY DEF Sched
<1>8. freed \in Fibrils => fs[freed] = "dead" /\ freed # dst
  <2>1. CleanInv(fs, cl) /\ dst \in Fibrils \cup Runners
    BY <1>2 DEF Sched
  <2>2. dst \in Fibrils => fs[dst] # "dead"
    BY <1>7 DEF FibrilInv, StateInv
  <2> QED BY <2>1, <2>2, <1>2, Constants DEF CleanInv
<1> HIDE DEF freed
<1>9. ASSUME NEW g \in Fibrils, g # dst
      PROVE  /\ FibrilInv(g, run', rl, event', note', timeout_list', fst')
             /\ g \in Managers => ManagerInv(g, event', fst', wl, gt)
  <2>1. /\ event'[g] = ev[g] /\ note'[g] = nt[g]
        /\ g \in timeout_list' <=> g \in tm
        /\ fst'[g] = IF g = freed THEN "freed" ELSE fs[g]
    BY <1>5, <1>9, <1>t DEF SchedType
  <2>2. g = freed => fs[g] = "dead"
    BY <1>8
  <2>3. /\ \A s \in Runners : run'[s].cur = g <=> rn[s].cur = g
        /\ \A s \in Runners : run'[s].hand = g <=> rn[s].hand = g
        /\ \A s \in Runners : rn[s].cur = g => run'[s].kind = rn[s].kind
    BY <1>3, <1>9, Constants
  <2>4. PlaceInv(g, run', rl, event', fst')
    BY <2>1, <2>2, <2>3, <1>7 DEF FibrilInv, PlaceInv, Gone
  <2>5. StateInv(g, run', rl, event', fst')
    <3>1. StateInv(g, rn, rl, ev, fs)
      BY <1>7 DEF FibrilInv
    <3> QED BY <3>1, <2>1, <2>2, <2>3 DEF StateInv
  <2>6. EventInv(g, event', note', timeout_list', fst')
    BY <2>1, <2>2, <1>7 DEF FibrilInv, EventInv
  <2>7. g \in Managers => ManagerInv(g, event', fst', wl, gt)
    BY <2>1, <2>2, <1>7 DEF ManagerInv
  <2> QED BY <2>4, <2>5, <2>6, <2>7 DEF FibrilInv
<1>10. ASSUME dst \in Fibrils
       PROVE  /\ FibrilInv(dst, run', rl, event', note', timeout_list', fst')
              /\ dst \in Managers => ManagerInv(dst, event', fst', wl, gt)
  <2>1. /\ FibrilInv(dst, rn, rl, ev, nt, tm, fs)
        /\ dst \in Managers => ManagerInv(dst, ev, fs, wl, gt)
    BY <1>7, <1>10
  <2>2. /\ fs[dst] \in {"start", "user", "wait"} /\ ev[dst] # "waiting"
        /\ dst \notin ToSet(rl)
        /\ \A s \in Runners : rn[s].cur # dst
        /\ \A s \in Runners : rn[s].hand = dst => s = r
    BY <2>1 DEF FibrilInv, PlaceInv, StateInv
  <2>3. /\ fs[dst] = "wait" => event'[dst] = "initial"
        /\ fs[dst] # "wait" => event'[dst] = ev[dst]
        /\ fs[dst] = "wait" /\ ev[dst] = "triggered" => note'[dst] = FALSE
        /\ ~(fs[dst] = "wait" /\ ev[dst] = "triggered") => note'[dst] = nt[dst]
        /\ dst \notin timeout_list'
        /\ fst'[dst] = IF fs[dst] = "wait" /\ dst \in Managers THEN "handle" ELSE "user"
    BY <1>5, <1>10, <1>t DEF SchedType
  <2>4. /\ \A s \in Runners : run'[s].cur = dst <=> s = r
        /\ \A s \in Runners : run'[s].hand # dst
    BY <1>2, <1>3, <2>2
  <2>5. ev[dst] \in {"initial", "triggered", "timedout"}
    BY <2>2, <1>10, <1>t DEF SchedType, Events
  <2>6. PlaceInv(dst, run', rl, event', fst')
    BY <2>2, <2>3, <2>4 DEF PlaceInv, Gone
  <2>7. StateInv(dst, run', rl, event', fst')
    <3>1. event'[dst] \notin {"waiting", "timedout"}
      BY <2>1, <2>2, <2>3, <2>5 DEF FibrilInv, StateInv
    <3> QED BY <3>1, <2>2, <2>3, <2>4, <1>3 DEF StateInv
  <2>8. EventInv(dst, event', note', timeout_list', fst')
    <3>1. nt[dst] = (ev[dst] = "triggered")
      BY <2>1 DEF FibrilInv, EventInv
    <3>2. CASE fs[dst] = "wait" /\ ev[dst] = "triggered"
      BY <3>2, <2>3 DEF EventInv
    <3>3. CASE fs[dst] = "wait" /\ ev[dst] # "triggered"
      BY <3>1, <3>3, <2>3 DEF EventInv
    <3>4. CASE fs[dst] # "wait"
      BY <3>1, <3>4, <2>3 DEF EventInv
    <3> QED BY <3>2, <3>3, <3>4
  <2>9. dst \in Managers => ManagerInv(dst, event', fst', wl, gt)
    <3>1. CASE fs[dst] = "wait"
      <4>1. ev[dst] # "initial"
        BY <3>1, <2>1 DEF FibrilInv, StateInv
      <4> QED BY <4>1, <3>1, <2>1, <2>2, <2>3 DEF ManagerInv
    <3>2. CASE fs[dst] # "wait"
      BY <3>2, <2>1, <2>2, <2>3 DEF ManagerInv
    <3> QED BY <3>1, <3>2
  <2> QED BY <2>6, <2>7, <2>8, <2>9 DEF FibrilInv
<1>11. CleanInv(fst', clean')
  <2>1. CleanInv(fs, cl) /\ dst \in Fibrils \cup Runners
    BY <1>2 DEF Sched
  <2>2. ASSUME NEW x \in Fibrils \cup Runners, clean'[x] \in Fibrils
        PROVE  clean'[x] = cl[x] /\ fst'[clean'[x]] = "dead"
    <3>1. clean'[x] = cl[x] /\ (~fresh => x # dst)
      BY <2>1, <2>2, <1>5, <1>t, Constants DEF SchedType
    <3>2. fs[cl[x]] = "dead" /\ cl[x] # freed
      <4>1. fs[cl[x]] = "dead"
        BY <3>1, <2>1, <2>2 DEF CleanInv
      <4>2. CASE fresh
        <5>1. freed = NoFibril
          BY <4>2 DEF freed
        <5> QED BY <5>1, <4>1, <3>1, <2>2, Constants
      <4>3. CASE ~fresh
        BY <4>3, <4>1, <3>1, <2>1, <2>2 DEF CleanInv, freed
      <4> QED BY <4>1, <4>2, <4>3
    <3>3. cl[x] # dst
      BY <3>1, <3>2, <2>2, <1>7 DEF FibrilInv, StateInv
    <3> QED BY <3>1, <3>2, <3>3, <2>2, <1>5
  <2> QED BY <2>1, <2>2 DEF CleanInv
<1>12. \A g \in Fibrils : FibrilInv(g, run', rl, event', note', timeout_list', fst')
  BY <1>9, <1>10
<1>13. \A g \in Managers : ManagerInv(g, event', fst', wl, gt)
  BY <1>9, <1>10, Constants
<1>14. SchedType(run', rl, event', note', fst', clean', wl, gt) /\ timeout_list' \subseteq Fibrils
  BY <1>3, <1>5, <1>6, <1>t DEF SchedType
<1> QED
  BY <1>4, <1>11, <1>12, <1>13, <1>14 DEF Sched

\* A runner that executes its helper and has dst in its hand.
HelperWith(r, dst) == [Runner("switch", r, "helper") EXCEPT !.hand = dst]

LEMMA HelperFields ==
    ASSUME NEW r \in Runners, NEW dst \in Fibrils \cup {r}
    PROVE  /\ HelperWith(r, dst) \in RunnerStates
           /\ HelperWith(r, dst).pc = "switch" /\ HelperWith(r, dst).cur = r
           /\ HelperWith(r, dst).kind = "helper" /\ HelperWith(r, dst).hand = dst
           /\ HelperWith(r, dst).call = "none"
           /\ RunnerInv(r, HelperWith(r, dst))
<1>1. /\ HelperWith(r, dst) \in RunnerStates
      /\ HelperWith(r, dst).pc = "switch" /\ HelperWith(r, dst).cur = r
      /\ HelperWith(r, dst).kind = "helper" /\ HelperWith(r, dst).hand = dst
      /\ HelperWith(r, dst).call = "none"
  BY DEF HelperWith, Runner, RunnerStates, Calls
<1> QED BY <1>1, Constants DEF RunnerInv

\* fibril_wait_timeout(): f leaves the runner to wait for its event.
LEMMA Block ==
    ASSUME SchedInv, NEW r \in Runners, NEW f \in Fibrils,
           run[r].pc = "run", run[r].cur = f, event[f] = "initial",
           fst[f] = "linked" \/ f \in Workers,
           NEW tm, tm = timeout_list \/ (tm = timeout_list \cup {f} /\ f \in Workers)
    PROVE  Sched([run EXCEPT ![r] = HelperWith(r, r)], ready_list,
                 [event EXCEPT ![f] = "waiting"], note, tm, [fst EXCEPT ![f] = "wait"],
                 clean, ipc_waiter_list, got)
<1> DEFINE rn == [run EXCEPT ![r] = HelperWith(r, r)]
           ev == [event EXCEPT ![f] = "waiting"]
           fs == [fst EXCEPT ![f] = "wait"]
<1>t. SchedType(run, ready_list, event, note, fst, clean, ipc_waiter_list, got)
  BY DEF SchedInv, Sched
<1>1. /\ rn[r].cur = r /\ rn[r].hand = r
      /\ \A s \in Runners : s # r => rn[s] = run[s]
      /\ rn \in [Runners -> RunnerStates]
      /\ \A s \in Runners : RunnerInv(s, rn[s])
  BY <1>t, HelperFields DEF SchedType, SchedInv, Sched
<1>2. /\ ev[f] = "waiting" /\ \A g \in Fibrils : g # f => ev[g] = event[g]
      /\ fs[f] = "wait" /\ \A g \in Fibrils : g # f => fs[g] = fst[g]
      /\ ev \in [Fibrils -> Events] /\ fs \in [Fibrils -> States]
  BY <1>t DEF SchedType, Events, States
<1>3. SchedType(rn, ready_list, ev, note, fs, clean, ipc_waiter_list, got)
  BY <1>t, <1>1, <1>2 DEF SchedType
<1> HIDE DEF rn, ev, fs
<1>4. \A g \in Fibrils : FibrilInv(g, run, ready_list, event, note, timeout_list, fst)
  BY DEF SchedInv, Sched
<1>5. \A g \in Managers : ManagerInv(g, event, fst, ipc_waiter_list, got)
  BY DEF SchedInv, Sched
<1>6. run[r].hand = NoFibril /\ run[r].kind = "none"
  BY DEF SchedInv, Sched, RunnerInv
<1>7. ASSUME NEW g \in Fibrils, g # f
      PROVE  FibrilInv(g, rn, ready_list, ev, note, tm, fs)
  <2>1. /\ ev[g] = event[g] /\ fs[g] = fst[g]
        /\ g \in tm <=> g \in timeout_list
    BY <1>2, <1>7
  <2>2. /\ \A s \in Runners : rn[s].cur = g <=> run[s].cur = g
        /\ \A s \in Runners : rn[s].hand = g <=> run[s].hand = g
        /\ \A s \in Runners : rn[s].cur = g => rn[s].kind = run[s].kind
    BY <1>1, <1>6, <1>7, Constants
  <2>3. PlaceInv(g, rn, ready_list, ev, fs)
    BY <2>1, <2>2, <1>4 DEF FibrilInv, PlaceInv
  <2>4. StateInv(g, rn, ready_list, ev, fs)
    <3>1. StateInv(g, run, ready_list, event, fst)
      BY <1>4 DEF FibrilInv
    <3> QED BY <3>1, <2>1, <2>2 DEF StateInv
  <2>5. EventInv(g, ev, note, tm, fs)
    BY <2>1, <1>4 DEF FibrilInv, EventInv
  <2> QED BY <2>3, <2>4, <2>5 DEF FibrilInv
<1>8. FibrilInv(f, rn, ready_list, ev, note, tm, fs)
  <2>1. FibrilInv(f, run, ready_list, event, note, timeout_list, fst)
    BY <1>4
  <2>2. \A s \in Runners : rn[s].cur # f /\ rn[s].hand # f
    BY <1>1, <2>1, Constants DEF FibrilInv, PlaceInv
  <2>3. f \notin ToSet(ready_list)
    BY <2>1 DEF FibrilInv, PlaceInv
  <2>4. PlaceInv(f, rn, ready_list, ev, fs)
    BY <1>2, <2>2, <2>3 DEF PlaceInv, Gone
  <2>5. StateInv(f, rn, ready_list, ev, fs)
    BY <1>2, <2>2, <2>3 DEF StateInv
  <2>6. EventInv(f, ev, note, tm, fs)
    BY <1>2, <2>1 DEF FibrilInv, EventInv
  <2> QED BY <2>4, <2>5, <2>6 DEF FibrilInv
<1>9. ASSUME NEW g \in Managers PROVE ManagerInv(g, ev, fs, ipc_waiter_list, got)
  <2>1. CASE g = f
    BY <2>1, <1>2, <1>5, Constants DEF ManagerInv
  <2>2. CASE g # f
    BY <2>2, <1>2, <1>5, Constants DEF ManagerInv
  <2> QED BY <2>1, <2>2
<1>10. CleanInv(fs, clean)
  <2>1. CleanInv(fst, clean) /\ fst[f] # "dead"
    BY <1>4 DEF SchedInv, Sched, FibrilInv, StateInv
  <2> QED BY <2>1, <1>2 DEF CleanInv
<1>11. tm \subseteq Fibrils /\ IsInjective(ready_list) /\ IsInjective(ipc_waiter_list)
  BY DEF SchedInv, Sched
<1>12. \A g \in Fibrils : FibrilInv(g, rn, ready_list, ev, note, tm, fs)
  BY <1>7, <1>8
<1>13. Sched(rn, ready_list, ev, note, tm, fs, clean, ipc_waiter_list, got)
  BY <1>1, <1>3, <1>9, <1>10, <1>11, <1>12 DEF Sched
<1> QED
  BY <1>13 DEF rn, ev, fs

\* The runners do something that moves no fibril.
LEMMA RunnersMove ==
    ASSUME NEW rn, NEW rl, NEW ev, NEW nt, NEW tm, NEW fs, NEW cl, NEW wl, NEW gt,
           Sched(rn, rl, ev, nt, tm, fs, cl, wl, gt),
           NEW rn2 \in [Runners -> RunnerStates],
           \A s \in Runners :
              /\ RunnerInv(s, rn2[s])
              /\ rn2[s].cur = rn[s].cur
              /\ rn2[s].hand = rn[s].hand \/ (rn2[s].hand \notin Fibrils /\ rn[s].hand \notin Fibrils)
              /\ rn[s].cur \in Fibrils /\ rn2[s].kind # "none"
                    => rn[s].kind # "none" \/ fs[rn[s].cur] = "user"
    PROVE  Sched(rn2, rl, ev, nt, tm, fs, cl, wl, gt)
<1>1. ASSUME NEW g \in Fibrils PROVE FibrilInv(g, rn2, rl, ev, nt, tm, fs)
  <2>1. FibrilInv(g, rn, rl, ev, nt, tm, fs)
    BY DEF Sched
  <2>2. /\ \A s \in Runners : rn2[s].cur = g <=> rn[s].cur = g
        /\ \A s \in Runners : rn2[s].hand = g <=> rn[s].hand = g
    OBVIOUS
  <2>3. PlaceInv(g, rn2, rl, ev, fs)
    BY <2>1, <2>2 DEF FibrilInv, PlaceInv
  <2>4. StateInv(g, rn2, rl, ev, fs)
    BY <2>1, <2>2 DEF FibrilInv, StateInv
  <2> QED BY <2>1, <2>3, <2>4 DEF FibrilInv
<1>2. SchedType(rn2, rl, ev, nt, fs, cl, wl, gt)
  BY DEF Sched, SchedType
<1>3. \A s \in Runners : RunnerInv(s, rn2[s])
  OBVIOUS
<1> QED
  BY <1>1, <1>2, <1>3 DEF Sched

\* list_pop() of ready_list: the first ready fibril goes to the hand of a
\* runner.
LEMMA TakeReady ==
    ASSUME NEW rn, NEW rl, NEW ev, NEW nt, NEW tm, NEW fs, NEW cl, NEW wl, NEW gt,
           Sched(rn, rl, ev, nt, tm, fs, cl, wl, gt), rl # <<>>,
           NEW r \in Runners, NEW x \in RunnerStates,
           rn[r].hand \notin Fibrils, rn[r].kind # "none",
           x.cur = rn[r].cur, x.kind = rn[r].kind,
           x.hand = Head(rl), RunnerInv(r, x)
    PROVE  Sched([rn EXCEPT ![r] = x], Tail(rl), ev, nt, tm, fs, cl, wl, gt)
<1> DEFINE rn2 == [rn EXCEPT ![r] = x]
           h == Head(rl)
<1>t. SchedType(rn, rl, ev, nt, fs, cl, wl, gt)
  BY DEF Sched
<1>1. /\ rn2[r] = x
      /\ \A s \in Runners : s # r => rn2[s] = rn[s]
      /\ rn2 \in [Runners -> RunnerStates]
  BY <1>t DEF SchedType
<1>2. \A s \in Runners : RunnerInv(s, rn2[s])
  BY <1>1 DEF Sched
<1>3. rl \in Seq(Fibrils) /\ IsInjective(rl)
  BY <1>t DEF Sched, SchedType
<1>4. /\ Tail(rl) \in Seq(Fibrils) /\ IsInjective(Tail(rl))
      /\ ToSet(Tail(rl)) = ToSet(rl) \ {h}
      /\ h \in ToSet(rl) /\ h \in Fibrils
  BY <1>3, TailList, Zenon
<1>5. SchedType(rn2, Tail(rl), ev, nt, fs, cl, wl, gt)
  BY <1>t, <1>1, <1>4 DEF SchedType
<1> HIDE DEF rn2, h
<1>6. x.hand = h
  BY DEF h
<1>7. ASSUME NEW g \in Fibrils PROVE FibrilInv(g, rn2, Tail(rl), ev, nt, tm, fs)
  <2>1. FibrilInv(g, rn, rl, ev, nt, tm, fs)
    BY DEF Sched
  <2>2. /\ \A s \in Runners : rn2[s].cur = g <=> rn[s].cur = g
        /\ \A s \in Runners : rn2[s].kind = rn[s].kind
    BY <1>1
  <2>3. CASE g = h
    <3>1. /\ \A s \in Runners : rn2[s].hand = g <=> s = r
          /\ g \notin ToSet(Tail(rl)) /\ g \in ToSet(rl)
      BY <2>1, <2>3, <1>1, <1>4, <1>6 DEF FibrilInv, PlaceInv
    <3>2. PlaceInv(g, rn2, Tail(rl), ev, fs)
      BY <2>1, <2>2, <3>1 DEF FibrilInv, PlaceInv
    <3>3. StateInv(g, rn2, Tail(rl), ev, fs)
      BY <2>1, <2>2, <3>1 DEF FibrilInv, StateInv
    <3> QED BY <2>1, <3>2, <3>3 DEF FibrilInv
  <2>4. CASE g # h
    <3>1. /\ \A s \in Runners : rn2[s].hand = g <=> rn[s].hand = g
          /\ g \in ToSet(Tail(rl)) <=> g \in ToSet(rl)
      BY <2>4, <1>1, <1>4, <1>6
    <3>2. PlaceInv(g, rn2, Tail(rl), ev, fs)
      BY <2>1, <2>2, <3>1 DEF FibrilInv, PlaceInv
    <3>3. StateInv(g, rn2, Tail(rl), ev, fs)
      BY <2>1, <2>2, <3>1 DEF FibrilInv, StateInv
    <3> QED BY <2>1, <3>2, <3>3 DEF FibrilInv
  <2> QED BY <2>3, <2>4
<1>8. Sched(rn2, Tail(rl), ev, nt, tm, fs, cl, wl, gt)
  BY <1>2, <1>4, <1>5, <1>7 DEF Sched
<1> QED BY <1>8 DEF rn2

\* A call is handed to the manager that waits longest. If that is blocked
\* already, a runner takes it in its hand.
LEMMA Trigger ==
    ASSUME NEW rn, NEW rl, NEW ev, NEW nt, NEW tm, NEW fs, NEW cl, NEW wl, NEW gt,
           Sched(rn, rl, ev, nt, tm, fs, cl, wl, gt), wl # <<>>,
           NEW c \in Calls, NEW rn2 \in [Runners -> RunnerStates],
           NEW w, w = Head(wl), NEW r \in Runners,
           \A s \in Runners : s # r => rn2[s] = rn[s],
           RunnerInv(r, rn2[r]),
           \/ ev[w] # "waiting" /\ rn2[r] = rn[r]
           \/ /\ ev[w] = "waiting" /\ rn[r].hand \notin Fibrils /\ rn[r].kind # "none"
              /\ rn2[r].cur = rn[r].cur /\ rn2[r].kind = rn[r].kind /\ rn2[r].hand = w
    PROVE  Sched(rn2, rl, [ev EXCEPT ![w] = "triggered"], [nt EXCEPT ![w] = TRUE], tm, fs, cl,
                 Tail(wl), [gt EXCEPT ![w] = c])
<1> DEFINE ev2 == [ev EXCEPT ![w] = "triggered"]
           nt2 == [nt EXCEPT ![w] = TRUE]
           gt2 == [gt EXCEPT ![w] = c]
<1>t. SchedType(rn, rl, ev, nt, fs, cl, wl, gt)
  BY DEF Sched
<1>1. wl \in Seq(Managers) /\ IsInjective(wl)
  BY <1>t DEF Sched, SchedType
<1>2. /\ Tail(wl) \in Seq(Managers) /\ IsInjective(Tail(wl))
      /\ ToSet(Tail(wl)) = ToSet(wl) \ {w}
      /\ w \in ToSet(wl) /\ w \in Managers
  BY <1>1, TailList, Zenon
<1>3. w \in Fibrils
  BY <1>2, Constants
<1>4. /\ ev2[w] = "triggered" /\ \A g \in Fibrils : g # w => ev2[g] = ev[g]
      /\ nt2[w] = TRUE /\ \A g \in Fibrils : g # w => nt2[g] = nt[g]
      /\ \A g \in Managers : g # w => gt2[g] = gt[g]
      /\ ev2 \in [Fibrils -> Events] /\ nt2 \in [Fibrils -> BOOLEAN]
      /\ gt2 \in [Managers -> Calls]
  BY <1>t, <1>2, <1>3 DEF SchedType, Events
<1>5. SchedType(rn2, rl, ev2, nt2, fs, cl, Tail(wl), gt2)
  BY <1>t, <1>2, <1>4 DEF SchedType
<1> HIDE DEF ev2, nt2, gt2
<1>6. \A s \in Runners : RunnerInv(s, rn2[s])
  BY DEF Sched
<1>7. /\ \A s \in Runners : rn2[s].cur = rn[s].cur /\ rn2[s].kind = rn[s].kind
      /\ \A g \in Fibrils : g # w => \A s \in Runners : rn2[s].hand = g <=> rn[s].hand = g
  OBVIOUS
<1>8. \A g \in Fibrils : FibrilInv(g, rn, rl, ev, nt, tm, fs)
  BY DEF Sched
<1>9. ManagerInv(w, ev, fs, wl, gt)
  BY <1>2 DEF Sched
<1>10. ASSUME NEW g \in Fibrils, g # w PROVE FibrilInv(g, rn2, rl, ev2, nt2, tm, fs)
  <2>1. FibrilInv(g, rn, rl, ev, nt, tm, fs) /\ ev2[g] = ev[g] /\ nt2[g] = nt[g]
    BY <1>4, <1>8, <1>10
  <2>2. \A s \in Runners : rn2[s].hand = g <=> rn[s].hand = g
    BY <1>7, <1>10
  <2>3. PlaceInv(g, rn2, rl, ev2, fs)
    BY <2>1, <2>2, <1>7 DEF FibrilInv, PlaceInv
  <2>4. StateInv(g, rn2, rl, ev2, fs)
    BY <2>1, <2>2, <1>7 DEF FibrilInv, StateInv
  <2>5. EventInv(g, ev2, nt2, tm, fs)
    BY <2>1 DEF FibrilInv, EventInv
  <2> QED BY <2>3, <2>4, <2>5 DEF FibrilInv
<1>11. FibrilInv(w, rn2, rl, ev2, nt2, tm, fs)
  <2>1. FibrilInv(w, rn, rl, ev, nt, tm, fs) /\ w \notin Workers
    BY <1>2, <1>3, <1>8, Constants
  <2>2. fs[w] \in {"linked", "wait"} /\ ev[w] \in {"initial", "waiting"}
    BY <1>2, <1>9 DEF ManagerInv
  <2>3. EventInv(w, ev2, nt2, tm, fs)
    BY <2>1, <1>4 DEF FibrilInv, EventInv
  <2>4. CASE ev[w] # "waiting"
    <3>1. \A s \in Runners : rn2[s] = rn[s]
      BY <2>4
    <3>2. PlaceInv(w, rn2, rl, ev2, fs)
      BY <3>1, <2>1, <2>4, <1>4 DEF FibrilInv, PlaceInv
    <3>3. StateInv(w, rn2, rl, ev2, fs)
      BY <3>1, <2>1, <1>4 DEF FibrilInv, StateInv
    <3> QED BY <3>2, <3>3, <2>3 DEF FibrilInv
  <2>5. CASE ev[w] = "waiting"
    <3>1. /\ \A s \in Runners : rn2[s].hand = w <=> s = r
          /\ \A s \in Runners : rn2[s].cur # w
          /\ w \notin ToSet(rl) /\ fs[w] = "wait"
      BY <2>1, <2>5, <1>7 DEF FibrilInv, PlaceInv, StateInv
    <3>2. PlaceInv(w, rn2, rl, ev2, fs)
      BY <3>1, <1>4 DEF PlaceInv, Gone
    <3>3. StateInv(w, rn2, rl, ev2, fs)
      BY <3>1, <1>4 DEF StateInv
    <3> QED BY <3>2, <3>3, <2>3 DEF FibrilInv
  <2> QED BY <2>4, <2>5
<1>12. ASSUME NEW g \in Managers PROVE ManagerInv(g, ev2, fs, Tail(wl), gt2)
  <2>1. ManagerInv(g, ev, fs, wl, gt) /\ g \in Fibrils
    BY Constants DEF Sched
  <2>2. CASE g = w
    BY <2>1, <2>2, <1>2, <1>4 DEF ManagerInv
  <2>3. CASE g # w
    BY <2>1, <2>3, <1>2, <1>4 DEF ManagerInv
  <2> QED BY <2>2, <2>3
<1>13. \A g \in Fibrils : FibrilInv(g, rn2, rl, ev2, nt2, tm, fs)
  BY <1>10, <1>11
<1>14. Sched(rn2, rl, ev2, nt2, tm, fs, cl, Tail(wl), gt2)
  BY <1>2, <1>5, <1>6, <1>12, <1>13 DEF Sched
<1> QED BY <1>14 DEF ev2, nt2, gt2

\* The fibril on a runner goes on: it may change its own state and event, and
\* as a manager link itself or get a call.
LEMMA OwnMove ==
    ASSUME SchedInv, NEW r \in Runners, NEW f \in Fibrils,
           run[r].pc = "run", run[r].cur = f,
           NEW ev \in [Fibrils -> Events], NEW nt \in [Fibrils -> BOOLEAN],
           NEW fs \in [Fibrils -> States],
           ev[f] \in {"initial", "triggered"}, nt[f] = (ev[f] = "triggered"),
           fs[f] \in {"user", "linked", "handle"}, fs[f] # "user" => f \in Managers,
           \A g \in Fibrils : g # f => ev[g] = event[g] /\ nt[g] = note[g] /\ fs[g] = fst[g],
           NEW wl \in Seq(Managers), IsInjective(wl), NEW gt \in [Managers -> Calls],
           \A g \in Managers : ManagerInv(g, ev, fs, wl, gt)
    PROVE  Sched(run, ready_list, ev, nt, timeout_list, fs, clean, wl, gt)
<1>1. \A g \in Fibrils : FibrilInv(g, run, ready_list, event, note, timeout_list, fst)
  BY DEF SchedInv, Sched
<1>2. run[r].kind = "none"
  BY DEF SchedInv, Sched, RunnerInv
<1>3. ASSUME NEW g \in Fibrils PROVE FibrilInv(g, run, ready_list, ev, nt, timeout_list, fs)
  <2>1. FibrilInv(g, run, ready_list, event, note, timeout_list, fst)
    BY <1>1
  <2>2. CASE g = f
    <3>1. /\ fst[g] \in {"user", "linked", "handle"} /\ g \notin ToSet(ready_list)
          /\ event[g] # "waiting"
          /\ \A s \in Runners : run[s].hand # g /\ (run[s].cur = g <=> s = r)
      BY <2>1, <2>2 DEF FibrilInv, StateInv, PlaceInv
    <3>2. PlaceInv(g, run, ready_list, ev, fs)
      BY <3>1, <2>2 DEF PlaceInv, Gone
    <3>3. StateInv(g, run, ready_list, ev, fs)
      BY <3>1, <2>2, <1>2 DEF StateInv
    <3>4. EventInv(g, ev, nt, timeout_list, fs)
      BY <3>1, <2>1, <2>2 DEF FibrilInv, EventInv
    <3> QED BY <3>2, <3>3, <3>4 DEF FibrilInv
  <2>3. CASE g # f
    <3>1. ev[g] = event[g] /\ nt[g] = note[g] /\ fs[g] = fst[g]
      BY <2>3
    <3> QED BY <3>1, <2>1 DEF FibrilInv, PlaceInv, StateInv, EventInv
  <2> QED BY <2>2, <2>3
<1>4. CleanInv(fs, clean)
  <2>1. CleanInv(fst, clean) /\ fst[f] # "dead"
    BY <1>1 DEF SchedInv, Sched, FibrilInv, StateInv
  <2> QED BY <2>1 DEF CleanInv
<1>5. SchedType(run, ready_list, ev, nt, fs, clean, wl, gt)
  BY DEF SchedInv, Sched, SchedType
<1> QED
  BY <1>3, <1>4, <1>5 DEF SchedInv, Sched

\* fibril_notify(): the event is triggered, and a fibril that waits for it is
\* ready.
LEMMA NotifyMove ==
    ASSUME NEW fs, NEW gt,
           Sched(run, ready_list, event, note, timeout_list, fs, clean, ipc_waiter_list, gt),
           NEW g \in Workers, fs[g] \notin Gone
    PROVE  Sched(run, ready_list \o Woken(g), [event EXCEPT ![g] = "triggered"],
                 [note EXCEPT ![g] = TRUE], timeout_list, fs, clean, ipc_waiter_list, gt)
<1> DEFINE ev == [event EXCEPT ![g] = "triggered"]
           nt == [note EXCEPT ![g] = TRUE]
           rl == ready_list \o Woken(g)
<1>t. SchedType(run, ready_list, event, note, fs, clean, ipc_waiter_list, gt)
  BY DEF Sched
<1>1. g \in Fibrils /\ g \notin Managers
  BY Constants
<1>2. /\ ev[g] = "triggered" /\ \A h \in Fibrils : h # g => ev[h] = event[h]
      /\ nt[g] = TRUE /\ \A h \in Fibrils : h # g => nt[h] = note[h]
      /\ ev \in [Fibrils -> Events] /\ nt \in [Fibrils -> BOOLEAN]
  BY <1>t, <1>1 DEF SchedType, Events
<1>3. \A h \in Fibrils : FibrilInv(h, run, ready_list, event, note, timeout_list, fs)
  BY DEF Sched
<1>4. /\ rl \in Seq(Fibrils) /\ IsInjective(rl)
      /\ ToSet(rl) = ToSet(ready_list) \cup (IF event[g] = "waiting" THEN {g} ELSE {})
  <2>1. ready_list \in Seq(Fibrils) /\ IsInjective(ready_list)
    BY <1>t DEF Sched, SchedType
  <2>2. CASE event[g] = "waiting"
    <3>1. rl = Append(ready_list, g)
      BY <2>1, <2>2, <1>1 DEF Woken
    <3>2. g \notin ToSet(ready_list)
      BY <2>2, <1>1, <1>3 DEF FibrilInv, PlaceInv
    <3>3. /\ Append(ready_list, g) \in Seq(Fibrils) /\ IsInjective(Append(ready_list, g))
          /\ ToSet(Append(ready_list, g)) = ToSet(ready_list) \cup {g}
      BY <2>1, <3>2, <1>1, AppendList
    <3> QED BY <2>2, <3>1, <3>3
  <2>3. CASE event[g] # "waiting"
    <3>1. rl = ready_list
      BY <2>1, <2>3, <1>1 DEF Woken
    <3> QED BY <2>1, <2>3, <3>1
  <2> QED BY <2>2, <2>3
<1>5. SchedType(run, rl, ev, nt, fs, clean, ipc_waiter_list, gt)
  BY <1>t, <1>2, <1>4 DEF SchedType
<1> HIDE DEF ev, nt, rl
<1>6. ASSUME NEW h \in Fibrils, h # g PROVE FibrilInv(h, run, rl, ev, nt, timeout_list, fs)
  <2>1. /\ ev[h] = event[h] /\ nt[h] = note[h]
        /\ h \in ToSet(rl) <=> h \in ToSet(ready_list)
    BY <1>2, <1>4, <1>6
  <2> QED BY <2>1, <1>3 DEF FibrilInv, PlaceInv, StateInv, EventInv
<1>7. FibrilInv(g, run, rl, ev, nt, timeout_list, fs)
  <2>1. FibrilInv(g, run, ready_list, event, note, timeout_list, fs)
    BY <1>1, <1>3
  <2>2. g \in ToSet(rl) <=> g \in ToSet(ready_list) \/ event[g] = "waiting"
    BY <1>4
  <2>3. PlaceInv(g, run, rl, ev, fs)
    BY <2>1, <2>2, <1>2 DEF FibrilInv, PlaceInv
  <2>4. StateInv(g, run, rl, ev, fs)
    BY <2>1, <2>2, <1>2 DEF FibrilInv, StateInv
  <2>5. EventInv(g, ev, nt, timeout_list, fs)
    BY <2>1, <1>2 DEF FibrilInv, EventInv
  <2> QED BY <2>3, <2>4, <2>5 DEF FibrilInv
<1>8. ASSUME NEW h \in Managers PROVE ManagerInv(h, ev, fs, ipc_waiter_list, gt)
  <2>1. ManagerInv(h, event, fs, ipc_waiter_list, gt) /\ ev[h] = event[h]
    BY <1>1, <1>2, Constants DEF Sched
  <2> QED BY <2>1 DEF ManagerInv
<1>9. \A h \in Fibrils : FibrilInv(h, run, rl, ev, nt, timeout_list, fs)
  BY <1>6, <1>7
<1>10. Sched(run, rl, ev, nt, timeout_list, fs, clean, ipc_waiter_list, gt)
  BY <1>4, <1>5, <1>8, <1>9 DEF Sched
<1> QED BY <1>10 DEF ev, nt, rl

\* fibril_start(): a new fibril is ready.
LEMMA StartMove ==
    ASSUME SchedInv, NEW g \in Workers, fst[g] = "new"
    PROVE  Sched(run, ready_list \o <<g>>, event, note, timeout_list, [fst EXCEPT ![g] = "start"],
                 clean, ipc_waiter_list, got)
<1> DEFINE fs == [fst EXCEPT ![g] = "start"]
           rl == ready_list \o <<g>>
<1>t. SchedType(run, ready_list, event, note, fst, clean, ipc_waiter_list, got)
  BY DEF SchedInv, Sched
<1>1. g \in Fibrils /\ g \notin Managers
  BY Constants
<1>2. /\ fs[g] = "start" /\ \A h \in Fibrils : h # g => fs[h] = fst[h]
      /\ fs \in [Fibrils -> States]
  BY <1>t, <1>1 DEF SchedType, States
<1>3. \A h \in Fibrils : FibrilInv(h, run, ready_list, event, note, timeout_list, fst)
  BY DEF SchedInv, Sched
<1>4. /\ g \notin ToSet(ready_list) /\ event[g] \notin {"waiting", "timedout"}
      /\ g \notin timeout_list
      /\ \A s \in Runners : run[s].cur # g /\ run[s].hand # g
  BY <1>1, <1>3 DEF FibrilInv, PlaceInv, StateInv, EventInv, Gone
<1>5. rl \in Seq(Fibrils) /\ IsInjective(rl) /\ ToSet(rl) = ToSet(ready_list) \cup {g}
  <2>1. ready_list \in Seq(Fibrils) /\ IsInjective(ready_list)
    BY <1>t DEF SchedInv, Sched, SchedType
  <2>2. g \notin ToSet(ready_list)
    BY <1>4
  <2>3. /\ ready_list \o <<g>> \in Seq(Fibrils)
        /\ ToSet(ready_list \o <<g>>) = ToSet(ready_list) \cup {g}
        /\ IsInjective(ready_list) /\ g \notin ToSet(ready_list)
              => IsInjective(ready_list \o <<g>>)
    BY <2>1, <1>1, ConcatOne
  <2> QED BY <2>1, <2>2, <2>3, Zenon
<1>6. SchedType(run, rl, event, note, fs, clean, ipc_waiter_list, got)
  BY <1>t, <1>2, <1>5 DEF SchedType
<1> HIDE DEF fs, rl
<1>7. ASSUME NEW h \in Fibrils, h # g PROVE FibrilInv(h, run, rl, event, note, timeout_list, fs)
  <2>1. /\ fs[h] = fst[h]
        /\ h \in ToSet(rl) <=> h \in ToSet(ready_list)
    BY <1>2, <1>5, <1>7
  <2> QED BY <2>1, <1>3 DEF FibrilInv, PlaceInv, StateInv, EventInv
<1>8. FibrilInv(g, run, rl, event, note, timeout_list, fs)
  <2>1. EventInv(g, event, note, timeout_list, fst)
    BY <1>1, <1>3 DEF FibrilInv
  <2>2. g \in ToSet(rl)
    BY <1>5
  <2>3. PlaceInv(g, run, rl, event, fs)
    BY <2>2, <1>2, <1>4 DEF PlaceInv, Gone
  <2>4. StateInv(g, run, rl, event, fs)
    BY <2>2, <1>2, <1>4 DEF StateInv
  <2>5. EventInv(g, event, note, timeout_list, fs)
    BY <2>1, <1>4 DEF EventInv
  <2> QED BY <2>3, <2>4, <2>5 DEF FibrilInv
<1>9. ASSUME NEW h \in Managers PROVE ManagerInv(h, event, fs, ipc_waiter_list, got)
  <2>1. ManagerInv(h, event, fst, ipc_waiter_list, got) /\ fs[h] = fst[h]
    BY <1>1, <1>2, Constants DEF SchedInv, Sched
  <2> QED BY <2>1 DEF ManagerInv
<1>10. CleanInv(fs, clean)
  <2>1. CleanInv(fst, clean)
    BY DEF SchedInv, Sched
  <2> QED BY <2>1, <1>2 DEF CleanInv
<1>11. \A h \in Fibrils : FibrilInv(h, run, rl, event, note, timeout_list, fs)
  BY <1>7, <1>8
<1>12. Sched(run, rl, event, note, timeout_list, fs, clean, ipc_waiter_list, got)
  BY <1>5, <1>6, <1>9, <1>10, <1>11 DEF SchedInv, Sched
<1> QED BY <1>12 DEF fs, rl

\* fibril_yield(): the fibril goes from its runner to the ready list.
LEMMA YieldMove ==
    ASSUME SchedInv, NEW r \in Runners, run[r].pc = "switch", run[r].kind = "yield"
    PROVE  Sched([run EXCEPT ![r] = HelperWith(r, run[r].hand)], ready_list \o <<run[r].cur>>,
                 event, note, timeout_list, fst, clean, ipc_waiter_list, got)
<1> DEFINE src == run[r].cur
           rn == [run EXCEPT ![r] = HelperWith(r, run[r].hand)]
           rl == ready_list \o <<src>>
<1>t. SchedType(run, ready_list, event, note, fst, clean, ipc_waiter_list, got)
  BY DEF SchedInv, Sched
<1>1. RunnerInv(r, run[r])
  BY DEF SchedInv, Sched
<1>2. src \in Fibrils /\ src \in Workers /\ run[r].hand \in Fibrils \cup {r}
  BY <1>1, Constants DEF RunnerInv
<1>3. /\ rn[r].cur = r /\ rn[r].hand = run[r].hand
      /\ \A s \in Runners : s # r => rn[s] = run[s]
      /\ rn \in [Runners -> RunnerStates]
      /\ \A s \in Runners : RunnerInv(s, rn[s])
  BY <1>t, <1>2, HelperFields DEF SchedType, SchedInv, Sched
<1>4. \A h \in Fibrils : FibrilInv(h, run, ready_list, event, note, timeout_list, fst)
  BY DEF SchedInv, Sched
<1>5. /\ src \notin ToSet(ready_list) /\ event[src] # "waiting"
      /\ fst[src] = "user"
      /\ \A s \in Runners : run[s].hand # src /\ (run[s].cur = src <=> s = r)
  BY <1>2, <1>4 DEF FibrilInv, PlaceInv, StateInv
<1>6. rl \in Seq(Fibrils) /\ IsInjective(rl) /\ ToSet(rl) = ToSet(ready_list) \cup {src}
  <2>1. ready_list \in Seq(Fibrils) /\ IsInjective(ready_list)
    BY <1>t DEF SchedInv, Sched, SchedType
  <2>2. src \in Fibrils /\ src \notin ToSet(ready_list)
    BY <1>2, <1>5
  <2> HIDE DEF src
  <2>3. /\ ready_list \o <<src>> \in Seq(Fibrils)
        /\ ToSet(ready_list \o <<src>>) = ToSet(ready_list) \cup {src}
        /\ IsInjective(ready_list) /\ src \notin ToSet(ready_list)
              => IsInjective(ready_list \o <<src>>)
    BY <2>1, <2>2, ConcatOne
  <2> QED BY <2>1, <2>2, <2>3, Zenon
<1>7. SchedType(rn, rl, event, note, fst, clean, ipc_waiter_list, got)
  BY <1>t, <1>3, <1>6 DEF SchedType
<1> HIDE DEF src, rn, rl
<1>8. ASSUME NEW h \in Fibrils, h # src PROVE FibrilInv(h, rn, rl, event, note, timeout_list, fst)
  <2>1. FibrilInv(h, run, ready_list, event, note, timeout_list, fst)
    BY <1>4
  <2>2. /\ \A s \in Runners : rn[s].cur = h <=> run[s].cur = h
        /\ \A s \in Runners : rn[s].hand = run[s].hand
        /\ \A s \in Runners : rn[s].cur = h => rn[s].kind = run[s].kind
        /\ h \in ToSet(rl) <=> h \in ToSet(ready_list)
    BY <1>3, <1>6, <1>8, Constants DEF src
  <2>3. PlaceInv(h, rn, rl, event, fst)
    BY <2>1, <2>2 DEF FibrilInv, PlaceInv
  <2>4. StateInv(h, rn, rl, event, fst)
    BY <2>1, <2>2 DEF FibrilInv, StateInv
  <2> QED BY <2>1, <2>3, <2>4 DEF FibrilInv
<1>9. FibrilInv(src, rn, rl, event, note, timeout_list, fst)
  <2>1. FibrilInv(src, run, ready_list, event, note, timeout_list, fst)
    BY <1>2, <1>4
  <2>2. /\ \A s \in Runners : rn[s].cur # src /\ rn[s].hand # src
        /\ src \in ToSet(rl)
    BY <1>2, <1>3, <1>5, <1>6, Constants
  <2>3. PlaceInv(src, rn, rl, event, fst)
    BY <2>2, <1>5 DEF PlaceInv, Gone
  <2>4. StateInv(src, rn, rl, event, fst)
    BY <2>1, <2>2, <1>5 DEF FibrilInv, StateInv
  <2> QED BY <2>1, <2>3, <2>4 DEF FibrilInv
<1>10. \A h \in Fibrils : FibrilInv(h, rn, rl, event, note, timeout_list, fst)
  BY <1>8, <1>9
<1>11. Sched(rn, rl, event, note, timeout_list, fst, clean, ipc_waiter_list, got)
  BY <1>3, <1>6, <1>7, <1>10 DEF SchedInv, Sched
<1> QED BY <1>11 DEF rn, rl, src

\* fibril_exit(): the fibril is dead, and who comes next shall free it.
LEMMA ExitMove ==
    ASSUME SchedInv, NEW r \in Runners, run[r].pc = "switch", run[r].kind = "exit"
    PROVE  Sched([run EXCEPT ![r] = HelperWith(r, run[r].hand)], ready_list,
                 event, note, timeout_list, [fst EXCEPT ![run[r].cur] = "dead"],
                 [clean EXCEPT ![run[r].hand] = run[r].cur], ipc_waiter_list, got)
<1> DEFINE src == run[r].cur
           dst == run[r].hand
           rn == [run EXCEPT ![r] = HelperWith(r, dst)]
           fs == [fst EXCEPT ![src] = "dead"]
           cl == [clean EXCEPT ![dst] = src]
<1>t. SchedType(run, ready_list, event, note, fst, clean, ipc_waiter_list, got)
  BY DEF SchedInv, Sched
<1>1. RunnerInv(r, run[r])
  BY DEF SchedInv, Sched
<1>2. src \in Fibrils /\ src \in Workers /\ src \notin Managers /\ dst \in Fibrils \cup {r}
  BY <1>1, Constants DEF RunnerInv
<1>3. /\ rn[r].cur = r /\ rn[r].hand = run[r].hand
      /\ \A s \in Runners : s # r => rn[s] = run[s]
      /\ rn \in [Runners -> RunnerStates]
      /\ \A s \in Runners : RunnerInv(s, rn[s])
  BY <1>t, <1>2, HelperFields DEF SchedType, SchedInv, Sched
<1>4. /\ fs[src] = "dead" /\ \A h \in Fibrils : h # src => fs[h] = fst[h]
      /\ fs \in [Fibrils -> States]
  BY <1>t, <1>2 DEF SchedType, States
<1>5. /\ cl[dst] = src /\ \A x \in Fibrils \cup Runners : x # dst => cl[x] = clean[x]
      /\ cl \in [Fibrils \cup Runners -> Fibrils \cup {NoFibril}]
  BY <1>t, <1>2 DEF SchedType
<1>6. SchedType(rn, ready_list, event, note, fs, cl, ipc_waiter_list, got)
  BY <1>t, <1>3, <1>4, <1>5 DEF SchedType
<1>7. \A h \in Fibrils : FibrilInv(h, run, ready_list, event, note, timeout_list, fst)
  BY DEF SchedInv, Sched
<1>8. /\ src \notin ToSet(ready_list) /\ event[src] \notin {"waiting", "timedout"}
      /\ fst[src] = "user" /\ src \notin timeout_list
      /\ \A s \in Runners : run[s].hand # src /\ (run[s].cur = src <=> s = r)
  BY <1>2, <1>7 DEF FibrilInv, PlaceInv, StateInv, EventInv
<1> HIDE DEF src, dst, rn, fs, cl
<1>9. ASSUME NEW h \in Fibrils, h # src
      PROVE  FibrilInv(h, rn, ready_list, event, note, timeout_list, fs)
  <2>1. FibrilInv(h, run, ready_list, event, note, timeout_list, fst) /\ fs[h] = fst[h]
    BY <1>4, <1>7, <1>9
  <2>2. /\ \A s \in Runners : rn[s].cur = h <=> run[s].cur = h
        /\ \A s \in Runners : rn[s].hand = run[s].hand
        /\ \A s \in Runners : rn[s].cur = h => rn[s].kind = run[s].kind
    BY <1>3, <1>9, Constants DEF src
  <2>3. PlaceInv(h, rn, ready_list, event, fs)
    BY <2>1, <2>2 DEF FibrilInv, PlaceInv
  <2>4. StateInv(h, rn, ready_list, event, fs)
    BY <2>1, <2>2 DEF FibrilInv, StateInv
  <2>5. EventInv(h, event, note, timeout_list, fs)
    BY <2>1 DEF FibrilInv, EventInv
  <2> QED BY <2>3, <2>4, <2>5 DEF FibrilInv
<1>10. FibrilInv(src, rn, ready_list, event, note, timeout_list, fs)
  <2>1. EventInv(src, event, note, timeout_list, fst)
    BY <1>2, <1>7 DEF FibrilInv
  <2>2. \A s \in Runners : rn[s].cur # src /\ rn[s].hand # src
    BY <1>2, <1>3, <1>8, Constants
  <2>3. PlaceInv(src, rn, ready_list, event, fs)
    BY <2>2, <1>4, <1>8 DEF PlaceInv, Gone
  <2>4. StateInv(src, rn, ready_list, event, fs)
    BY <2>2, <1>4, <1>8 DEF StateInv
  <2>5. EventInv(src, event, note, timeout_list, fs)
    BY <2>1, <1>8 DEF EventInv
  <2> QED BY <2>3, <2>4, <2>5 DEF FibrilInv
<1>11. CleanInv(fs, cl)
  <2>1. CleanInv(fst, clean) /\ dst \in Fibrils \cup Runners
    BY <1>2 DEF SchedInv, Sched
  <2>2. \A x \in Fibrils \cup Runners : clean[x] # src
    BY <2>1, <1>2, <1>8 DEF CleanInv
  <2>3. \A x \in Fibrils \cup Runners : cl[x] \in Fibrils => fs[cl[x]] = "dead"
    BY <2>1, <2>2, <1>4, <1>5 DEF CleanInv
  <2>4. \A x, y \in Fibrils \cup Runners : cl[x] = cl[y] /\ cl[x] \in Fibrils => x = y
    BY <2>1, <2>2, <1>5 DEF CleanInv
  <2> QED BY <2>3, <2>4 DEF CleanInv
<1>12. ASSUME NEW h \in Managers PROVE ManagerInv(h, event, fs, ipc_waiter_list, got)
  <2>1. ManagerInv(h, event, fst, ipc_waiter_list, got) /\ fs[h] = fst[h]
    BY <1>2, <1>4, Constants DEF SchedInv, Sched
  <2> QED BY <2>1 DEF ManagerInv
<1>13. \A h \in Fibrils : FibrilInv(h, rn, ready_list, event, note, timeout_list, fs)
  BY <1>9, <1>10
<1>14. Sched(rn, ready_list, event, note, timeout_list, fs, cl, ipc_waiter_list, got)
  BY <1>3, <1>6, <1>11, <1>12, <1>13 DEF SchedInv, Sched
<1> QED BY <1>14 DEF rn, fs, cl, src, dst

\* _handle_expired_timeouts(): who has waited too long is ready, with the
\* timeout as the result.
LEMMA ExpireMove ==
    ASSUME SchedInv, due \subseteq timeout_list,
           NEW q \in SetToSeqs({f \in due : event[f] = "waiting"})
    PROVE  Sched(run, ready_list \o q, [f \in Fibrils |-> TimedOut(f)], note, timeout_list \ due,
                 fst, clean, ipc_waiter_list, got)
<1> DEFINE W == {f \in due : event[f] = "waiting"}
           ev == [f \in Fibrils |-> TimedOut(f)]
           rl == ready_list \o q
<1>t. SchedType(run, ready_list, event, note, fst, clean, ipc_waiter_list, got)
      /\ timeout_list \subseteq Fibrils
  BY DEF SchedInv, Sched
<1>1. \A h \in Fibrils : FibrilInv(h, run, ready_list, event, note, timeout_list, fst)
  BY DEF SchedInv, Sched
<1>2. W \subseteq Fibrils /\ IsFiniteSet(W)
  <2>1. W \in SUBSET Fibrils
    BY <1>t
  <2> QED BY <2>1, Constants, FS_Subset
<1>3. q \in Seq(Fibrils) /\ ToSet(q) = W /\ IsInjective(q)
  <2>1. q \in Seq(W) /\ ToSet(q) = W /\ IsInjective(q)
    BY <1>2, ListOfSet
  <2> QED BY <2>1, <1>2
<1>4. ready_list \in Seq(Fibrils) /\ IsInjective(ready_list)
  BY <1>t DEF SchedInv, Sched, SchedType
<1>5. ToSet(ready_list) \cap ToSet(q) = {}
  <2>1. \A h \in W : h \notin ToSet(ready_list)
    BY <1>1, <1>2 DEF FibrilInv, PlaceInv
  <2> QED BY <2>1, <1>3
<1>6. rl \in Seq(Fibrils) /\ ToSet(rl) = ToSet(ready_list) \cup W /\ IsInjective(rl)
  BY <1>3, <1>4, <1>5, ConcatList
<1>7. /\ \A h \in Fibrils : ev[h] = IF h \in W THEN "timedout" ELSE event[h]
      /\ ev \in [Fibrils -> Events]
  BY <1>t DEF SchedType, TimedOut, Events
<1>8. SchedType(run, rl, ev, note, fst, clean, ipc_waiter_list, got)
  BY <1>t, <1>6, <1>7 DEF SchedType
<1>9. \A h \in W : h \in timeout_list /\ event[h] = "waiting" /\ h \notin timeout_list \ due
  OBVIOUS
<1> HIDE DEF W, ev, rl
<1>10. ASSUME NEW h \in Fibrils PROVE FibrilInv(h, run, rl, ev, note, timeout_list \ due, fst)
  <2>1. FibrilInv(h, run, ready_list, event, note, timeout_list, fst)
    BY <1>1
  <2>2. CASE h \in W
    <3>1. /\ event[h] = "waiting" /\ ev[h] = "timedout" /\ h \in ToSet(rl)
          /\ h \notin timeout_list \ due /\ fst[h] = "wait"
          /\ \A s \in Runners : run[s].cur # h /\ run[s].hand # h
      BY <2>1, <2>2, <1>6, <1>7, <1>9 DEF FibrilInv, PlaceInv, StateInv
    <3>2. PlaceInv(h, run, rl, ev, fst)
      BY <3>1 DEF PlaceInv, Gone
    <3>3. StateInv(h, run, rl, ev, fst)
      BY <3>1 DEF StateInv
    <3>4. EventInv(h, ev, note, timeout_list \ due, fst)
      BY <3>1, <2>1 DEF FibrilInv, EventInv
    <3> QED BY <3>2, <3>3, <3>4 DEF FibrilInv
  <2>3. CASE h \notin W
    <3>1. /\ ev[h] = event[h]
          /\ h \in ToSet(rl) <=> h \in ToSet(ready_list)
      BY <2>3, <1>6, <1>7
    <3>2. PlaceInv(h, run, rl, ev, fst)
      BY <3>1, <2>1 DEF FibrilInv, PlaceInv
    <3>3. StateInv(h, run, rl, ev, fst)
      BY <3>1, <2>1 DEF FibrilInv, StateInv
    <3>4. EventInv(h, ev, note, timeout_list \ due, fst)
      BY <3>1, <2>1 DEF FibrilInv, EventInv
    <3> QED BY <3>2, <3>3, <3>4 DEF FibrilInv
  <2> QED BY <2>2, <2>3
<1>11. ASSUME NEW h \in Managers PROVE ManagerInv(h, ev, fst, ipc_waiter_list, got)
  <2>1. ManagerInv(h, event, fst, ipc_waiter_list, got) /\ h \in Fibrils /\ h \notin Workers
    BY Constants DEF SchedInv, Sched
  <2>2. h \notin W
    BY <2>1, <1>1, <1>9 DEF FibrilInv, EventInv
  <2>3. ev[h] = event[h]
    BY <2>1, <2>2, <1>7
  <2> QED BY <2>1, <2>3 DEF ManagerInv
<1>12. Sched(run, rl, ev, note, timeout_list \ due, fst, clean, ipc_waiter_list, got)
  BY <1>t, <1>6, <1>8, <1>10, <1>11 DEF SchedInv, Sched
<1> QED BY <1>12 DEF ev, rl

-----------------------------------------------------------------------------
(* The actions keep the scheduler's part of the invariant.                 *)

\* _ready_list_pop() returns NULL: the helper looks at the timeouts again, a
\* fibril that yields goes on, and one that exits leaves the runner to the
\* helper.
LEMMA PopFailsRunner ==
    ASSUME SchedInv, NEW r \in Runners,
           run[r].pc \in {"down", "return", "deliver"}, PopFails(r)
    PROVE  /\ run' \in [Runners -> RunnerStates]
           /\ \A s \in Runners :
                 /\ RunnerInv(s, run'[s])
                 /\ run'[s].cur = run[s].cur
                 /\ run'[s].hand = run[s].hand \/ (run'[s].hand \notin Fibrils /\ run[s].hand \notin Fibrils)
                 /\ run'[s].kind # "none" => run[s].kind # "none"
                 /\ s # r => run'[s] = run[s]
           /\ run'[r].pc \in {"timeouts", "run", "switch"} /\ run'[r].call = "none"
<1>1. run \in [Runners -> RunnerStates] /\ \A s \in Runners : RunnerInv(s, run[s])
  BY DEF SchedInv, Sched, SchedType
<1>2. run[r].kind \in {"helper", "yield", "exit"}
  BY <1>1 DEF RunnerInv, RunnerStates
<1>3. run[r].hand = NoFibril
  BY <1>1 DEF RunnerInv
<1>4. CASE run[r].kind = "helper"
  <2>1. run' = [run EXCEPT ![r] = Runner("timeouts", r, "none")] /\ run[r].cur = r
    BY <1>1, <1>4 DEF PopFails, RunnerInv
  <2>2. Runner("timeouts", r, "none") \in RunnerStates
    BY RunnerFields
  <2>3. run'[r] = Runner("timeouts", r, "none") /\ \A s \in Runners : s # r => run'[s] = run[s]
    BY <2>1, <1>1
  <2>4. /\ run'[r].pc = "timeouts" /\ run'[r].cur = r /\ run'[r].kind = "none"
        /\ run'[r].hand = NoFibril /\ run'[r].call = "none"
    BY <2>3, RunnerFields
  <2>5. RunnerInv(r, run'[r])
    BY <2>4, Constants DEF RunnerInv
  <2> QED BY <2>1, <2>2, <2>3, <2>4, <2>5, <1>1, <1>3, Constants
<1>5. CASE run[r].kind = "yield"
  <2>1. run' = [run EXCEPT ![r] = Runner("run", run[r].cur, "none")] /\ run[r].cur \in Workers
    BY <1>1, <1>5 DEF PopFails, RunnerInv
  <2>2. Runner("run", run[r].cur, "none") \in RunnerStates
    BY <2>1, Constants, RunnerFields
  <2>3. run'[r] = Runner("run", run[r].cur, "none") /\ \A s \in Runners : s # r => run'[s] = run[s]
    BY <2>1, <1>1
  <2>4. /\ run'[r].pc = "run" /\ run'[r].cur = run[r].cur /\ run'[r].kind = "none"
        /\ run'[r].hand = NoFibril /\ run'[r].call = "none"
    BY <2>3, RunnerFields
  <2>5. RunnerInv(r, run'[r])
    BY <2>1, <2>4, Constants DEF RunnerInv
  <2> QED BY <2>1, <2>2, <2>3, <2>4, <2>5, <1>1, <1>3, Constants
<1>6. CASE run[r].kind = "exit"
  <2>1. run' = [run EXCEPT ![r] = [run[r] EXCEPT !.pc = "switch", !.hand = r, !.call = "none"]]
    BY <1>1, <1>6 DEF PopFails
  <2>2. run[r].cur \in Workers
    BY <1>1, <1>6 DEF RunnerInv
  <2>3. [run[r] EXCEPT !.pc = "switch", !.hand = r, !.call = "none"] \in RunnerStates
    BY <1>1 DEF RunnerStates, Calls
  <2>4. /\ run'[r] = [run[r] EXCEPT !.pc = "switch", !.hand = r, !.call = "none"]
        /\ \A s \in Runners : s # r => run'[s] = run[s]
    BY <2>1, <1>1
  <2>5. /\ run'[r].pc = "switch" /\ run'[r].cur = run[r].cur /\ run'[r].kind = "exit"
        /\ run'[r].hand = r /\ run'[r].call = "none"
    BY <2>4, <1>1, <1>6 DEF RunnerStates
  <2>6. RunnerInv(r, run'[r])
    BY <2>2, <2>5, Constants DEF RunnerInv
  <2> QED BY <2>1, <2>3, <2>4, <2>5, <2>6, <1>1, <1>3, <1>6, Constants
<1> QED BY <1>2, <1>4, <1>5, <1>6

\* Steps of one runner that leave the fibrils where they are.
LEMMA QuietRunner ==
    ASSUME SchedInv, NEW r \in Runners, run' \in [Runners -> RunnerStates],
           \A s \in Runners : s # r => run'[s] = run[s],
           RunnerInv(r, run'[r]), run'[r].cur = run[r].cur,
           run'[r].hand = run[r].hand \/ (run'[r].hand \notin Fibrils /\ run[r].hand \notin Fibrils),
           run[r].cur \in Fibrils /\ run'[r].kind # "none"
              => run[r].kind # "none" \/ fst[run[r].cur] = "user",
           UNCHANGED <<ready_list, event, note, timeout_list, fst, clean, ipc_waiter_list, got>>
    PROVE  SchedInv'
<1>1. \A s \in Runners :
          /\ RunnerInv(s, run'[s])
          /\ run'[s].cur = run[s].cur
          /\ run'[s].hand = run[s].hand \/ (run'[s].hand \notin Fibrils /\ run[s].hand \notin Fibrils)
          /\ run[s].cur \in Fibrils /\ run'[s].kind # "none"
                => run[s].kind # "none" \/ fst[run[s].cur] = "user"
  BY DEF SchedInv, Sched
<1>2. Sched(run', ready_list, event, note, timeout_list, fst, clean, ipc_waiter_list, got)
  BY <1>1, RunnersMove DEF SchedInv
<1> QED BY <1>2 DEF SchedInv

LEMMA PopNonblockingSched ==
    ASSUME SchedInv, NEW r \in Runners, NEW f \in Workers, NEW kind \in {"yield", "exit"},
           PopNonblocking(r, f, kind)
    PROVE  SchedInv'
<1>1. run \in [Runners -> RunnerStates] /\ RunnerInv(r, run[r])
  BY DEF SchedInv, Sched, SchedType
<1>2. run[r].pc = "run" /\ run[r].cur = f /\ fst[f] = "user"
  BY DEF PopNonblocking, Runs
<1>3. run' = [run EXCEPT ![r].pc = "down", ![r].kind = kind]
  BY DEF PopNonblocking
<1>4. \A s \in Runners : s # r => run'[s] = run[s]
  BY <1>1, <1>3
<1>5. run'[r] = [run[r] EXCEPT !.pc = "down", !.kind = kind]
  BY <1>1, <1>3
<1>6. run'[r] \in RunnerStates
  BY <1>1, <1>5 DEF RunnerStates
<1>7. /\ run'[r].pc = "down" /\ run'[r].kind = kind /\ run'[r].cur = f
      /\ run'[r].hand = run[r].hand /\ run'[r].call = run[r].call
  BY <1>1, <1>2, <1>5 DEF RunnerStates
<1>8. RunnerInv(r, run'[r])
  BY <1>1, <1>2, <1>7 DEF RunnerInv
<1>9. run' \in [Runners -> RunnerStates]
  BY <1>1, <1>3, <1>4, <1>6
<1>10. UNCHANGED <<ready_list, event, note, timeout_list, fst, clean, ipc_waiter_list, got>>
  BY DEF PopNonblocking, fibrilVars, ipcVars
<1> QED BY <1>2, <1>4, <1>7, <1>8, <1>9, <1>10, QuietRunner

\* A step that changes the pc of a runner and what it has received.
LEMMA PcStep ==
    ASSUME SchedInv, NEW r \in Runners, run[r].kind # "none", run[r].pc # "switch",
           NEW p \in {"pop", "ipc", "leave", "return", "deliver"}, NEW c \in Calls,
           (run' = [run EXCEPT ![r].pc = p] /\ c = run[r].call)
              \/ run' = [run EXCEPT ![r].pc = p, ![r].call = c],
           c # "none" => p \in {"leave", "deliver"}, p = "deliver" => c # "none"
    PROVE  /\ run' \in [Runners -> RunnerStates]
           /\ \A s \in Runners : s # r => run'[s] = run[s]
           /\ RunnerInv(r, run'[r]) /\ run'[r].cur = run[r].cur
           /\ run'[r].hand = run[r].hand /\ run'[r].kind = run[r].kind
           /\ run'[r].pc = p /\ run'[r].call = c
<1>1. run \in [Runners -> RunnerStates] /\ RunnerInv(r, run[r])
  BY DEF SchedInv, Sched, SchedType
<1>2. \A s \in Runners : s # r => run'[s] = run[s]
  BY <1>1
<1>3. (run'[r] = [run[r] EXCEPT !.pc = p] /\ c = run[r].call)
         \/ run'[r] = [run[r] EXCEPT !.pc = p, !.call = c]
  BY <1>1
<1>4. run'[r] \in RunnerStates
  BY <1>1, <1>3 DEF RunnerStates
<1>5. /\ run'[r].pc = p /\ run'[r].kind = run[r].kind /\ run'[r].cur = run[r].cur
      /\ run'[r].hand = run[r].hand /\ run'[r].call = c
  BY <1>1, <1>3 DEF RunnerStates
<1>6. RunnerInv(r, run'[r])
  BY <1>1, <1>5 DEF RunnerInv
<1>7. run' \in [Runners -> RunnerStates]
  BY <1>1, <1>2, <1>4
<1> QED BY <1>2, <1>5, <1>6, <1>7

LEMMA DownSched ==
    ASSUME SchedInv, NEW r \in Runners, Down(r)
    PROVE  SchedInv'
<1>1. run \in [Runners -> RunnerStates] /\ RunnerInv(r, run[r])
  BY DEF SchedInv, Sched, SchedType
<1>2. run[r].pc = "down" /\ run[r].kind # "none" /\ run[r].call = "none"
  BY <1>1 DEF Down, RunnerInv
<1>3. UNCHANGED <<ready_list, event, note, timeout_list, fst, clean, ipc_waiter_list, got>>
  BY DEF Down, fibrilVars, ipcVars
<1>4. CASE run' = [run EXCEPT ![r].pc = "pop"]
  <2>1. run[r].call \in Calls
    BY <1>1 DEF RunnerStates
  <2> QED BY <1>2, <1>3, <1>4, <2>1, PcStep, QuietRunner, ZenonT(60)
<1>5. CASE PopFails(r)
  BY <1>2, <1>3, <1>5, PopFailsRunner, QuietRunner
<1> QED BY <1>4, <1>5 DEF Down

\* The record of a runner that has taken a fibril in its hand.
LEMMA HandFields ==
    ASSUME NEW x \in RunnerStates, NEW h \in Fibrils
    PROVE  /\ [x EXCEPT !.pc = "switch", !.hand = h] \in RunnerStates
           /\ [x EXCEPT !.pc = "switch", !.hand = h, !.call = "none"] \in RunnerStates
  BY DEF RunnerStates, Calls

LEMMA PopSched ==
    ASSUME SchedInv, NEW r \in Runners, Pop(r)
    PROVE  SchedInv'
<1>1. run \in [Runners -> RunnerStates] /\ RunnerInv(r, run[r])
  BY DEF SchedInv, Sched, SchedType
<1>2. /\ run[r].pc = "pop" /\ run[r].kind # "none" /\ run[r].call = "none"
      /\ run[r].hand = NoFibril
  BY <1>1 DEF Pop, RunnerInv
<1>3. UNCHANGED <<event, note, timeout_list, fst, clean, ipc_waiter_list, got>>
  BY DEF Pop, fibrilVars, ipcVars
<1>4. CASE ready_list = <<>>
  <2>1. run' = [run EXCEPT ![r].pc = "ipc"] /\ UNCHANGED ready_list
    BY <1>4 DEF Pop
  <2>2. run[r].call \in Calls
    BY <1>1 DEF RunnerStates
  <2> QED BY <1>2, <1>3, <2>1, <2>2, PcStep, QuietRunner, ZenonT(60)
<1>5. CASE ready_list # <<>>
  <2> DEFINE x == [run[r] EXCEPT !.pc = "switch", !.hand = Head(ready_list)]
  <2>1. ready_list' = Tail(ready_list) /\ run' = [run EXCEPT ![r] = x]
    BY <1>1, <1>5 DEF Pop
  <2>2. Head(ready_list) \in Fibrils
    <3>1. ready_list \in Seq(Fibrils)
      BY DEF SchedInv, Sched, SchedType
    <3> QED BY <3>1, <1>5, TailList
  <2>3. x \in RunnerStates
    BY <1>1, <2>2, HandFields
  <2>4. /\ x.pc = "switch" /\ x.cur = run[r].cur /\ x.kind = run[r].kind
        /\ x.hand = Head(ready_list) /\ x.call = run[r].call
    BY <1>1 DEF RunnerStates
  <2> HIDE DEF x
  <2>5. RunnerInv(r, x)
    BY <1>1, <1>2, <2>2, <2>4, Constants DEF RunnerInv
  <2>6. Sched([run EXCEPT ![r] = x], Tail(ready_list), event, note, timeout_list, fst, clean,
              ipc_waiter_list, got)
    BY <1>2, <1>5, <2>3, <2>4, <2>5, Constants, TakeReady DEF SchedInv
  <2> QED BY <2>1, <2>6, <1>3 DEF SchedInv
<1> QED BY <1>4, <1>5

LEMMA IpcWaitSched ==
    ASSUME SchedInv, NEW r \in Runners, IpcWait(r)
    PROVE  SchedInv'
<1>1. run \in [Runners -> RunnerStates] /\ RunnerInv(r, run[r])
  BY DEF SchedInv, Sched, SchedType
<1>2. /\ run[r].pc = "ipc" /\ run[r].kind # "none" /\ run[r].call = "none"
      /\ "none" \in Calls /\ Received \in Calls
  BY <1>1 DEF IpcWait, RunnerInv, Received, Calls
<1>3. UNCHANGED <<ready_list, event, note, timeout_list, fst, clean, ipc_waiter_list, got>>
  BY DEF IpcWait, fibrilVars, ipcVars
<1>4. CASE run' = [run EXCEPT ![r].pc = "leave", ![r].call = Received]
  BY <1>2, <1>3, <1>4, PcStep, QuietRunner
<1>5. CASE run' = [run EXCEPT ![r].pc = "leave"]
  BY <1>2, <1>3, <1>5, PcStep, QuietRunner
<1> QED BY <1>4, <1>5 DEF IpcWait

LEMMA LeaveIpcSched ==
    ASSUME SchedInv, NEW r \in Runners, LeaveIpc(r)
    PROVE  SchedInv'
<1>1. run \in [Runners -> RunnerStates] /\ RunnerInv(r, run[r])
  BY DEF SchedInv, Sched, SchedType
<1>2. run[r].pc = "leave" /\ run[r].kind # "none" /\ run[r].call \in Calls
  BY <1>1 DEF LeaveIpc, RunnerInv, RunnerStates
<1>3. UNCHANGED <<ready_list, event, note, timeout_list, fst, clean, ipc_waiter_list, got>>
  BY DEF LeaveIpc, fibrilVars, ipcVars
<1>4. CASE run[r].call = "none"
  <2>1. run' = [run EXCEPT ![r].pc = "return"]
    BY <1>4 DEF LeaveIpc
  <2>2. /\ run' \in [Runners -> RunnerStates]
        /\ \A s \in Runners : s # r => run'[s] = run[s]
        /\ RunnerInv(r, run'[r]) /\ run'[r].cur = run[r].cur
        /\ run'[r].hand = run[r].hand /\ run'[r].kind = run[r].kind
    BY <1>2, <1>4, <2>1, PcStep
  <2> QED BY <1>2, <1>3, <2>2, QuietRunner
<1>5. CASE run[r].call # "none"
  <2>1. run' = [run EXCEPT ![r].pc = "deliver"]
    BY <1>5 DEF LeaveIpc
  <2> QED BY <1>2, <1>3, <1>5, <2>1, PcStep, QuietRunner
<1> QED BY <1>4, <1>5

LEMMA ReturnTokenSched ==
    ASSUME SchedInv, NEW r \in Runners, ReturnToken(r) \/ DeliverToBuffer(r)
    PROVE  SchedInv'
<1>1. run[r].pc \in {"return", "deliver"} /\ PopFails(r)
  BY DEF ReturnToken, DeliverToBuffer
<1>2. UNCHANGED <<ready_list, event, note, timeout_list, fst, clean, ipc_waiter_list, got>>
  BY DEF ReturnToken, DeliverToBuffer, fibrilVars, ipcVars
<1> QED BY <1>1, <1>2, PopFailsRunner, QuietRunner

LEMMA SpawnRunnersSched ==
    ASSUME SchedInv, NEW r \in Runners, NEW f \in Workers, SpawnRunners(r, f)
    PROVE  SchedInv'
<1>1. run \in [Runners -> RunnerStates] /\ \A s \in Runners : RunnerInv(s, run[s])
  BY DEF SchedInv, Sched, SchedType
<1>2. \A s \in Runners : run'[s] = IF run[s].pc = "off" THEN Runner("timeouts", s, "none") ELSE run[s]
  BY DEF SpawnRunners
<1>3. \A s \in Runners : Runner("timeouts", s, "none") \in RunnerStates
  BY RunnerFields
<1>4. run' \in [Runners -> RunnerStates]
  BY <1>1, <1>3 DEF SpawnRunners
<1>5. ASSUME NEW s \in Runners
      PROVE  /\ RunnerInv(s, run'[s])
             /\ run'[s].cur = run[s].cur
             /\ run'[s].hand = run[s].hand \/ (run'[s].hand \notin Fibrils /\ run[s].hand \notin Fibrils)
             /\ run[s].cur \in Fibrils /\ run'[s].kind # "none"
                   => run[s].kind # "none" \/ fst[run[s].cur] = "user"
  <2>1. CASE run[s].pc = "off"
    <3>1. /\ run'[s].pc = "timeouts" /\ run'[s].cur = s /\ run'[s].kind = "none"
          /\ run'[s].hand = NoFibril /\ run'[s].call = "none"
      BY <2>1, <1>2, RunnerFields
    <3>2. RunnerInv(s, run[s])
      BY <1>1
    <3> QED BY <3>1, <3>2, <2>1, Constants DEF RunnerInv
  <2>2. CASE run[s].pc # "off"
    BY <2>2, <1>1, <1>2
  <2> QED BY <2>1, <2>2
<1>6. UNCHANGED <<ready_list, event, note, timeout_list, fst, clean, ipc_waiter_list, got>>
  BY DEF SpawnRunners, fibrilVars, ipcVars
<1>7. Sched(run', ready_list, event, note, timeout_list, fst, clean, ipc_waiter_list, got)
  BY <1>4, <1>5, RunnersMove DEF SchedInv
<1> QED BY <1>6, <1>7 DEF SchedInv

LEMMA HandleExpiredTimeoutsSched ==
    ASSUME SchedInv, due \subseteq timeout_list, NEW r \in Runners, HandleExpiredTimeouts(r)
    PROVE  SchedInv'
<1>1. run \in [Runners -> RunnerStates] /\ RunnerInv(r, run[r]) /\ timeout_list \subseteq Fibrils
  BY DEF SchedInv, Sched, SchedType
<1>2. run[r].pc = "timeouts" /\ run[r].cur = r /\ run[r].kind = "none" /\ run[r].hand = NoFibril
  BY <1>1 DEF HandleExpiredTimeouts, RunnerInv
<1>3. PICK q \in SetToSeqs({f \in due : event[f] = "waiting"}) : ReadyListPush(q)
  BY DEF HandleExpiredTimeouts
<1>4. PICK next \in NextTimeout(RemainingTimeouts) :
          run' = [run EXCEPT ![r] = [Runner("down", r, "helper") EXCEPT !.to = next]]
  BY DEF HandleExpiredTimeouts
<1>5. next \in Fibrils \cup {NoFibril}
  BY <1>1 DEF NextTimeout, RemainingTimeouts
<1> DEFINE x == [Runner("down", r, "helper") EXCEPT !.to = next]
<1>6. /\ x \in RunnerStates /\ x.pc = "down" /\ x.cur = r /\ x.kind = "helper"
      /\ x.hand = NoFibril /\ x.call = "none"
  BY <1>5 DEF Runner, RunnerStates, Calls
<1> HIDE DEF x
<1>7. run' = [run EXCEPT ![r] = x]
  BY <1>4 DEF x
<1>8. /\ run' \in [Runners -> RunnerStates]
      /\ run'[r] = x
      /\ \A s \in Runners : s # r => run'[s] = run[s]
  BY <1>1, <1>6, <1>7
<1>9. RunnerInv(r, x)
  BY <1>6, Constants DEF RunnerInv
<1>10. Sched(run, ready_list \o q, [f \in Fibrils |-> TimedOut(f)], note, timeout_list \ due,
             fst, clean, ipc_waiter_list, got)
  BY ExpireMove
<1>11. ASSUME NEW s \in Runners
       PROVE  /\ RunnerInv(s, run'[s])
              /\ run'[s].cur = run[s].cur
              /\ run'[s].hand = run[s].hand
              /\ run[s].cur \in Fibrils /\ run'[s].kind # "none"
                    => run[s].kind # "none" \/ fst[run[s].cur] = "user"
  <2>1. CASE s = r
    BY <2>1, <1>2, <1>6, <1>8, <1>9, Constants
  <2>2. CASE s # r
    BY <2>2, <1>8 DEF SchedInv, Sched
  <2> QED BY <2>1, <2>2
<1>12. Sched(run', ready_list \o q, [f \in Fibrils |-> TimedOut(f)], note, timeout_list \ due,
             fst, clean, ipc_waiter_list, got)
  BY <1>8, <1>10, <1>11, RunnersMove
<1>13. /\ ready_list' = ready_list \o q /\ event' = [f \in Fibrils |-> TimedOut(f)]
       /\ timeout_list' = timeout_list \ due
       /\ UNCHANGED <<note, fst, clean, ipc_waiter_list, got>>
  BY <1>3 DEF HandleExpiredTimeouts, ReadyListPush, RemainingTimeouts, ipcVars
<1> QED BY <1>12, <1>13 DEF SchedInv

LEMMA DeliverToWaiterSched ==
    ASSUME SchedInv, NEW r \in Runners, DeliverToWaiter(r)
    PROVE  SchedInv'
<1> DEFINE w == Head(ipc_waiter_list)
           c == run[r].call
           ev == [event EXCEPT ![w] = "triggered"]
           nt == [note EXCEPT ![w] = TRUE]
           gt == [got EXCEPT ![w] = c]
<1>1. run \in [Runners -> RunnerStates] /\ RunnerInv(r, run[r])
  BY DEF SchedInv, Sched, SchedType
<1>2. /\ run[r].pc = "deliver" /\ run[r].kind # "none" /\ run[r].hand = NoFibril
      /\ c \in Calls /\ ipc_waiter_list # <<>>
  BY <1>1 DEF DeliverToWaiter, RunnerInv, RunnerStates
<1>3. w \in Fibrils
  <2>1. ipc_waiter_list \in Seq(Managers)
    BY DEF SchedInv, Sched, SchedType
  <2>2. w \in Managers
    BY <2>1, <1>2, TailList
  <2> QED BY <2>2, Constants
<1>4. /\ event' = ev /\ note' = nt /\ got' = gt /\ ipc_waiter_list' = Tail(ipc_waiter_list)
      /\ UNCHANGED <<ready_list, timeout_list, fst, clean>>
  BY DEF DeliverToWaiter, HandOver
<1> HIDE DEF w, c
<1>5. w = Head(ipc_waiter_list)
  BY DEF w
<1>6. CASE event[w] = "waiting"
  <2>1. run' = [run EXCEPT ![r].pc = "switch", ![r].hand = w, ![r].call = "none"]
    BY <1>6 DEF DeliverToWaiter, ContinueWith, w
  <2>2. /\ run'[r] = [run[r] EXCEPT !.pc = "switch", !.hand = w, !.call = "none"]
        /\ \A s \in Runners : s # r => run'[s] = run[s]
    BY <2>1, <1>1
  <2>3. run'[r] \in RunnerStates
    <3>1. run[r] \in RunnerStates
      BY <1>1
    <3>2. [run[r] EXCEPT !.pc = "switch", !.hand = w, !.call = "none"] \in RunnerStates
      BY <3>1, <1>3, HandFields
    <3> QED BY <3>2, <2>2
  <2>4. run' \in [Runners -> RunnerStates]
    BY <2>1, <2>2, <2>3, <1>1
  <2>5. /\ run'[r].pc = "switch" /\ run'[r].cur = run[r].cur /\ run'[r].kind = run[r].kind
        /\ run'[r].hand = w /\ run'[r].call = "none"
    BY <2>2, <1>1 DEF RunnerStates
  <2>6. RunnerInv(r, run'[r])
    BY <2>5, <1>1, <1>2, <1>3, Constants DEF RunnerInv
  <2>7. Sched(run', ready_list, ev, nt, timeout_list, fst, clean, Tail(ipc_waiter_list), gt)
    <3>1. /\ event[w] = "waiting" /\ run[r].hand \notin Fibrils /\ run[r].kind # "none"
          /\ run'[r].cur = run[r].cur /\ run'[r].kind = run[r].kind /\ run'[r].hand = w
      BY <2>5, <1>2, <1>6, Constants
    <3>2. c \in Calls /\ ipc_waiter_list # <<>> /\ \A s \in Runners : s # r => run'[s] = run[s]
      BY <2>2, <1>2
    <3> QED BY <3>1, <3>2, <2>4, <2>6, <1>5, Trigger DEF SchedInv
  <2> QED BY <2>7, <1>4 DEF SchedInv
<1>7. CASE event[w] # "waiting"
  <2>1. PopFails(r)
    BY <1>7 DEF DeliverToWaiter, ContinueWith, w
  <2>2. Sched(run, ready_list, ev, nt, timeout_list, fst, clean, Tail(ipc_waiter_list), gt)
    BY <1>1, <1>2, <1>5, <1>7, Trigger DEF SchedInv
  <2>3. /\ run' \in [Runners -> RunnerStates]
        /\ \A s \in Runners :
              /\ RunnerInv(s, run'[s])
              /\ run'[s].cur = run[s].cur
              /\ run'[s].hand = run[s].hand \/ (run'[s].hand \notin Fibrils /\ run[s].hand \notin Fibrils)
              /\ run'[s].kind # "none" => run[s].kind # "none"
    BY <2>1, <1>2, PopFailsRunner
  <2>4. Sched(run', ready_list, ev, nt, timeout_list, fst, clean, Tail(ipc_waiter_list), gt)
    BY <2>2, <2>3, RunnersMove
  <2> QED BY <2>4, <1>4 DEF SchedInv
<1> QED BY <1>6, <1>7

LEMMA SwitchSched ==
    ASSUME SchedInv, NEW r \in Runners, Switch(r)
    PROVE  SchedInv'
<1> DEFINE src == run[r].cur
           dst == run[r].hand
           rn == [run EXCEPT ![r] = HelperWith(r, dst)]
<1>1. run \in [Runners -> RunnerStates] /\ RunnerInv(r, run[r])
  BY DEF SchedInv, Sched, SchedType
<1>2. run[r].pc = "switch" /\ dst \in Fibrils \cup {r}
  BY <1>1, Constants DEF Switch, RunnerInv
<1>3. UNCHANGED <<ipc_waiter_list, got>>
  BY DEF Switch, ipcVars
<1>4. /\ rn[r].pc = "switch" /\ rn[r].cur = r /\ rn[r].hand = dst
      /\ \A s \in Runners : s # r => run[s] = rn[s]
  BY <1>1, <1>2, HelperFields
<1>5. CASE run[r].kind = "helper"
  <2>1. /\ SwitchTo(r, dst, event, note, timeout_list, fst, clean)
        /\ UNCHANGED ready_list
    BY <1>5 DEF Switch
  <2>2. run[r].cur = r
    BY <1>1, <1>5 DEF RunnerInv
  <2>3. Sched(run', ready_list, event', note', timeout_list', fst', clean', ipc_waiter_list, got)
    BY <2>1, <2>2, <1>1, <1>2, Enter DEF SchedInv
  <2> QED BY <2>1, <2>3, <1>3 DEF SchedInv
<1>6. CASE run[r].kind = "yield"
  <2>1. /\ SwitchTo(r, dst, event, note, timeout_list, fst, clean)
        /\ ready_list' = ready_list \o <<src>>
    BY <1>6 DEF Switch, ReadyListPush
  <2>2. Sched(rn, ready_list \o <<src>>, event, note, timeout_list, fst, clean, ipc_waiter_list, got)
    BY <1>2, <1>6, YieldMove
  <2> HIDE DEF rn, src, dst
  <2>3. Sched(run', ready_list \o <<src>>, event', note', timeout_list', fst', clean',
              ipc_waiter_list, got)
    BY <2>1, <2>2, <1>1, <1>4, Enter
  <2> QED BY <2>1, <2>3, <1>3 DEF SchedInv
<1>7. CASE run[r].kind = "exit"
  <2> DEFINE fs == [fst EXCEPT ![src] = "dead"]
             cl == [clean EXCEPT ![dst] = src]
  <2>1. /\ SwitchTo(r, dst, event, note, timeout_list, fs, cl)
        /\ UNCHANGED ready_list
    BY <1>7 DEF Switch
  <2>2. Sched(rn, ready_list, event, note, timeout_list, fs, cl, ipc_waiter_list, got)
    BY <1>2, <1>7, ExitMove
  <2> HIDE DEF rn, src, dst, fs, cl
  <2>3. Sched(run', ready_list, event', note', timeout_list', fst', clean', ipc_waiter_list, got)
    BY <2>1, <2>2, <1>1, <1>4, Enter
  <2> QED BY <2>1, <2>3, <1>3 DEF SchedInv
<1> QED BY <1>5, <1>6, <1>7 DEF Switch

\* fibril_wait_timeout() has to block: the helper gets the runner, a ready
\* fibril, or a manager to which a call has been handed.
LEMMA BlockSched ==
    ASSUME SchedInv, NEW r \in Runners, NEW f \in Fibrils, NEW expires \in BOOLEAN,
           MayWait(r, f, expires), event[f] = "initial"
    PROVE  LET ev == [event EXCEPT ![f] = "waiting"]
               tm == IF expires THEN timeout_list \cup {f} ELSE timeout_list
               fs == [fst EXCEPT ![f] = "wait"]
           IN  Sched([run EXCEPT ![r] = HelperWith(r, r)], ready_list, ev, note, tm, fs, clean,
                     ipc_waiter_list, got)
<1> DEFINE tm == IF expires THEN timeout_list \cup {f} ELSE timeout_list
<1>1. /\ run[r].pc = "run" /\ run[r].cur = f
      /\ fst[f] = "linked" \/ f \in Workers
      /\ expires => f \in Workers
  BY DEF MayWait, Runs
<1>2. tm = timeout_list \/ (tm = timeout_list \cup {f} /\ f \in Workers)
  BY <1>1
<1> HIDE DEF tm
<1>3. Sched([run EXCEPT ![r] = HelperWith(r, r)], ready_list,
            [event EXCEPT ![f] = "waiting"], note, tm, [fst EXCEPT ![f] = "wait"],
            clean, ipc_waiter_list, got)
  BY <1>1, <1>2, Block
<1> QED BY <1>3 DEF tm

LEMMA WaitHelperSched ==
    ASSUME SchedInv, NEW r \in Runners, NEW f \in Fibrils, NEW expires \in BOOLEAN,
           MayWait(r, f, expires), WaitHelper(r, f, expires) \/ WaitBuffer(r, f, expires)
    PROVE  SchedInv'
<1> DEFINE ev == [event EXCEPT ![f] = "waiting"]
           tm == IF expires THEN timeout_list \cup {f} ELSE timeout_list
           fs == [fst EXCEPT ![f] = "wait"]
           rn == [run EXCEPT ![r] = HelperWith(r, r)]
<1>1. /\ event[f] = "initial"
      /\ SwitchTo(r, r, ev, note, tm, fs, clean)
      /\ UNCHANGED <<ready_list, ipc_waiter_list, got>>
  BY DEF WaitHelper, WaitBuffer, BlockAndSwitch, ipcVars
<1>2. Sched(rn, ready_list, ev, note, tm, fs, clean, ipc_waiter_list, got)
  BY <1>1, BlockSched
<1>3. run \in [Runners -> RunnerStates]
  BY DEF SchedInv, Sched, SchedType
<1>4. /\ rn[r].pc = "switch" /\ rn[r].cur = r /\ rn[r].hand = r
      /\ \A s \in Runners : s # r => run[s] = rn[s]
  BY <1>3, HelperFields
<1> HIDE DEF ev, tm, fs, rn
<1>5. Sched(run', ready_list, event', note', timeout_list', fst', clean', ipc_waiter_list, got)
  BY <1>1, <1>2, <1>3, <1>4, Enter
<1> QED BY <1>1, <1>5 DEF SchedInv

LEMMA WaitSwitchSched ==
    ASSUME SchedInv, NEW r \in Runners, NEW f \in Fibrils, NEW expires \in BOOLEAN,
           MayWait(r, f, expires), WaitSwitch(r, f, expires)
    PROVE  SchedInv'
<1> DEFINE ev == [event EXCEPT ![f] = "waiting"]
           tm == IF expires THEN timeout_list \cup {f} ELSE timeout_list
           fs == [fst EXCEPT ![f] = "wait"]
           dst == Head(ready_list)
           rn == [run EXCEPT ![r] = HelperWith(r, r)]
           rn2 == [run EXCEPT ![r] = HelperWith(r, dst)]
<1>1. /\ event[f] = "initial" /\ ready_list # <<>>
      /\ SwitchTo(r, dst, ev, note, tm, fs, clean)
      /\ ready_list' = Tail(ready_list)
      /\ UNCHANGED <<ipc_waiter_list, got>>
  BY DEF WaitSwitch, BlockAndSwitch, ipcVars
<1>2. dst \in Fibrils
  <2>1. ready_list \in Seq(Fibrils)
    BY DEF SchedInv, Sched, SchedType
  <2> QED BY <2>1, <1>1, TailList
<1> HIDE DEF dst
<1>a. run \in [Runners -> RunnerStates]
  BY DEF SchedInv, Sched, SchedType
<1>b. Sched(rn, ready_list, ev, note, tm, fs, clean, ipc_waiter_list, got)
  BY <1>1, BlockSched
<1>3. rn[r].hand = r /\ rn[r].kind = "helper" /\ rn[r].cur = r
  BY <1>a, HelperFields
<1>4. /\ rn2 \in [Runners -> RunnerStates]
      /\ rn2[r].pc = "switch" /\ rn2[r].cur = r /\ rn2[r].hand = dst
      /\ rn2[r].kind = "helper" /\ RunnerInv(r, rn2[r])
      /\ \A s \in Runners : s # r => run[s] = rn2[s]
  BY <1>a, <1>2, HelperFields
<1>5. rn2 = [rn EXCEPT ![r] = rn2[r]]
  BY <1>a
<1> HIDE DEF ev, tm, fs, rn, rn2
<1>6. Sched([rn EXCEPT ![r] = rn2[r]], Tail(ready_list), ev, note, tm, fs, clean, ipc_waiter_list, got)
  <2>1. rn2[r] \in RunnerStates /\ rn[r].hand \notin Fibrils /\ rn[r].kind # "none"
    BY <1>3, <1>4, Constants
  <2>2. rn2[r].cur = rn[r].cur /\ rn2[r].kind = rn[r].kind /\ rn2[r].hand = Head(ready_list)
    BY <1>3, <1>4 DEF dst
  <2> QED BY <2>1, <2>2, <1>1, <1>b, <1>4, TakeReady
<1>7. Sched(rn2, Tail(ready_list), ev, note, tm, fs, clean, ipc_waiter_list, got)
  BY <1>5, <1>6
<1>8. Sched(run', Tail(ready_list), event', note', timeout_list', fst', clean', ipc_waiter_list, got)
  BY <1>1, <1>a, <1>4, <1>7, Enter
<1> QED BY <1>1, <1>8 DEF SchedInv

LEMMA WaitDeliverSched ==
    ASSUME SchedInv, NEW r \in Runners, NEW f \in Fibrils, NEW expires \in BOOLEAN,
           MayWait(r, f, expires), WaitDeliver(r, f, expires)
    PROVE  SchedInv'
<1> DEFINE w == Head(ipc_waiter_list)
           gt == [got EXCEPT ![w] = Received]
<1>t. SchedType(run, ready_list, event, note, fst, clean, ipc_waiter_list, got)
      /\ IsInjective(ipc_waiter_list)
  BY DEF SchedInv, Sched
<1>a. run \in [Runners -> RunnerStates] /\ ipc_waiter_list \in Seq(Managers)
  BY <1>t DEF SchedType
<1>1. /\ event[f] = "initial" /\ ipc_waiter_list # <<>>
      /\ got' = gt /\ ipc_waiter_list' = Tail(ipc_waiter_list) /\ UNCHANGED ready_list
  BY DEF WaitDeliver
<1>2. /\ w \in Managers /\ w \in Fibrils
      /\ Tail(ipc_waiter_list) \in Seq(Managers) /\ IsInjective(Tail(ipc_waiter_list))
      /\ w \in ToSet(ipc_waiter_list)
      /\ ToSet(Tail(ipc_waiter_list)) = ToSet(ipc_waiter_list) \ {w}
  BY <1>t, <1>a, <1>1, TailList, Constants
<1>3. Received \in Calls
  BY DEF Received, Calls
<1>4. CASE w = f
  <2>1. /\ fst' = Returned(f)
        /\ UNCHANGED <<event, note, timeout_list, clean, run>>
    BY <1>4 DEF WaitDeliver
  <2>2. run[r].pc = "run" /\ run[r].cur = f
    BY DEF MayWait, Runs
  <2>3. /\ fst'[f] = "handle" /\ \A g \in Fibrils : g # f => fst'[g] = fst[g]
        /\ fst' \in [Fibrils -> States]
    BY <2>1, <1>t, <1>2, <1>4 DEF Returned, SchedType, States
  <2>4. gt \in [Managers -> Calls] /\ \A g \in Managers : g # w => gt[g] = got[g]
    BY <1>t, <1>2, <1>3 DEF SchedType
  <2> HIDE DEF w, gt
  <2>5. ASSUME NEW g \in Managers PROVE ManagerInv(g, event, fst', Tail(ipc_waiter_list), gt)
    <3>1. ManagerInv(g, event, fst, ipc_waiter_list, got) /\ g \in Fibrils
      BY Constants DEF SchedInv, Sched
    <3>2. CASE g = f
      BY <3>1, <3>2, <2>3, <1>1, <1>2, <1>4 DEF ManagerInv
    <3>3. CASE g # f
      BY <3>1, <3>3, <2>3, <2>4, <1>2, <1>4 DEF ManagerInv
    <3> QED BY <3>2, <3>3
  <2>6. event \in [Fibrils -> Events] /\ note \in [Fibrils -> BOOLEAN]
    BY <1>t DEF SchedType
  <2>7. event[f] = "initial" /\ note[f] = (event[f] = "triggered")
    BY <1>1 DEF SchedInv, Sched, FibrilInv, EventInv
  <2>8. Sched(run, ready_list, event, note, timeout_list, fst', clean, Tail(ipc_waiter_list), gt)
    BY <2>2, <2>3, <2>4, <2>5, <2>6, <2>7, <1>2, <1>4, OwnMove
  <2> QED BY <2>1, <2>8, <1>1 DEF SchedInv
<1>5. CASE w # f
  <2> DEFINE dst == IF event[w] = "waiting" THEN w ELSE r
             triggered == [event EXCEPT ![w] = "triggered"]
             nt == [note EXCEPT ![w] = TRUE]
             ev == [event EXCEPT ![f] = "waiting"]
             ev2 == [triggered EXCEPT ![f] = "waiting"]
             tm == IF expires THEN timeout_list \cup {f} ELSE timeout_list
             fs == [fst EXCEPT ![f] = "wait"]
             rn == [run EXCEPT ![r] = HelperWith(r, r)]
             rn2 == [run EXCEPT ![r] = HelperWith(r, dst)]
  <2>1. SwitchTo(r, dst, ev2, nt, tm, fs, clean)
    BY <1>5 DEF WaitDeliver, BlockAndSwitch
  <2>2. ev2 = [ev EXCEPT ![w] = "triggered"] /\ ev[w] = event[w]
    BY <1>t, <1>2, <1>5 DEF SchedType
  <2>3. Sched(rn, ready_list, ev, note, tm, fs, clean, ipc_waiter_list, got)
    BY <1>1, BlockSched
  <2>4. dst \in Fibrils \cup {r} /\ r \in Fibrils \cup {r}
    BY <1>2
  <2>5. /\ rn = [run EXCEPT ![r] = HelperWith(r, r)]
        /\ rn2 = [run EXCEPT ![r] = HelperWith(r, dst)]
        /\ event[w] # "waiting" => rn2 = rn
        /\ event[w] = "waiting" => dst = w
        /\ w = Head(ipc_waiter_list)
    OBVIOUS
  <2> HIDE DEF w, dst
  <2>6. /\ rn[r].hand = r /\ rn[r].kind = "helper" /\ rn[r].cur = r
        /\ \A s \in Runners : s # r => run[s] = rn[s]
    BY <1>a, HelperFields
  <2>7. /\ rn2 \in [Runners -> RunnerStates]
        /\ rn2[r].pc = "switch" /\ rn2[r].cur = r /\ rn2[r].hand = dst
        /\ rn2[r].kind = "helper" /\ RunnerInv(r, rn2[r])
        /\ \A s \in Runners : s # r => run[s] = rn2[s]
    BY <2>4, <1>a, HelperFields
  <2> HIDE DEF rn, rn2
  <2>8. \/ ev[w] # "waiting" /\ rn2[r] = rn[r]
        \/ /\ ev[w] = "waiting" /\ rn[r].hand \notin Fibrils /\ rn[r].kind # "none"
           /\ rn2[r].cur = rn[r].cur /\ rn2[r].kind = rn[r].kind /\ rn2[r].hand = w
    BY <2>2, <2>5, <2>6, <2>7, Constants
  <2>9. \A s \in Runners : s # r => rn2[s] = rn[s]
    BY <2>6, <2>7
  <2> HIDE DEF ev, tm, fs
  <2>10. Sched(rn2, ready_list, [ev EXCEPT ![w] = "triggered"], nt, tm, fs, clean,
               Tail(ipc_waiter_list), gt)
    <3>1. rn2 \in [Runners -> RunnerStates] /\ RunnerInv(r, rn2[r])
      BY <2>7
    <3>2. ipc_waiter_list # <<>> /\ w = Head(ipc_waiter_list)
      BY <1>1 DEF w
    <3> QED BY <3>1, <3>2, <2>3, <2>8, <2>9, <1>3, Trigger
  <2>11. Sched(rn2, ready_list, ev2, nt, tm, fs, clean, Tail(ipc_waiter_list), gt)
    BY <2>2, <2>10
  <2> HIDE DEF ev2, nt, gt
  <2>12. Sched(run', ready_list, event', note', timeout_list', fst', clean',
               Tail(ipc_waiter_list), gt)
    BY <2>1, <2>7, <2>11, <1>a, Enter
  <2> QED BY <2>12, <1>1 DEF SchedInv
<1> QED BY <1>4, <1>5

LEMMA WaitNotNeededSched ==
    ASSUME SchedInv, NEW r \in Runners, NEW f \in Fibrils, NEW expires \in BOOLEAN,
           MayWait(r, f, expires), WaitNotNeeded(r, f)
    PROVE  SchedInv'
<1>t. SchedType(run, ready_list, event, note, fst, clean, ipc_waiter_list, got)
  BY DEF SchedInv, Sched
<1>1. /\ run[r].pc = "run" /\ run[r].cur = f
      /\ fst[f] = "linked" \/ f \in Workers
  BY DEF MayWait, Runs
<1>2. /\ event[f] = "triggered" /\ event' = [event EXCEPT ![f] = "initial"]
      /\ note' = [note EXCEPT ![f] = FALSE] /\ fst' = Returned(f)
      /\ UNCHANGED <<run, ready_list, timeout_list, clean, ipc_waiter_list, got>>
  BY DEF WaitNotNeeded, ipcVars
<1>3. /\ event' \in [Fibrils -> Events] /\ note' \in [Fibrils -> BOOLEAN]
      /\ event'[f] = "initial" /\ note'[f] = FALSE
      /\ \A g \in Fibrils : g # f => event'[g] = event[g] /\ note'[g] = note[g]
  BY <1>t, <1>2 DEF SchedType, Events
<1>4. /\ fst' \in [Fibrils -> States]
      /\ fst'[f] = IF f \in Managers THEN "handle" ELSE "user"
      /\ \A g \in Fibrils : g # f => fst'[g] = fst[g]
  BY <1>t, <1>2 DEF SchedType, States, Returned
<1>5. ASSUME NEW g \in Managers PROVE ManagerInv(g, event', fst', ipc_waiter_list, got)
  <2>1. ManagerInv(g, event, fst, ipc_waiter_list, got) /\ g \in Fibrils /\ g \notin Workers
    BY Constants DEF SchedInv, Sched
  <2>2. CASE g = f
    BY <2>1, <2>2, <1>1, <1>2, <1>3, <1>4 DEF ManagerInv
  <2>3. CASE g # f
    BY <2>1, <2>3, <1>3, <1>4 DEF ManagerInv
  <2> QED BY <2>2, <2>3
<1>6. /\ ipc_waiter_list \in Seq(Managers) /\ IsInjective(ipc_waiter_list)
      /\ got \in [Managers -> Calls]
  BY <1>t DEF SchedInv, Sched, SchedType
<1>7. note'[f] = (event'[f] = "triggered") /\ fst'[f] \in {"user", "linked", "handle"}
      /\ event'[f] \in {"initial", "triggered"}
  BY <1>3, <1>4
<1>8. Sched(run, ready_list, event', note', timeout_list, fst', clean, ipc_waiter_list, got)
  BY <1>1, <1>3, <1>4, <1>5, <1>6, <1>7, OwnMove
<1> QED BY <1>2, <1>8 DEF SchedInv

\* A manager that has handled or dropped a call goes back to its loop.
LEMMA HandledSched ==
    ASSUME SchedInv, NEW r \in Runners, NEW f \in Fibrils, Runs(r, f, "handle")
    PROVE  /\ Sched(run, ready_list, event, note, timeout_list, [fst EXCEPT ![f] = "user"], clean,
                    ipc_waiter_list, [got EXCEPT ![f] = "none"])
           /\ f \in Managers /\ \A g \in Fibrils : g # f => [fst EXCEPT ![f] = "user"][g] = fst[g]
<1> DEFINE fs == [fst EXCEPT ![f] = "user"]
           gt == [got EXCEPT ![f] = "none"]
<1>t. SchedType(run, ready_list, event, note, fst, clean, ipc_waiter_list, got)
  BY DEF SchedInv, Sched
<1>1. run[r].pc = "run" /\ run[r].cur = f /\ fst[f] = "handle"
  BY DEF Runs
<1>2. f \in Managers
  BY <1>1 DEF SchedInv, Sched, FibrilInv, StateInv
<1>3. fs \in [Fibrils -> States] /\ fs[f] = "user" /\ \A g \in Fibrils : g # f => fs[g] = fst[g]
  BY <1>t DEF SchedType, States
<1>4. gt \in [Managers -> Calls] /\ gt[f] = "none" /\ \A g \in Managers : g # f => gt[g] = got[g]
  BY <1>t, <1>2 DEF SchedType, Calls
<1> HIDE DEF fs, gt
<1>5. event[f] = "initial" /\ f \notin ToSet(ipc_waiter_list)
  BY <1>1, <1>2 DEF SchedInv, Sched, ManagerInv
<1>6. ASSUME NEW g \in Managers PROVE ManagerInv(g, event, fs, ipc_waiter_list, gt)
  <2>1. ManagerInv(g, event, fst, ipc_waiter_list, got) /\ g \in Fibrils
    BY Constants DEF SchedInv, Sched
  <2>2. CASE g = f
    BY <2>1, <2>2, <1>3, <1>4, <1>5 DEF ManagerInv
  <2>3. CASE g # f
    BY <2>1, <2>3, <1>3, <1>4 DEF ManagerInv
  <2> QED BY <2>2, <2>3
<1>7. note[f] = (event[f] = "triggered")
  BY DEF SchedInv, Sched, FibrilInv, EventInv
<1>8. /\ event \in [Fibrils -> Events] /\ note \in [Fibrils -> BOOLEAN]
      /\ ipc_waiter_list \in Seq(Managers) /\ IsInjective(ipc_waiter_list)
  BY <1>t DEF SchedInv, Sched, SchedType
<1>9. Sched(run, ready_list, event, note, timeout_list, fs, clean, ipc_waiter_list, gt)
  BY <1>1, <1>3, <1>4, <1>5, <1>6, <1>7, <1>8, OwnMove
<1> QED BY <1>2, <1>3, <1>9 DEF fs, gt

LEMMA NotifySched ==
    ASSUME SchedInv, NEW r \in Runners, NEW f \in Fibrils, NEW g \in Workers, Notify(r, f, g)
    PROVE  SchedInv'
<1>1. /\ fst[g] \notin Gone
      /\ event' = [event EXCEPT ![g] = "triggered"] /\ note' = [note EXCEPT ![g] = TRUE]
      /\ ready_list' = ready_list \o Woken(g)
      /\ UNCHANGED <<run, timeout_list, clean, ipc_waiter_list>>
  BY DEF Notify, ReadyListPush, Gone, ipcVars
<1>2. CASE UNCHANGED <<fst, got>>
  <2>1. Sched(run, ready_list \o Woken(g), [event EXCEPT ![g] = "triggered"],
              [note EXCEPT ![g] = TRUE], timeout_list, fst, clean, ipc_waiter_list, got)
    BY <1>1, NotifyMove DEF SchedInv
  <2> QED BY <2>1, <1>1, <1>2 DEF SchedInv
<1>3. CASE /\ Runs(r, f, "handle") /\ fst' = [fst EXCEPT ![f] = "user"]
           /\ got' = [got EXCEPT ![f] = "none"]
  <2>1. /\ Sched(run, ready_list, event, note, timeout_list, fst', clean, ipc_waiter_list, got')
        /\ f \in Managers /\ \A h \in Fibrils : h # f => fst'[h] = fst[h]
    BY <1>3, HandledSched
  <2>2. fst'[g] \notin Gone
    BY <2>1, <1>1, Constants
  <2>3. Sched(run, ready_list \o Woken(g), [event EXCEPT ![g] = "triggered"],
              [note EXCEPT ![g] = TRUE], timeout_list, fst', clean, ipc_waiter_list, got')
    BY <2>1, <2>2, NotifyMove
  <2> QED BY <2>3, <1>1 DEF SchedInv
<1> QED BY <1>2, <1>3 DEF Notify

LEMMA DropNullSched ==
    ASSUME SchedInv, NEW r \in Runners, NEW f \in Managers, DropNull(r, f)
    PROVE  SchedInv'
<1>1. /\ Runs(r, f, "handle") /\ fst' = [fst EXCEPT ![f] = "user"]
      /\ got' = [got EXCEPT ![f] = "none"]
      /\ UNCHANGED <<run, ready_list, event, note, timeout_list, clean, ipc_waiter_list>>
  BY DEF DropNull, ipcVars
<1>2. Sched(run, ready_list, event, note, timeout_list, fst', clean, ipc_waiter_list, got')
  BY <1>1, HandledSched, Constants
<1> QED BY <1>1, <1>2 DEF SchedInv

LEMMA WaitIpcSched ==
    ASSUME SchedInv, ipc_buffer_list \in Seq(Calls \ {"none"}),
           NEW r \in Runners, NEW f \in Managers, WaitIpc(r, f)
    PROVE  SchedInv'
<1>t. SchedType(run, ready_list, event, note, fst, clean, ipc_waiter_list, got)
      /\ IsInjective(ipc_waiter_list)
  BY DEF SchedInv, Sched
<1>1. /\ run[r].pc = "run" /\ run[r].cur = f /\ fst[f] = "user" /\ f \in Fibrils
      /\ UNCHANGED <<run, ready_list, event, note, timeout_list, clean>>
  BY Constants DEF WaitIpc, Runs
<1>2. event[f] = "initial" /\ f \notin ToSet(ipc_waiter_list) /\ got[f] = "none"
  BY <1>1 DEF SchedInv, Sched, ManagerInv
<1>3. note[f] = (event[f] = "triggered")
  BY <1>1 DEF SchedInv, Sched, FibrilInv, EventInv
<1>4. /\ event \in [Fibrils -> Events] /\ note \in [Fibrils -> BOOLEAN]
      /\ ipc_waiter_list \in Seq(Managers) /\ got \in [Managers -> Calls]
  BY <1>t DEF SchedType
<1>5. /\ fst' \in [Fibrils -> States] /\ fst'[f] \in {"linked", "handle"}
      /\ \A g \in Fibrils : g # f => fst'[g] = fst[g]
      /\ ipc_waiter_list' \in Seq(Managers) /\ IsInjective(ipc_waiter_list')
      /\ got' \in [Managers -> Calls] /\ \A g \in Managers : g # f => got'[g] = got[g]
      /\ \A g \in Managers : g # f => (g \in ToSet(ipc_waiter_list') <=> g \in ToSet(ipc_waiter_list))
      /\ f \in ToSet(ipc_waiter_list') <=> fst'[f] = "linked"
      /\ fst'[f] = "linked" => got'[f] = "none"
  <2>1. CASE ipc_buffer_list # <<>>
    <3>1. /\ got' = [got EXCEPT ![f] = Head(ipc_buffer_list)]
          /\ fst' = [fst EXCEPT ![f] = "handle"] /\ ipc_waiter_list' = ipc_waiter_list
      BY <2>1 DEF WaitIpc
    <3>2. Head(ipc_buffer_list) \in Calls
      BY <2>1, TailList
    <3>3. got' \in [Managers -> Calls] /\ \A g \in Managers : g # f => got'[g] = got[g]
      BY <3>1, <3>2, <1>4
    <3>4. /\ fst' \in [Fibrils -> States] /\ fst'[f] = "handle"
          /\ \A g \in Fibrils : g # f => fst'[g] = fst[g]
      BY <3>1, <1>1, <1>t DEF SchedType, States
    <3> QED BY <3>1, <3>3, <3>4, <1>t, <1>2, <1>4
  <2>2. CASE ipc_buffer_list = <<>>
    <3>1. /\ got' = got /\ fst' = [fst EXCEPT ![f] = "linked"]
          /\ ipc_waiter_list' = Append(ipc_waiter_list, f)
      BY <2>2 DEF WaitIpc
    <3>2. /\ ipc_waiter_list' \in Seq(Managers) /\ IsInjective(ipc_waiter_list')
          /\ ToSet(ipc_waiter_list') = ToSet(ipc_waiter_list) \cup {f}
      BY <3>1, <1>t, <1>2, <1>4, AppendList
    <3>3. /\ fst' \in [Fibrils -> States] /\ fst'[f] = "linked"
          /\ \A g \in Fibrils : g # f => fst'[g] = fst[g]
      BY <3>1, <1>1, <1>t DEF SchedType, States
    <3> QED BY <3>1, <3>2, <3>3, <1>2, <1>4
  <2> QED BY <2>1, <2>2
<1>6. ASSUME NEW g \in Managers PROVE ManagerInv(g, event, fst', ipc_waiter_list', got')
  <2>1. ManagerInv(g, event, fst, ipc_waiter_list, got) /\ g \in Fibrils
    BY Constants DEF SchedInv, Sched
  <2>2. CASE g = f
    BY <2>1, <2>2, <1>2, <1>5 DEF ManagerInv
  <2>3. CASE g # f
    BY <2>1, <2>3, <1>5 DEF ManagerInv
  <2> QED BY <2>2, <2>3
<1>7. /\ event[f] \in {"initial", "triggered"} /\ fst'[f] \in {"user", "linked", "handle"}
      /\ fst' \in [Fibrils -> States] /\ \A g \in Fibrils : g # f => fst'[g] = fst[g]
      /\ ipc_waiter_list' \in Seq(Managers) /\ IsInjective(ipc_waiter_list')
      /\ got' \in [Managers -> Calls]
  BY <1>2, <1>5
<1>8. Sched(run, ready_list, event, note, timeout_list, fst', clean, ipc_waiter_list', got')
  BY <1>1, <1>3, <1>4, <1>6, <1>7, OwnMove
<1> QED BY <1>1, <1>8 DEF SchedInv

LEMMA StartSched ==
    ASSUME SchedInv, NEW r \in Runners, NEW f \in Fibrils, NEW g \in Workers, Start(r, f, g)
    PROVE  SchedInv'
<1>1. /\ fst[g] = "new" /\ fst' = [fst EXCEPT ![g] = "start"]
      /\ ready_list' = ready_list \o <<g>>
      /\ UNCHANGED <<run, event, note, timeout_list, clean, ipc_waiter_list, got>>
  BY DEF Start, ReadyListPush, ipcVars
<1>2. Sched(run, ready_list \o <<g>>, event, note, timeout_list, [fst EXCEPT ![g] = "start"],
            clean, ipc_waiter_list, got)
  BY <1>1, StartMove
<1> QED BY <1>1, <1>2 DEF SchedInv

-----------------------------------------------------------------------------
(* Tokens, buffers and calls are counted.                                  *)

\* A set changes at one element.
LEMMA SetChange ==
    ASSUME NEW A, IsFiniteSet(A), NEW B, NEW x, A \ {x} = B \ {x}
    PROVE  /\ IsFiniteSet(B) /\ Cardinality(A) \in Nat /\ Cardinality(B) \in Nat
           /\ x \in A /\ x \in B => Cardinality(B) = Cardinality(A)
           /\ x \notin A /\ x \notin B => Cardinality(B) = Cardinality(A)
           /\ x \notin A /\ x \in B => Cardinality(B) = Cardinality(A) + 1
           /\ x \in A /\ x \notin B => Cardinality(B) = Cardinality(A) - 1
<1>1. CASE (x \in A) <=> (x \in B)
  <2>1. A = B
    BY <1>1
  <2>2. Cardinality(A) \in Nat
    BY FS_CardinalityType
  <2> QED BY <2>1, <2>2, <1>1
<1>2. CASE x \notin A /\ x \in B
  <2>1. B = A \cup {x}
    BY <1>2
  <2>2. IsFiniteSet(B) /\ Cardinality(B) = Cardinality(A) + 1
    BY <2>1, <1>2, FS_AddElement
  <2>3. Cardinality(A) \in Nat /\ Cardinality(B) \in Nat
    BY <2>2, FS_CardinalityType
  <2> QED BY <2>2, <2>3, <1>2
<1>3. CASE x \in A /\ x \notin B
  <2>1. B = A \ {x}
    BY <1>3
  <2>2. IsFiniteSet(B) /\ Cardinality(B) = Cardinality(A) - 1
    BY <2>1, <1>3, FS_RemoveElement
  <2>3. Cardinality(A) \in Nat /\ Cardinality(B) \in Nat
    BY <2>2, FS_CardinalityType
  <2> QED BY <2>2, <2>3, <1>3
<1> QED BY <1>1, <1>2, <1>3

LEMMA Finite ==
    /\ IsFiniteSet(InHand) /\ IsFiniteSet(Buffering) /\ IsFiniteSet(Waiting)
    /\ IsFiniteSet(Carrying) /\ IsFiniteSet(Holding)
    /\ Cardinality(InHand) \in Nat /\ Cardinality(Buffering) \in Nat
    /\ Cardinality(Waiting) \in Nat /\ Cardinality(Waiting) <= Cardinality(Runners)
    /\ Cardinality(Runners) \in Nat
    /\ Cardinality(Carrying) \in Nat /\ Cardinality(Holding) \in Nat
    /\ Cardinality(Buffering) <= Cardinality(InHand)
<1>1. /\ InHand \in SUBSET Runners /\ Buffering \in SUBSET InHand /\ Waiting \in SUBSET Runners
      /\ Carrying \in SUBSET Runners /\ Holding \in SUBSET Fibrils
  BY Constants DEF InHand, Buffering, Waiting, Carrying, Holding
<1>2. IsFiniteSet(Runners) /\ IsFiniteSet(Fibrils)
  BY Constants
<1>3. IsFiniteSet(InHand)
  BY <1>1, <1>2, FS_Subset
<1>4. IsFiniteSet(Waiting) /\ Cardinality(Waiting) <= Cardinality(Runners)
  BY <1>1, <1>2, FS_Subset
<1>5. IsFiniteSet(Carrying) /\ IsFiniteSet(Holding)
  BY <1>1, <1>2, FS_Subset
<1>6. IsFiniteSet(Buffering) /\ Cardinality(Buffering) <= Cardinality(InHand)
  BY <1>1, <1>3, FS_Subset
<1> QED BY <1>2, <1>3, <1>4, <1>5, <1>6, FS_CardinalityType

\* The numbers of calls add up; the definition without the sets spelled out.
LEMMA CallsDef ==
    /\ CallsConserved <=> arrived = handled + box + Cardinality(Carrying)
                            + Count(ipc_buffer_list, "call") + Cardinality(Holding)
    /\ CallsConserved' <=> arrived' = handled' + box' + Cardinality(Carrying')
                            + Count(ipc_buffer_list', "call") + Cardinality(Holding')
<1>1. CallsConserved <=> arrived = handled + box + Cardinality(Carrying)
                            + Count(ipc_buffer_list, "call") + Cardinality(Holding)
  BY Zenon DEF CallsConserved, Carrying, Holding, Count
<1>2. CallsConserved' <=> arrived' = handled' + box' + Cardinality(Carrying')
                            + Count(ipc_buffer_list', "call") + Cardinality(Holding')
  BY Zenon DEF CallsConserved, Carrying, Holding, Count
<1> QED BY <1>1, <1>2

\* Where a runner holds no token and no call.
Idle == {"off", "run", "timeouts", "down", "switch"}

\* A step between such places.
LEMMA IdleStep ==
    ASSUME SchedInv, NEW r \in Runners, \A s \in Runners : s # r => run'[s] = run[s],
           run[r].pc \in Idle, run'[r].pc \in Idle, run'[r].call = "none"
    PROVE  /\ InHand' = InHand /\ Buffering' = Buffering /\ Waiting' = Waiting
           /\ Carrying' = Carrying
<1>1. run[r].call = "none"
  BY DEF SchedInv, Sched, RunnerInv, Idle
<1>2. InHand' = InHand
  BY DEF InHand, Idle
<1>3. Buffering' = Buffering
  BY DEF Buffering, Idle
<1>4. Waiting' = Waiting
  BY DEF Waiting, Idle
<1>5. Carrying' = Carrying
  BY <1>1 DEF Carrying
<1> QED BY <1>2, <1>3, <1>4, <1>5

LEMMA RunnersStay ==
    ASSUME run' = run
    PROVE  /\ InHand' = InHand /\ Buffering' = Buffering /\ Waiting' = Waiting
           /\ Carrying' = Carrying
  BY DEF InHand, Buffering, Waiting, Carrying

\* A runner moves on with its token; what it has to do with the counters.
LEMMA TokenStep ==
    ASSUME NEW r \in Runners, \A s \in Runners : s # r => run'[s] = run[s]
    PROVE  /\ InHand \ {r} = InHand' \ {r}
           /\ Buffering \ {r} = Buffering' \ {r}
           /\ Waiting \ {r} = Waiting' \ {r}
           /\ Carrying \ {r} = Carrying' \ {r}
           /\ r \in InHand <=> run[r].pc \in {"pop", "ipc", "leave", "return", "deliver"}
           /\ r \in InHand' <=> run'[r].pc \in {"pop", "ipc", "leave", "return", "deliver"}
           /\ r \in Buffering <=> run[r].pc \in {"ipc", "leave", "return", "deliver"}
           /\ r \in Buffering' <=> run'[r].pc \in {"ipc", "leave", "return", "deliver"}
           /\ r \in Waiting <=> run[r].pc \in {"ipc", "leave"}
           /\ r \in Waiting' <=> run'[r].pc \in {"ipc", "leave"}
           /\ r \in Carrying <=> run[r].call = "call"
           /\ r \in Carrying' <=> run'[r].call = "call"
<1>1. /\ InHand \ {r} = InHand' \ {r}
      /\ r \in InHand <=> run[r].pc \in {"pop", "ipc", "leave", "return", "deliver"}
      /\ r \in InHand' <=> run'[r].pc \in {"pop", "ipc", "leave", "return", "deliver"}
  BY DEF InHand
<1>2. /\ Buffering \ {r} = Buffering' \ {r}
      /\ r \in Buffering <=> run[r].pc \in {"ipc", "leave", "return", "deliver"}
      /\ r \in Buffering' <=> run'[r].pc \in {"ipc", "leave", "return", "deliver"}
  BY DEF Buffering
<1>3. /\ Waiting \ {r} = Waiting' \ {r}
      /\ r \in Waiting <=> run[r].pc \in {"ipc", "leave"}
      /\ r \in Waiting' <=> run'[r].pc \in {"ipc", "leave"}
  BY DEF Waiting
<1>4. /\ Carrying \ {r} = Carrying' \ {r}
      /\ r \in Carrying <=> run[r].call = "call"
      /\ r \in Carrying' <=> run'[r].call = "call"
  BY DEF Carrying
<1> QED BY <1>1, <1>2, <1>3, <1>4

\* While there is one thread, it is the one that makes a step.
LEMMA SingleStep ==
    ASSUME SingleInv, NEW r \in Runners, run[r].pc # "off", multithreaded' = multithreaded,
           \A s \in Runners : s # r => run'[s] = run[s],
           ~multithreaded /\ ipc_buffer_list = <<>> => ipc_buffer_list' = <<>>,
           ~multithreaded /\ run'[r].pc \in {"ipc", "leave", "return", "deliver"}
              /\ (run[r].pc \in {"ipc", "leave", "return", "deliver"} => ready_list = <<>>)
              => ready_list' = <<>>
    PROVE  SingleInv'
<1> SUFFICES ASSUME ~multithreaded
             PROVE  /\ \A s \in Runners : s # FirstRunner => run'[s].pc = "off"
                    /\ ipc_buffer_list' = <<>>
                    /\ run'[FirstRunner].pc \in {"ipc", "leave", "return", "deliver"}
                          => ready_list' = <<>>
  BY DEF SingleInv
<1>1. r = FirstRunner
  BY DEF SingleInv
<1> QED BY <1>1 DEF SingleInv

\* What the invariant says about numbers.
LEMMA CountFacts ==
    ASSUME SchedInv, CountInv
    PROVE  /\ sem \in Nat /\ free \in Nat /\ BufferCount \in Nat
           /\ Len(ready_list) \in Nat /\ Len(ipc_buffer_list) \in Nat
           /\ Cardinality(InHand) \in Nat /\ Cardinality(Buffering) \in Nat
           /\ Cardinality(Waiting) \in Nat /\ Cardinality(Carrying) \in Nat
           /\ Cardinality(Holding) \in Nat /\ Count(ipc_buffer_list, "call") \in Nat
           /\ sem + Cardinality(InHand) = Len(ready_list) + free
           /\ Cardinality(Buffering) <= free /\ Cardinality(Buffering) <= Cardinality(InHand)
           /\ free + Len(ipc_buffer_list) = BufferCount
           /\ threads_in_ipc_wait = Cardinality(Waiting)
           /\ arrived = handled + box + Cardinality(Carrying)
                            + Count(ipc_buffer_list, "call") + Cardinality(Holding)
           /\ arrived \in Nat /\ handled \in Nat /\ box \in Nat
<1>1. /\ Cardinality(InHand) \in Nat /\ Cardinality(Buffering) \in Nat
      /\ Cardinality(Waiting) \in Nat /\ Cardinality(Carrying) \in Nat
      /\ Cardinality(Holding) \in Nat /\ Cardinality(Buffering) <= Cardinality(InHand)
  BY Finite
<1>2. ready_list \in Seq(Fibrils) /\ ipc_buffer_list \in Seq(Calls \ {"none"})
  BY DEF SchedInv, Sched, SchedType, CountInv, NumberType
<1>3. Len(ready_list) \in Nat /\ Len(ipc_buffer_list) \in Nat /\ Count(ipc_buffer_list, "call") \in Nat
  BY <1>2, CountIsNat, ListIsFunction
<1>4. /\ sem + Cardinality(InHand) = Len(ready_list) + free
      /\ Cardinality(Buffering) <= free
      /\ free + Len(ipc_buffer_list) = BufferCount
      /\ threads_in_ipc_wait = Cardinality(Waiting)
  BY DEF CountInv, TokenInv, TokenAccounting
<1>5. arrived = handled + box + Cardinality(Carrying)
                    + Count(ipc_buffer_list, "call") + Cardinality(Holding)
  BY CallsDef DEF CountInv
<1>6. /\ sem \in Nat /\ free \in Nat /\ BufferCount \in Nat
      /\ arrived \in Nat /\ handled \in Nat /\ box \in Nat
  BY Constants DEF CountInv, NumberType
<1> QED BY <1>1, <1>3, <1>4, <1>5, <1>6

\* The part of it about tokens, and the part about calls.
LEMMA TokenFacts ==
    ASSUME SchedInv, CountInv
    PROVE  /\ sem \in Nat /\ free \in Nat
           /\ Len(ready_list) \in Nat
           /\ Cardinality(InHand) \in Nat /\ Cardinality(Buffering) \in Nat
           /\ sem + Cardinality(InHand) = Len(ready_list) + free
           /\ Cardinality(Buffering) <= free /\ Cardinality(Buffering) <= Cardinality(InHand)
  BY CountFacts

LEMMA CallFacts ==
    ASSUME SchedInv, CountInv
    PROVE  /\ Cardinality(Carrying) \in Nat /\ Cardinality(Holding) \in Nat
           /\ Count(ipc_buffer_list, "call") \in Nat
           /\ arrived \in Nat /\ handled \in Nat /\ box \in Nat
           /\ arrived = handled + box + Cardinality(Carrying)
                            + Count(ipc_buffer_list, "call") + Cardinality(Holding)
  BY CountFacts

\* What has to be shown of a step.
LEMMA CountNext ==
    ASSUME NumberType', SingleInv',
           sem' + Cardinality(InHand') = Len(ready_list') + free',
           Cardinality(Buffering') <= free',
           free' + Len(ipc_buffer_list') = BufferCount,
           threads_in_ipc_wait' = Cardinality(Waiting'),
           arrived' = handled' + box' + Cardinality(Carrying')
                        + Count(ipc_buffer_list', "call") + Cardinality(Holding')
    PROVE  CountInv'
<1>1. CallsConserved'
  BY CallsDef
<1>2. TokenInv'
  BY DEF TokenInv, TokenAccounting
<1> QED BY <1>1, <1>2 DEF CountInv

\* _ready_down() never takes the counter of a single thread below zero: the
\* buffers are free then.
LEMMA SemPositive ==
    ASSUME SchedInv, CountInv, NEW r \in Runners, run[r].pc \in {"run", "down"}, CanDown
    PROVE  sem >= 1
<1>1. CASE multithreaded
  BY <1>1, CountFacts DEF CanDown
<1>2. CASE ~multithreaded
  <2>1. SingleInv
    BY DEF CountInv
  <2>2. r = FirstRunner
    BY <1>2, <2>1 DEF SingleInv
  <2>3. InHand = {}
    BY <1>2, <2>1, <2>2 DEF SingleInv, InHand
  <2>4. Cardinality(InHand) = 0
    BY <2>3, FS_EmptySet
  <2>5. ipc_buffer_list = <<>>
    BY <1>2, <2>1 DEF SingleInv
  <2>6. Len(ipc_buffer_list) = 0
    BY <2>5
  <2> QED BY <2>4, <2>6, CountFacts, Constants
<1> QED BY <1>1, <1>2

\* A single thread that finds nothing ready is waited for by a manager: every
\* manager is in one place, and no other place is left.
LEMMA SingleHasWaiter ==
    ASSUME SchedInv, SingleInv, ~multithreaded, NEW r \in Runners, run[r].pc \in {"run", "deliver"},
           run[r].pc = "run" => \/ run[r].cur \in Workers
                                \/ fst[run[r].cur] = "linked" /\ event[run[r].cur] = "initial",
           ready_list = <<>>
    PROVE  ipc_waiter_list # <<>>
<1>1. r = FirstRunner /\ \A s \in Runners : s # r => run[s].pc = "off"
  BY DEF SingleInv
<1>2. PICK m : m \in Managers
  BY FibrilAssumption
<1>3. m \in Fibrils /\ m \notin Workers
  BY <1>2, Constants
<1>4. \A s \in Runners : RunnerInv(s, run[s])
  BY DEF SchedInv, Sched
<1>5. \A s \in Runners : s # r => run[s].cur # m /\ run[s].hand # m
  BY <1>1, <1>3, <1>4, Constants DEF RunnerInv
<1>6. run[r].hand # m
  BY <1>3, <1>4, Constants DEF RunnerInv
<1>7. m \notin ToSet(ready_list)
  BY DEF ToSet
<1>8. FibrilInv(m, run, ready_list, event, note, timeout_list, fst)
      /\ ManagerInv(m, event, fst, ipc_waiter_list, got)
  BY <1>2, <1>3 DEF SchedInv, Sched
<1>9. event[m] = "waiting" \/ run[r].cur = m
  BY <1>5, <1>6, <1>7, <1>8 DEF FibrilInv, PlaceInv, ManagerInv, Gone
<1>10. m \in ToSet(ipc_waiter_list)
  <2>1. CASE event[m] = "waiting"
    BY <2>1, <1>8 DEF FibrilInv, StateInv, ManagerInv
  <2>2. CASE run[r].cur = m
    <3>1. run[r].pc # "deliver"
      <4>1. RunnerInv(r, run[r]) /\ run[r] \in RunnerStates
        BY <1>4 DEF SchedInv, Sched, SchedType
      <4> QED BY <4>1, <2>2, <1>3, Constants DEF RunnerInv, RunnerStates
    <3> QED BY <3>1, <2>2, <1>3, <1>8 DEF ManagerInv
  <2> QED BY <2>1, <2>2, <1>9
<1> QED BY <1>10 DEF ToSet

\* A step that makes fibrils ready or takes them, with their tokens, and does
\* nothing else that counts.
LEMMA CountSame ==
    ASSUME SchedInv, CountInv, NumberType', SingleInv',
           InHand' = InHand, Buffering' = Buffering, Waiting' = Waiting, Carrying' = Carrying,
           Holding' = Holding,
           UNCHANGED <<free, ipc_buffer_list, threads_in_ipc_wait, arrived, handled, box>>,
           Len(ready_list') \in Nat, sem' + Len(ready_list) = sem + Len(ready_list')
    PROVE  CountInv'
<1>1. sem' + Cardinality(InHand') = Len(ready_list') + free'
  <2>1. sem' \in Nat
    BY DEF NumberType
  <2>2. /\ sem \in Nat /\ Cardinality(InHand) \in Nat /\ free \in Nat /\ Len(ready_list) \in Nat
        /\ sem + Cardinality(InHand) = Len(ready_list) + free
    BY CountFacts
  <2>3. Cardinality(InHand') = Cardinality(InHand) /\ free' = free
    OBVIOUS
  <2> QED BY <2>1, <2>2, <2>3
<1>2. Cardinality(Buffering') <= free'
  BY CountFacts
<1>3. free' + Len(ipc_buffer_list') = BufferCount
  BY CountFacts
<1>4. threads_in_ipc_wait' = Cardinality(Waiting')
  BY CountFacts
<1>5. arrived' = handled' + box' + Cardinality(Carrying')
                   + Count(ipc_buffer_list', "call") + Cardinality(Holding')
  BY CountFacts
<1> QED BY <1>1, <1>2, <1>3, <1>4, <1>5, CountNext

\* The runner after a switch.
LEMMA SwitchRunner ==
    ASSUME SchedInv, NEW r \in Runners, NEW dst, NEW ev, NEW nt, NEW tm, NEW fs, NEW cl,
           SwitchTo(r, dst, ev, nt, tm, fs, cl), due \subseteq tm
    PROVE  /\ \A s \in Runners : s # r => run'[s] = run[s]
           /\ run'[r].pc \in {"run", "timeouts"} /\ run'[r].call = "none"
           /\ due' \subseteq timeout_list'
<1>1. run \in [Runners -> RunnerStates]
  BY DEF SchedInv, Sched, SchedType
<1>2. run' = [run EXCEPT ![r] = Runner(IF dst = r THEN "timeouts" ELSE "run", dst, "none")]
  BY DEF SwitchTo
<1>3. /\ \A s \in Runners : s # r => run'[s] = run[s]
      /\ run'[r] = Runner(IF dst = r THEN "timeouts" ELSE "run", dst, "none")
  BY <1>1, <1>2
<1>4. run'[r].pc \in {"run", "timeouts"} /\ run'[r].call = "none"
  BY <1>3, RunnerFields
<1>5. due' \subseteq timeout_list'
  BY DEF SwitchTo
<1> QED BY <1>3, <1>4, <1>5

\* fibril_wait_timeout() is called by a fibril that runs.
LEMMA WaitFacts ==
    ASSUME SchedInv, CountInv, NEW r \in Runners, NEW f \in Fibrils, NEW expires \in BOOLEAN,
           MayWait(r, f, expires)
    PROVE  /\ run[r].pc = "run" /\ run[r].cur = f /\ run[r].pc \in Idle /\ run[r].pc # "off"
           /\ f \in Workers \/ fst[f] = "linked"
           /\ ops' \in 0..MaxOps
<1>1. ops \in 0..MaxOps
  BY DEF CountInv, NumberType
<1>2. ops' \in 0..MaxOps
  BY <1>1, Constants DEF MayWait, Operation
<1> QED BY <1>2 DEF MayWait, Runs, Idle

LEMMA WaitNotNeededCount ==
    ASSUME SchedInv, CountInv, NEW r \in Runners, NEW f \in Fibrils, NEW expires \in BOOLEAN,
           MayWait(r, f, expires), WaitNotNeeded(r, f),
           UNCHANGED <<multithreaded, threads_in_ipc_wait, handled>>
    PROVE  CountInv'
<1>1. UNCHANGED <<sem, ready_list, timeout_list, due, got, ipc_buffer_list, free, box, wakeups,
                  arrived, run>>
  BY DEF WaitNotNeeded, ipcVars, kernelVars
<1>2. NumberType'
  BY <1>1, WaitFacts DEF CountInv, NumberType
<1>3. SingleInv'
  BY <1>1 DEF CountInv, SingleInv
<1>4. Holding' = Holding
  BY <1>1 DEF Holding
<1>5. Len(ready_list') \in Nat /\ sem' + Len(ready_list) = sem + Len(ready_list')
  BY <1>1, CountFacts
<1> QED BY <1>1, <1>2, <1>3, <1>4, <1>5, CountSame, RunnersStay

LEMMA WaitSwitchCount ==
    ASSUME SchedInv, CountInv, NEW r \in Runners, NEW f \in Fibrils, NEW expires \in BOOLEAN,
           MayWait(r, f, expires), WaitSwitch(r, f, expires) \/ WaitHelper(r, f, expires),
           UNCHANGED <<multithreaded, threads_in_ipc_wait, handled>>
    PROVE  CountInv'
<1> DEFINE tm == IF expires THEN timeout_list \cup {f} ELSE timeout_list
<1>1. UNCHANGED <<got, ipc_buffer_list, free, box, wakeups, arrived>>
  BY DEF WaitSwitch, WaitHelper, ipcVars, kernelVars
<1>2. /\ \A s \in Runners : s # r => run'[s] = run[s]
      /\ run'[r].pc \in {"run", "timeouts"} /\ run'[r].call = "none"
      /\ due' \subseteq timeout_list'
  <2>1. \E dst, ev, nt, fs : SwitchTo(r, dst, ev, nt, tm, fs, clean)
    BY DEF WaitSwitch, WaitHelper, BlockAndSwitch
  <2>2. due \subseteq tm
    BY DEF CountInv, NumberType
  <2> HIDE DEF tm
  <2> QED BY <2>1, <2>2, SwitchRunner
<1>3. /\ InHand' = InHand /\ Buffering' = Buffering /\ Waiting' = Waiting /\ Carrying' = Carrying
  BY <1>2, WaitFacts, IdleStep DEF Idle
<1>4. Len(ready_list') \in Nat /\ sem' + Len(ready_list) = sem + Len(ready_list') /\ sem' \in Nat
  <2>1. CASE WaitSwitch(r, f, expires)
    <3>1. sem' = sem - 1 /\ ready_list' = Tail(ready_list) /\ ready_list # <<>> /\ CanDown
      BY <2>1 DEF WaitSwitch
    <3>2. ready_list \in Seq(Fibrils)
      BY DEF SchedInv, Sched, SchedType
    <3>3. Len(Tail(ready_list)) = Len(ready_list) - 1 /\ Tail(ready_list) \in Seq(Fibrils)
      BY <3>1, <3>2, TailList
    <3>4. Len(Tail(ready_list)) \in Nat
      BY <3>3, ListIsFunction
    <3>5. sem >= 1
      BY <3>1, WaitFacts, SemPositive
    <3>6. Len(ready_list') = Len(ready_list) - 1 /\ Len(ready_list') \in Nat
      BY <3>1, <3>3, <3>4
    <3>7. sem' = sem - 1 /\ sem \in Nat /\ Len(ready_list) \in Nat
      BY <3>1, CountFacts
    <3> QED BY <3>5, <3>6, <3>7
  <2>2. CASE WaitHelper(r, f, expires)
    <3>1. sem' = sem /\ ready_list' = ready_list
      BY <2>2 DEF WaitHelper
    <3> QED BY <3>1, CountFacts
  <2> QED BY <2>1, <2>2
<1>5. NumberType'
  BY <1>1, <1>2, <1>4, WaitFacts DEF CountInv, NumberType
<1>6. SingleInv'
  BY <1>1, <1>2, WaitFacts, SingleStep DEF CountInv
<1>7. Holding' = Holding
  BY <1>1 DEF Holding
<1> QED BY <1>1, <1>3, <1>4, <1>5, <1>6, <1>7, CountSame

\* ipc_wait() takes a call out of the answerbox, or only a poke.
LEMMA TakeCallFacts ==
    ASSUME CountInv, wakeups > 0, TakeCall
    PROVE  /\ wakeups' \in Nat /\ box' \in Nat /\ arrived' = arrived
           /\ Received \in {"call", "null"}
           /\ Received = "call" => box' = box - 1
           /\ Received # "call" => box' = box
<1>1. wakeups \in Nat /\ box \in Nat
  BY DEF CountInv, NumberType
<1> QED BY <1>1 DEF TakeCall, Received

\* A manager without a call gets one.
LEMMA HandedOver ==
    ASSUME SchedInv, NEW w \in Managers, got[w] = "none", NEW c \in Calls,
           got' = [got EXCEPT ![w] = c]
    PROVE  /\ Cardinality(Holding) \in Nat /\ Cardinality(Holding') \in Nat
           /\ c = "call" => Cardinality(Holding') = Cardinality(Holding) + 1
           /\ c # "call" => Cardinality(Holding') = Cardinality(Holding)
<1>1. got \in [Managers -> Calls]
  BY DEF SchedInv, Sched, SchedType
<1>2. got'[w] = c /\ \A g \in Managers : g # w => got'[g] = got[g]
  BY <1>1
<1>3. /\ Holding \ {w} = Holding' \ {w} /\ w \notin Holding
      /\ w \in Holding' <=> c = "call"
  BY <1>2 DEF Holding
<1>4. IsFiniteSet(Holding)
  BY Finite
<1> QED BY <1>3, <1>4, SetChange

LEMMA WaitDeliverCount ==
    ASSUME SchedInv, CountInv, NEW r \in Runners, NEW f \in Fibrils, NEW expires \in BOOLEAN,
           MayWait(r, f, expires), WaitDeliver(r, f, expires),
           UNCHANGED <<multithreaded, threads_in_ipc_wait, handled>>
    PROVE  CountInv'
<1> DEFINE w == Head(ipc_waiter_list)
           tm == IF expires THEN timeout_list \cup {f} ELSE timeout_list
<1>1. /\ UNCHANGED <<sem, ready_list, ipc_buffer_list, free>>
      /\ ipc_waiter_list # <<>> /\ wakeups > 0 /\ TakeCall
      /\ got' = [got EXCEPT ![w] = Received]
  BY DEF WaitDeliver
<1>2. w \in Managers /\ got[w] = "none"
  <2>1. ipc_waiter_list \in Seq(Managers)
    BY DEF SchedInv, Sched, SchedType
  <2>2. w \in Managers /\ w \in ToSet(ipc_waiter_list)
    BY <2>1, <1>1, TailList
  <2>3. ManagerInv(w, event, fst, ipc_waiter_list, got)
    BY <2>2 DEF SchedInv, Sched
  <2> QED BY <2>2, <2>3 DEF ManagerInv
<1>3. /\ \A s \in Runners : s # r => run'[s] = run[s]
      /\ run'[r].pc \in {"run", "timeouts"} /\ run'[r].call = "none"
      /\ due' \subseteq timeout_list'
  <2>1. CASE w = f
    <3>1. UNCHANGED <<timeout_list, due, run>>
      BY <2>1 DEF WaitDeliver
    <3>2. RunnerInv(r, run[r]) /\ run[r].pc = "run"
      BY WaitFacts DEF SchedInv, Sched
    <3> QED BY <3>1, <3>2 DEF CountInv, NumberType, RunnerInv
  <2>2. CASE w # f
    <3>1. \E dst, ev, nt, fs : SwitchTo(r, dst, ev, nt, tm, fs, clean)
      BY <2>2 DEF WaitDeliver, BlockAndSwitch
    <3>2. due \subseteq tm
      BY DEF CountInv, NumberType
    <3> HIDE DEF tm, w
    <3> QED BY <3>1, <3>2, SwitchRunner
  <2> QED BY <2>1, <2>2
<1> HIDE DEF w
<1>4. /\ InHand' = InHand /\ Buffering' = Buffering /\ Waiting' = Waiting /\ Carrying' = Carrying
  BY <1>3, WaitFacts, IdleStep DEF Idle
<1>5. NumberType'
  BY <1>1, <1>3, WaitFacts, TakeCallFacts DEF CountInv, NumberType
<1>6. SingleInv'
  BY <1>1, <1>3, WaitFacts, SingleStep DEF CountInv
<1>7. arrived' = handled' + box' + Cardinality(Carrying')
                   + Count(ipc_buffer_list', "call") + Cardinality(Holding')
  <2>1. Received \in Calls
    BY DEF Received, Calls
  <2>2. /\ Cardinality(Holding') \in Nat
        /\ Received = "call" => Cardinality(Holding') = Cardinality(Holding) + 1
        /\ Received # "call" => Cardinality(Holding') = Cardinality(Holding)
    BY <1>1, <1>2, <2>1, HandedOver
  <2>3. /\ arrived' = arrived /\ box' \in Nat
        /\ Received = "call" => box' = box - 1
        /\ Received # "call" => box' = box
    BY <1>1, TakeCallFacts
  <2>4. /\ Cardinality(Carrying') = Cardinality(Carrying) /\ handled' = handled
        /\ Count(ipc_buffer_list', "call") = Count(ipc_buffer_list, "call")
    BY <1>1, <1>4
  <2>5. CASE Received = "call"
    <3>1. box' = box - 1 /\ Cardinality(Holding') = Cardinality(Holding) + 1
      BY <2>2, <2>3, <2>5
    <3> QED BY <3>1, <2>3, <2>4, CallFacts
  <2>6. CASE Received # "call"
    <3>1. box' = box /\ Cardinality(Holding') = Cardinality(Holding)
      BY <2>2, <2>3, <2>6
    <3> QED BY <3>1, <2>3, <2>4, CallFacts
  <2> QED BY <2>5, <2>6
<1>8. sem' + Cardinality(InHand') = Len(ready_list') + free'
  BY <1>1, <1>4, CountFacts
<1>9. Cardinality(Buffering') <= free' /\ free' + Len(ipc_buffer_list') = BufferCount
  BY <1>1, <1>4, CountFacts
<1>10. threads_in_ipc_wait' = Cardinality(Waiting')
  BY <1>4, CountFacts
<1> QED BY <1>5, <1>6, <1>7, <1>8, <1>9, <1>10, CountNext

LEMMA WaitBufferCount ==
    ASSUME SchedInv, CountInv, NEW r \in Runners, NEW f \in Fibrils, NEW expires \in BOOLEAN,
           MayWait(r, f, expires), WaitBuffer(r, f, expires),
           UNCHANGED <<multithreaded, threads_in_ipc_wait, handled>>
    PROVE  CountInv'
<1> DEFINE tm == IF expires THEN timeout_list \cup {f} ELSE timeout_list
<1>1. /\ event[f] = "initial" /\ CanDown /\ ready_list = <<>> /\ wakeups > 0 /\ TakeCall
      /\ ipc_waiter_list = <<>>
      /\ ipc_buffer_list' = Append(ipc_buffer_list, Received)
      /\ free' = free - 1 /\ sem' = sem - 1 /\ UNCHANGED <<ready_list, got>>
  BY DEF WaitBuffer
<1>2. /\ \A s \in Runners : s # r => run'[s] = run[s]
      /\ run'[r].pc \in {"run", "timeouts"} /\ run'[r].call = "none"
      /\ due' \subseteq timeout_list'
  <2>1. \E dst, ev, nt, fs : SwitchTo(r, dst, ev, nt, tm, fs, clean)
    BY DEF WaitBuffer, BlockAndSwitch
  <2>2. due \subseteq tm
    BY DEF CountInv, NumberType
  <2> HIDE DEF tm
  <2> QED BY <2>1, <2>2, SwitchRunner
<1>3. /\ InHand' = InHand /\ Buffering' = Buffering /\ Waiting' = Waiting /\ Carrying' = Carrying
  BY <1>2, WaitFacts, IdleStep DEF Idle
<1>4. Holding' = Holding
  BY <1>1 DEF Holding
<1>5. multithreaded
  <2>1. run[r].pc = "run" /\ (run[r].cur \in Workers \/ (fst[run[r].cur] = "linked" /\ event[run[r].cur] = "initial"))
    BY <1>1, WaitFacts
  <2>2. SingleInv /\ multithreaded \in BOOLEAN
    BY DEF CountInv, NumberType
  <2> QED BY <2>1, <2>2, <1>1, SingleHasWaiter
<1>6. Len(ready_list) = 0 /\ sem >= 1
  <2>1. Len(ready_list) = 0
    BY <1>1
  <2> QED BY <2>1, <1>1, WaitFacts, SemPositive
<1>7. /\ sem' \in Nat /\ free' \in Nat
      /\ sem' + Cardinality(InHand) = Len(ready_list) + free'
      /\ Cardinality(Buffering) <= free'
  <2>1. free' = free - 1 /\ sem' = sem - 1
    BY <1>1
  <2> QED BY <2>1, <1>6, TokenFacts
<1>8. /\ ipc_buffer_list' \in Seq(Calls \ {"none"})
      /\ Len(ipc_buffer_list') = Len(ipc_buffer_list) + 1
      /\ Received = "call" => Count(ipc_buffer_list', "call") = Count(ipc_buffer_list, "call") + 1
      /\ Received # "call" => Count(ipc_buffer_list', "call") = Count(ipc_buffer_list, "call")
  <2>1. ipc_buffer_list \in Seq(Calls \ {"none"}) /\ Received \in Calls \ {"none"}
    BY DEF CountInv, NumberType, Received, Calls
  <2>2. /\ ipc_buffer_list' \in Seq(Calls \ {"none"})
        /\ Len(ipc_buffer_list') = Len(ipc_buffer_list) + 1
    BY <2>1, <1>1, AppendList
  <2>3. Count(ipc_buffer_list', "call")
           = Count(ipc_buffer_list, "call") + (IF Received = "call" THEN 1 ELSE 0)
    BY <2>1, <1>1, CountAppend
  <2>4. Count(ipc_buffer_list, "call") \in Nat
    BY CountFacts
  <2> QED BY <2>2, <2>3, <2>4
<1>9. NumberType'
  BY <1>1, <1>2, <1>7, <1>8, WaitFacts, TakeCallFacts DEF CountInv, NumberType
<1>10. SingleInv'
  BY <1>5 DEF SingleInv
<1>11. arrived' = handled' + box' + Cardinality(Carrying')
                    + Count(ipc_buffer_list', "call") + Cardinality(Holding')
  <2>1. /\ arrived' = arrived /\ box' \in Nat
        /\ Received = "call" => box' = box - 1
        /\ Received # "call" => box' = box
    BY <1>1, TakeCallFacts
  <2>2. /\ Cardinality(Carrying') = Cardinality(Carrying) /\ handled' = handled
        /\ Cardinality(Holding') = Cardinality(Holding)
    BY <1>3, <1>4
  <2>3. CASE Received = "call"
    <3>1. /\ box' = box - 1
          /\ Count(ipc_buffer_list', "call") = Count(ipc_buffer_list, "call") + 1
      BY <2>1, <2>3, <1>8
    <3> QED BY <3>1, <2>1, <2>2, CallFacts
  <2>4. CASE Received # "call"
    <3>1. /\ box' = box
          /\ Count(ipc_buffer_list', "call") = Count(ipc_buffer_list, "call")
      BY <2>1, <2>4, <1>8
    <3> QED BY <3>1, <2>1, <2>2, CallFacts
  <2> QED BY <2>3, <2>4
<1>12. sem' + Cardinality(InHand') = Len(ready_list') + free' /\ Cardinality(Buffering') <= free'
  BY <1>1, <1>3, <1>7
<1>13. free' + Len(ipc_buffer_list') = BufferCount
  BY <1>1, <1>8, CountFacts, SMTT(60)
<1>14. threads_in_ipc_wait' = Cardinality(Waiting')
  BY <1>3, CountFacts
<1> QED BY <1>9, <1>10, <1>11, <1>12, <1>13, <1>14, CountNext

\* _ready_list_push() adds a token for every fibril.
LEMMA PushFacts ==
    ASSUME SchedInv, CountInv, NEW q \in Seq(Fibrils), ReadyListPush(q)
    PROVE  /\ sem' \in Nat /\ wakeups' \in Nat /\ Len(ready_list') \in Nat
           /\ sem' + Len(ready_list) = sem + Len(ready_list')
<1>1. ready_list \in Seq(Fibrils)
  BY DEF SchedInv, Sched, SchedType
<1>2. sem \in Nat /\ wakeups \in Nat
  BY DEF CountInv, NumberType
<1>3. Len(q) \in Nat /\ Len(ready_list) \in Nat
  BY <1>1, ListIsFunction
<1>4. ready_list' = ready_list \o q /\ sem' = sem + Len(q)
  BY DEF ReadyListPush
<1>5. Len(ready_list \o q) = Len(ready_list) + Len(q)
  BY <1>1, ConcatList
<1>6. wakeups' \in Nat
  <2>1. wakeups' = wakeups + Len(q) \/ wakeups' = wakeups
    BY DEF ReadyListPush
  <2> QED BY <2>1, <1>2, <1>3
<1> QED BY <1>2, <1>3, <1>4, <1>5, <1>6

\* A manager is done with what it got.
LEMMA Dropped ==
    ASSUME SchedInv, NEW f \in Managers, got' = [got EXCEPT ![f] = "none"]
    PROVE  /\ got[f] = "call" => Cardinality(Holding') = Cardinality(Holding) - 1
           /\ got[f] # "call" => Holding' = Holding
<1>1. got \in [Managers -> Calls]
  BY DEF SchedInv, Sched, SchedType
<1>2. got'[f] = "none" /\ \A g \in Managers : g # f => got'[g] = got[g]
  BY <1>1
<1>3. /\ Holding \ {f} = Holding' \ {f} /\ f \notin Holding'
      /\ f \in Holding <=> got[f] = "call"
  BY <1>2 DEF Holding
<1>4. IsFiniteSet(Holding)
  BY Finite
<1>5. got[f] = "call" => Cardinality(Holding') = Cardinality(Holding) - 1
  BY <1>3, <1>4, SetChange
<1>6. got[f] # "call" => Holding' = Holding
  BY <1>3
<1> QED BY <1>5, <1>6

LEMMA NotifyCount ==
    ASSUME SchedInv, CountInv, NEW r \in Runners, NEW f \in Fibrils, NEW g \in Workers,
           Notify(r, f, g)
    PROVE  CountInv'
<1>1. /\ UNCHANGED <<multithreaded, timeout_list, due, ipc_buffer_list, free,
                     threads_in_ipc_wait, box, arrived, run>>
      /\ run[r].pc = "run" /\ ReadyListPush(Woken(g))
  BY DEF Notify, Runs, ipcVars
<1>2. Woken(g) \in Seq(Fibrils)
  BY Constants DEF Woken
<1>3. /\ sem' \in Nat /\ wakeups' \in Nat /\ Len(ready_list') \in Nat
      /\ sem' + Len(ready_list) = sem + Len(ready_list')
  BY <1>1, <1>2, PushFacts
<1>4. SingleInv'
  BY <1>1, SingleStep DEF CountInv
<1>5. CASE Runs(r, f, "user") /\ f \in Workers /\ Operation /\ UNCHANGED <<got, handled>>
  <2>1. ops' \in 0..MaxOps
    BY <1>5, Constants DEF Operation, CountInv, NumberType
  <2>2. NumberType'
    BY <1>1, <1>3, <1>5, <2>1 DEF CountInv, NumberType
  <2>3. Holding' = Holding
    BY <1>5 DEF Holding
  <2> QED BY <1>1, <1>3, <1>4, <1>5, <2>2, <2>3, CountSame, RunnersStay
<1>6. CASE /\ Runs(r, f, "handle") /\ got[f] = "call" /\ got' = [got EXCEPT ![f] = "none"]
           /\ handled' = handled + 1 /\ UNCHANGED ops
  <2>1. f \in Managers
    BY <1>6 DEF Runs, SchedInv, Sched, FibrilInv, StateInv
  <2>2. handled' \in Nat
    BY <1>6 DEF CountInv, NumberType
  <2>3. NumberType'
    BY <1>1, <1>3, <1>6, <2>2 DEF CountInv, NumberType
  <2>4. Cardinality(Holding') = Cardinality(Holding) - 1
    BY <1>6, <2>1, Dropped
  <2>5. /\ InHand' = InHand /\ Buffering' = Buffering /\ Waiting' = Waiting
        /\ Carrying' = Carrying
    BY <1>1, RunnersStay
  <2>6. arrived' = handled' + box' + Cardinality(Carrying')
                     + Count(ipc_buffer_list', "call") + Cardinality(Holding')
    <3>1. /\ arrived' = arrived /\ handled' = handled + 1 /\ box' = box
          /\ Cardinality(Carrying') = Cardinality(Carrying)
          /\ Count(ipc_buffer_list', "call") = Count(ipc_buffer_list, "call")
      BY <1>1, <1>6, <2>5
    <3> QED BY <3>1, <2>4, CallFacts
  <2>7. sem' + Cardinality(InHand') = Len(ready_list') + free'
    <3>1. Cardinality(InHand') = Cardinality(InHand) /\ free' = free
      BY <1>1, <2>5
    <3>2. /\ sem \in Nat /\ Cardinality(InHand) \in Nat /\ free \in Nat /\ Len(ready_list) \in Nat
          /\ sem + Cardinality(InHand) = Len(ready_list) + free
      BY TokenFacts
    <3>3. sem' \in Nat /\ Len(ready_list') \in Nat /\ sem' + Len(ready_list) = sem + Len(ready_list')
      BY <1>3
    <3> QED BY <3>1, <3>2, <3>3
  <2>8. /\ Cardinality(Buffering') <= free' /\ free' + Len(ipc_buffer_list') = BufferCount
        /\ threads_in_ipc_wait' = Cardinality(Waiting')
    BY <1>1, <2>5, CountFacts
  <2> QED BY <1>4, <2>3, <2>6, <2>7, <2>8, CountNext
<1> QED BY <1>5, <1>6 DEF Notify

LEMMA DropNullCount ==
    ASSUME SchedInv, CountInv, NEW r \in Runners, NEW f \in Managers, DropNull(r, f)
    PROVE  CountInv'
<1>1. /\ UNCHANGED <<multithreaded, sem, ready_list, timeout_list, due, ipc_buffer_list, free,
                     threads_in_ipc_wait, box, wakeups, arrived, run, ops, handled>>
      /\ got[f] # "call" /\ got' = [got EXCEPT ![f] = "none"]
  BY DEF DropNull, ipcVars, kernelVars
<1>2. Holding' = Holding
  BY <1>1, Dropped
<1>3. NumberType'
  BY <1>1 DEF CountInv, NumberType
<1>4. SingleInv'
  BY <1>1 DEF CountInv, SingleInv
<1>5. Len(ready_list') \in Nat /\ sem' + Len(ready_list) = sem + Len(ready_list')
  BY <1>1, CountFacts
<1> QED BY <1>1, <1>2, <1>3, <1>4, <1>5, CountSame, RunnersStay

LEMMA StartCount ==
    ASSUME SchedInv, CountInv, NEW r \in Runners, NEW f \in Fibrils, NEW g \in Workers,
           Start(r, f, g)
    PROVE  CountInv'
<1>1. /\ UNCHANGED <<multithreaded, timeout_list, due, ipc_buffer_list, free, got,
                     threads_in_ipc_wait, box, arrived, run, handled>>
      /\ run[r].pc = "run" /\ ReadyListPush(<<g>>) /\ Operation
  BY DEF Start, Runs, ipcVars
<1>2. <<g>> \in Seq(Fibrils)
  BY Constants
<1>3. /\ sem' \in Nat /\ wakeups' \in Nat /\ Len(ready_list') \in Nat
      /\ sem' + Len(ready_list) = sem + Len(ready_list')
  BY <1>1, <1>2, PushFacts
<1>4. SingleInv'
  BY <1>1, SingleStep DEF CountInv
<1>5. ops' \in 0..MaxOps
  BY <1>1, Constants DEF Operation, CountInv, NumberType
<1>6. NumberType'
  BY <1>1, <1>3, <1>5 DEF CountInv, NumberType
<1>7. Holding' = Holding
  BY <1>1 DEF Holding
<1> QED BY <1>1, <1>3, <1>4, <1>6, <1>7, CountSame, RunnersStay

LEMMA SpawnRunnersCount ==
    ASSUME SchedInv, CountInv, NEW r \in Runners, NEW f \in Workers, SpawnRunners(r, f)
    PROVE  CountInv'
<1>1. /\ UNCHANGED <<sem, ready_list, timeout_list, due, got, ipc_buffer_list, free,
                     threads_in_ipc_wait, box, wakeups, arrived, ops, handled>>
      /\ multithreaded' = TRUE
  BY DEF SpawnRunners, fibrilVars, ipcVars, kernelVars
<1>2. \A s \in Runners : /\ run'[s].pc = IF run[s].pc = "off" THEN "timeouts" ELSE run[s].pc
                         /\ run'[s].call = run[s].call
  <2> SUFFICES ASSUME NEW s \in Runners
               PROVE  /\ run'[s].pc = IF run[s].pc = "off" THEN "timeouts" ELSE run[s].pc
                      /\ run'[s].call = run[s].call
    OBVIOUS
  <2>1. run'[s] = IF run[s].pc = "off" THEN Runner("timeouts", s, "none") ELSE run[s]
    BY DEF SpawnRunners
  <2>2. RunnerInv(s, run[s])
    BY DEF SchedInv, Sched
  <2> QED BY <2>1, <2>2, RunnerFields DEF RunnerInv
<1>3. /\ InHand' = InHand /\ Buffering' = Buffering /\ Waiting' = Waiting
      /\ Carrying' = Carrying
  <2>1. InHand' = InHand /\ Buffering' = Buffering
    BY <1>2 DEF InHand, Buffering
  <2>2. Waiting' = Waiting /\ Carrying' = Carrying
    BY <1>2 DEF Waiting, Carrying
  <2> QED BY <2>1, <2>2
<1>4. NumberType'
  BY <1>1 DEF CountInv, NumberType
<1>5. SingleInv'
  BY <1>1 DEF SingleInv
<1>6. Holding' = Holding
  BY <1>1 DEF Holding
<1>7. Len(ready_list') \in Nat /\ sem' + Len(ready_list) = sem + Len(ready_list')
  BY <1>1, CountFacts
<1> QED BY <1>1, <1>3, <1>4, <1>5, <1>6, <1>7, CountSame

LEMMA PopNonblockingCount ==
    ASSUME SchedInv, CountInv, NEW r \in Runners, NEW f \in Workers, NEW kind \in {"yield", "exit"},
           PopNonblocking(r, f, kind)
    PROVE  CountInv'
<1>1. /\ UNCHANGED <<multithreaded, sem, ready_list, timeout_list, due, got, ipc_buffer_list, free,
                     threads_in_ipc_wait, box, wakeups, arrived, handled>>
      /\ run' = [run EXCEPT ![r].pc = "down", ![r].kind = kind] /\ run[r].pc = "run"
  BY DEF PopNonblocking, Runs, fibrilVars, ipcVars, kernelVars
<1>2. run \in [Runners -> RunnerStates] /\ RunnerInv(r, run[r])
  BY DEF SchedInv, Sched, SchedType
<1>3. \A s \in Runners : s # r => run'[s] = run[s]
  BY <1>1, <1>2
<1>4. run'[r].pc = "down" /\ run'[r].call = "none"
  <2>1. run'[r] = [run[r] EXCEPT !.pc = "down", !.kind = kind] /\ run[r] \in RunnerStates
    BY <1>1, <1>2
  <2>2. run[r].call = "none"
    BY <1>1, <1>2 DEF RunnerInv
  <2> QED BY <2>1, <2>2 DEF RunnerStates
<1>5. /\ InHand' = InHand /\ Buffering' = Buffering /\ Waiting' = Waiting /\ Carrying' = Carrying
  BY <1>1, <1>3, <1>4, IdleStep DEF Idle
<1>6. ops' \in 0..MaxOps
  BY Constants DEF PopNonblocking, Operation, CountInv, NumberType
<1>7. NumberType'
  BY <1>1, <1>6 DEF CountInv, NumberType
<1>8. SingleInv'
  BY <1>1, <1>3, <1>4, SingleStep DEF CountInv
<1>9. Holding' = Holding
  BY <1>1 DEF Holding
<1>10. Len(ready_list') \in Nat /\ sem' + Len(ready_list) = sem + Len(ready_list')
  BY <1>1, CountFacts
<1> QED BY <1>1, <1>5, <1>7, <1>8, <1>9, <1>10, CountSame

LEMMA HandleExpiredTimeoutsCount ==
    ASSUME SchedInv, CountInv, NEW r \in Runners, HandleExpiredTimeouts(r)
    PROVE  CountInv'
<1>1. /\ UNCHANGED <<multithreaded, got, ipc_buffer_list, free, threads_in_ipc_wait, box, arrived,
                     ops, handled>>
      /\ due' = {} /\ run[r].pc = "timeouts"
  BY DEF HandleExpiredTimeouts, ipcVars
<1>2. \E q \in SetToSeqs({f \in due : event[f] = "waiting"}) : ReadyListPush(q)
  BY DEF HandleExpiredTimeouts
<1>3. \A q \in SetToSeqs({f \in due : event[f] = "waiting"}) : q \in Seq(Fibrils)
  <2> DEFINE T == {f \in due : event[f] = "waiting"}
  <2>1. T \in SUBSET Fibrils
    BY DEF SchedInv, Sched, CountInv, NumberType
  <2>2. IsFiniteSet(T)
    BY <2>1, Constants, FS_Subset
  <2>3. \A q \in SetToSeqs(T) : q \in Seq(T)
    BY <2>2, ListOfSet
  <2> HIDE DEF T
  <2>4. \A q \in SetToSeqs(T) : q \in Seq(Fibrils)
    BY <2>1, <2>3
  <2> QED BY <2>4 DEF T
<1>4. /\ sem' \in Nat /\ wakeups' \in Nat /\ Len(ready_list') \in Nat
      /\ sem' + Len(ready_list) = sem + Len(ready_list')
  BY <1>2, <1>3, PushFacts
<1>5. /\ \A s \in Runners : s # r => run'[s] = run[s]
      /\ run'[r].pc = "down" /\ run'[r].call = "none"
  <2>1. PICK next \in NextTimeout(RemainingTimeouts) :
            run' = [run EXCEPT ![r] = [Runner("down", r, "helper") EXCEPT !.to = next]]
    BY DEF HandleExpiredTimeouts
  <2>2. run \in [Runners -> RunnerStates]
    BY DEF SchedInv, Sched, SchedType
  <2>3. /\ \A s \in Runners : s # r => run'[s] = run[s]
        /\ run'[r] = [Runner("down", r, "helper") EXCEPT !.to = next]
    BY <2>1, <2>2
  <2> QED BY <2>3 DEF Runner
<1>6. /\ InHand' = InHand /\ Buffering' = Buffering /\ Waiting' = Waiting /\ Carrying' = Carrying
  BY <1>1, <1>5, IdleStep DEF Idle
<1>7. NumberType'
  BY <1>1, <1>4 DEF CountInv, NumberType
<1>8. SingleInv'
  BY <1>1, <1>5, SingleStep DEF CountInv
<1>9. Holding' = Holding
  BY <1>1 DEF Holding
<1> QED BY <1>1, <1>4, <1>6, <1>7, <1>8, <1>9, CountSame

LEMMA ArriveCount ==
    ASSUME SchedInv, CountInv, Arrive
    PROVE  CountInv'
<1>1. /\ UNCHANGED <<multithreaded, sem, ready_list, timeout_list, due, got, ipc_buffer_list, free,
                     threads_in_ipc_wait, run, ops, handled>>
      /\ arrived < MaxCalls /\ arrived' = arrived + 1 /\ box' = box + 1 /\ wakeups' = wakeups + 1
  BY DEF Arrive, fibrilVars, ipcVars
<1>2. NumberType'
  BY <1>1, Constants DEF CountInv, NumberType
<1>3. SingleInv'
  BY <1>1 DEF CountInv, SingleInv
<1>4. /\ InHand' = InHand /\ Buffering' = Buffering /\ Waiting' = Waiting /\ Carrying' = Carrying
      /\ Holding' = Holding
  BY <1>1, RunnersStay DEF Holding
<1>5. arrived' = handled' + box' + Cardinality(Carrying')
                   + Count(ipc_buffer_list', "call") + Cardinality(Holding')
  <2>1. /\ arrived' = arrived + 1 /\ handled' = handled /\ box' = box + 1
        /\ Cardinality(Carrying') = Cardinality(Carrying)
        /\ Cardinality(Holding') = Cardinality(Holding)
        /\ Count(ipc_buffer_list', "call") = Count(ipc_buffer_list, "call")
    BY <1>1, <1>4
  <2> QED BY <2>1, CallFacts
<1>6. /\ sem' + Cardinality(InHand') = Len(ready_list') + free'
      /\ Cardinality(Buffering') <= free' /\ free' + Len(ipc_buffer_list') = BufferCount
      /\ threads_in_ipc_wait' = Cardinality(Waiting')
  BY <1>1, <1>4, CountFacts
<1> QED BY <1>2, <1>3, <1>5, <1>6, CountNext

LEMMA ExpireCount ==
    ASSUME SchedInv, CountInv, NEW f \in Fibrils, Expire(f)
    PROVE  CountInv'
<1>1. /\ UNCHANGED <<multithreaded, sem, ready_list, timeout_list, got, ipc_buffer_list, free,
                     threads_in_ipc_wait, box, wakeups, arrived, run, ops, handled>>
      /\ f \in timeout_list /\ due' = due \cup {f}
  BY DEF Expire, fibrilVars, ipcVars, kernelVars
<1>2. NumberType'
  BY <1>1 DEF CountInv, NumberType
<1>3. SingleInv'
  BY <1>1 DEF CountInv, SingleInv
<1>4. Holding' = Holding
  BY <1>1 DEF Holding
<1>5. Len(ready_list') \in Nat /\ sem' + Len(ready_list) = sem + Len(ready_list')
  BY <1>1, CountFacts
<1> QED BY <1>1, <1>2, <1>3, <1>4, <1>5, CountSame, RunnersStay

LEMMA WaitIpcCount ==
    ASSUME SchedInv, CountInv, NEW r \in Runners, NEW f \in Managers, WaitIpc(r, f)
    PROVE  CountInv'
<1>1. /\ UNCHANGED <<multithreaded, ready_list, timeout_list, due, threads_in_ipc_wait, box, wakeups,
                     arrived, run, ops, handled>>
      /\ run[r].pc = "run" /\ fst[f] = "user"
  BY DEF WaitIpc, Runs, kernelVars
<1>2. /\ InHand' = InHand /\ Buffering' = Buffering /\ Waiting' = Waiting /\ Carrying' = Carrying
  BY <1>1, RunnersStay
<1>3. CASE ipc_buffer_list = <<>>
  <2>1. UNCHANGED <<got, ipc_buffer_list, free, sem>>
    BY <1>3 DEF WaitIpc
  <2>2. NumberType'
    BY <1>1, <2>1 DEF CountInv, NumberType
  <2>3. SingleInv'
    BY <1>1, <2>1 DEF CountInv, SingleInv
  <2>4. Holding' = Holding
    BY <2>1 DEF Holding
  <2>5. Len(ready_list') \in Nat /\ sem' + Len(ready_list) = sem + Len(ready_list')
    BY <1>1, <2>1, CountFacts
  <2> QED BY <1>1, <1>2, <2>1, <2>2, <2>3, <2>4, <2>5, CountSame
<1>4. CASE ipc_buffer_list # <<>>
  <2> DEFINE c == Head(ipc_buffer_list)
  <2>1. /\ got' = [got EXCEPT ![f] = c] /\ ipc_buffer_list' = Tail(ipc_buffer_list)
        /\ free' = free + 1 /\ sem' = sem + 1
    BY <1>4 DEF WaitIpc
  <2>2. ipc_buffer_list \in Seq(Calls \ {"none"})
    BY DEF CountInv, NumberType
  <2>3. /\ Tail(ipc_buffer_list) \in Seq(Calls \ {"none"}) /\ c \in Calls
        /\ Len(Tail(ipc_buffer_list)) = Len(ipc_buffer_list) - 1
    BY <1>4, <2>2, TailList
  <2>4. got[f] = "none"
    BY <1>1 DEF SchedInv, Sched, ManagerInv
  <2>5. /\ Cardinality(Holding') \in Nat
        /\ c = "call" => Cardinality(Holding') = Cardinality(Holding) + 1
        /\ c # "call" => Cardinality(Holding') = Cardinality(Holding)
    <3> HIDE DEF c
    <3> QED BY <2>1, <2>3, <2>4, HandedOver
  <2>6. /\ Count(ipc_buffer_list', "call") \in Nat
        /\ Count(ipc_buffer_list, "call") = Count(ipc_buffer_list', "call") + (IF c = "call" THEN 1 ELSE 0)
    <3>1. Count(Tail(ipc_buffer_list), "call") \in Nat
      BY <2>3, CountIsNat
    <3>2. Count(ipc_buffer_list, "call") = Count(Tail(ipc_buffer_list), "call") + (IF c = "call" THEN 1 ELSE 0)
      BY <1>4, <2>2, CountTail
    <3> QED BY <3>1, <3>2, <2>1
  <2> HIDE DEF c
  <2>7. sem' \in Nat /\ free' \in Nat
    BY <2>1, TokenFacts
  <2>8. NumberType'
    BY <1>1, <2>1, <2>3, <2>7 DEF CountInv, NumberType
  <2>9. SingleInv'
    BY <1>1, <1>4 DEF CountInv, SingleInv
  <2>10. arrived' = handled' + box' + Cardinality(Carrying')
                     + Count(ipc_buffer_list', "call") + Cardinality(Holding')
    <3>1. /\ arrived' = arrived /\ handled' = handled /\ box' = box
          /\ Cardinality(Carrying') = Cardinality(Carrying)
      BY <1>1, <1>2
    <3>2. CASE c = "call"
      <4>1. /\ Count(ipc_buffer_list, "call") = Count(ipc_buffer_list', "call") + 1
            /\ Count(ipc_buffer_list', "call") \in Nat
            /\ Cardinality(Holding') = Cardinality(Holding) + 1
        BY <3>2, <2>5, <2>6
      <4> QED BY <3>1, <4>1, CallFacts
    <3>3. CASE c # "call"
      <4>1. /\ Count(ipc_buffer_list, "call") = Count(ipc_buffer_list', "call")
            /\ Cardinality(Holding') = Cardinality(Holding)
        BY <3>3, <2>5, <2>6
      <4> QED BY <3>1, <4>1, CallFacts
    <3> QED BY <3>2, <3>3
  <2>11. /\ sem' + Cardinality(InHand') = Len(ready_list') + free'
         /\ Cardinality(Buffering') <= free'
    <3>1. /\ sem' = sem + 1 /\ free' = free + 1 /\ ready_list' = ready_list
          /\ Cardinality(InHand') = Cardinality(InHand)
          /\ Cardinality(Buffering') = Cardinality(Buffering)
      BY <1>1, <1>2, <2>1
    <3> QED BY <3>1, TokenFacts
  <2>12. free' + Len(ipc_buffer_list') = BufferCount
    <3>1. free' = free + 1 /\ Len(ipc_buffer_list') = Len(ipc_buffer_list) - 1
      BY <2>1, <2>3
    <3> QED BY <3>1, CountFacts
  <2>13. threads_in_ipc_wait' = Cardinality(Waiting')
    BY <1>1, <1>2, CountFacts
  <2> QED BY <2>8, <2>9, <2>10, <2>11, <2>12, <2>13, CountNext
<1> QED BY <1>3, <1>4

\* A step that moves the token of a runner and touches no call.
LEMMA TokenMove ==
    ASSUME SchedInv, CountInv, NumberType', SingleInv',
           Carrying' = Carrying, Holding' = Holding,
           UNCHANGED <<free, ipc_buffer_list, arrived, handled, box>>,
           sem' + Cardinality(InHand') = Len(ready_list') + free,
           Cardinality(Buffering') <= free,
           threads_in_ipc_wait' = Cardinality(Waiting')
    PROVE  CountInv'
<1>1. arrived' = handled' + box' + Cardinality(Carrying')
                   + Count(ipc_buffer_list', "call") + Cardinality(Holding')
  BY CountFacts
<1>2. free' + Len(ipc_buffer_list') = BufferCount
  BY CountFacts
<1> QED BY <1>1, <1>2, CountNext

LEMMA DownCount ==
    ASSUME SchedInv, CountInv, NEW r \in Runners, Down(r)
    PROVE  CountInv'
<1>1. /\ UNCHANGED <<multithreaded, ready_list, timeout_list, due, got, ipc_buffer_list, free,
                     threads_in_ipc_wait, box, wakeups, arrived, ops, handled>>
      /\ run[r].pc = "down"
  BY DEF Down, fibrilVars, ipcVars, kernelVars
<1>2. Holding' = Holding
  BY <1>1 DEF Holding
<1>3. run \in [Runners -> RunnerStates] /\ RunnerInv(r, run[r])
  BY DEF SchedInv, Sched, SchedType
<1>4. CASE CanDown /\ sem' = sem - 1 /\ run' = [run EXCEPT ![r].pc = "pop"]
  <2>1. run[r].kind # "none" /\ run[r].call = "none" /\ "none" \in Calls
    BY <1>1, <1>3 DEF RunnerInv, Calls
  <2>2. /\ \A s \in Runners : s # r => run'[s] = run[s]
        /\ run'[r].pc = "pop" /\ run'[r].call = "none"
    BY <1>1, <1>4, <2>1, PcStep, ZenonT(60)
  <2>3. /\ InHand \ {r} = InHand' \ {r} /\ r \notin InHand /\ r \in InHand'
        /\ Buffering \ {r} = Buffering' \ {r} /\ r \notin Buffering /\ r \notin Buffering'
        /\ Waiting \ {r} = Waiting' \ {r} /\ r \notin Waiting /\ r \notin Waiting'
        /\ Carrying \ {r} = Carrying' \ {r} /\ r \notin Carrying /\ r \notin Carrying'
    BY <1>1, <2>1, <2>2, TokenStep
  <2>4. Cardinality(InHand') = Cardinality(InHand) + 1
    BY <2>3, Finite, SetChange
  <2>5. Buffering' = Buffering /\ Waiting' = Waiting /\ Carrying' = Carrying
    BY <2>3
  <2>6. sem >= 1
    BY <1>1, <1>4, SemPositive
  <2>7. sem' \in Nat /\ sem' + Cardinality(InHand') = Len(ready_list') + free
    <3>1. sem' = sem - 1 /\ Len(ready_list') = Len(ready_list)
      BY <1>1, <1>4
    <3> QED BY <3>1, <2>4, <2>6, TokenFacts
  <2>8. NumberType'
    BY <1>1, <2>7 DEF CountInv, NumberType
  <2>9. SingleInv'
    BY <1>1, <2>2, SingleStep DEF CountInv
  <2>10. Cardinality(Buffering') <= free /\ threads_in_ipc_wait' = Cardinality(Waiting')
    BY <1>1, <2>5, CountFacts
  <2> QED BY <1>1, <1>2, <2>5, <2>7, <2>8, <2>9, <2>10, TokenMove
<1>5. CASE PopFails(r) /\ UNCHANGED sem
  <2>1. /\ \A s \in Runners : s # r => run'[s] = run[s]
        /\ run'[r].pc \in {"timeouts", "run", "switch"} /\ run'[r].call = "none"
    BY <1>1, <1>5, PopFailsRunner
  <2>2. /\ InHand' = InHand /\ Buffering' = Buffering /\ Waiting' = Waiting /\ Carrying' = Carrying
    BY <1>1, <2>1, IdleStep DEF Idle
  <2>3. NumberType'
    BY <1>1, <1>5 DEF CountInv, NumberType
  <2>4. SingleInv'
    BY <1>1, <2>1, SingleStep DEF CountInv
  <2>5. Len(ready_list') \in Nat /\ sem' + Len(ready_list) = sem + Len(ready_list')
    BY <1>1, <1>5, CountFacts
  <2> QED BY <1>1, <1>2, <2>2, <2>3, <2>4, <2>5, CountSame
<1> QED BY <1>4, <1>5 DEF Down

LEMMA PopCount ==
    ASSUME SchedInv, CountInv, NEW r \in Runners, Pop(r)
    PROVE  CountInv'
<1>1. /\ UNCHANGED <<multithreaded, sem, timeout_list, due, got, ipc_buffer_list, free,
                     box, wakeups, arrived, ops, handled>>
      /\ run[r].pc = "pop"
  BY DEF Pop, fibrilVars, ipcVars, kernelVars
<1>2. Holding' = Holding
  BY <1>1 DEF Holding
<1>3. run \in [Runners -> RunnerStates] /\ RunnerInv(r, run[r])
  BY DEF SchedInv, Sched, SchedType
<1>4. run[r].kind # "none" /\ run[r].call = "none" /\ "none" \in Calls
  BY <1>1, <1>3 DEF RunnerInv, Calls
<1>5. NumberType'
  BY <1>1 DEF CountInv, NumberType
<1>6. CASE ready_list # <<>>
  <2> DEFINE h == Head(ready_list)
  <2>1. /\ ready_list' = Tail(ready_list) /\ threads_in_ipc_wait' = threads_in_ipc_wait
        /\ run' = [run EXCEPT ![r].pc = "switch", ![r].hand = h]
    BY <1>6 DEF Pop
  <2> HIDE DEF h
  <2>2. \A s \in Runners : s # r => run'[s] = run[s]
    BY <1>3, <2>1
  <2>3. run'[r].pc = "switch" /\ run'[r].call = "none"
    <3>1. run'[r] = [run[r] EXCEPT !.pc = "switch", !.hand = h] /\ run[r] \in RunnerStates
      BY <1>3, <2>1
    <3> QED BY <3>1, <1>4 DEF RunnerStates
  <2>4. /\ InHand \ {r} = InHand' \ {r} /\ r \in InHand /\ r \notin InHand'
        /\ Buffering \ {r} = Buffering' \ {r} /\ r \notin Buffering /\ r \notin Buffering'
        /\ Waiting \ {r} = Waiting' \ {r} /\ r \notin Waiting /\ r \notin Waiting'
        /\ Carrying \ {r} = Carrying' \ {r} /\ r \notin Carrying /\ r \notin Carrying'
    BY <1>1, <1>4, <2>2, <2>3, TokenStep
  <2>5. Cardinality(InHand') = Cardinality(InHand) - 1
    BY <2>4, Finite, SetChange
  <2>6. Buffering' = Buffering /\ Waiting' = Waiting /\ Carrying' = Carrying
    BY <2>4
  <2>7. sem' + Cardinality(InHand') = Len(ready_list') + free
    <3>1. ready_list \in Seq(Fibrils)
      BY DEF SchedInv, Sched, SchedType
    <3>2. sem' = sem /\ Len(ready_list') = Len(ready_list) - 1
      BY <1>1, <1>6, <2>1, <3>1, TailList
    <3> QED BY <3>2, <2>5, TokenFacts
  <2>8. SingleInv'
    BY <1>1, <2>2, <2>3, SingleStep DEF CountInv
  <2>9. Cardinality(Buffering') <= free /\ threads_in_ipc_wait' = Cardinality(Waiting')
    BY <2>1, <2>6, CountFacts
  <2> QED BY <1>1, <1>2, <1>5, <2>6, <2>7, <2>8, <2>9, TokenMove
<1>7. CASE ready_list = <<>>
  <2>1. /\ ready_list' = ready_list /\ threads_in_ipc_wait' = threads_in_ipc_wait + 1
        /\ run' = [run EXCEPT ![r].pc = "ipc"]
    BY <1>7 DEF Pop
  <2>2. /\ \A s \in Runners : s # r => run'[s] = run[s]
        /\ run'[r].pc = "ipc" /\ run'[r].call = "none"
    BY <1>1, <1>4, <2>1, PcStep, ZenonT(60)
  <2>3. /\ InHand \ {r} = InHand' \ {r} /\ r \in InHand /\ r \in InHand'
        /\ Waiting \ {r} = Waiting' \ {r} /\ r \notin Waiting /\ r \in Waiting'
        /\ Carrying \ {r} = Carrying' \ {r} /\ r \notin Carrying /\ r \notin Carrying'
    BY <1>1, <1>4, <2>2, TokenStep
  <2>4. InHand' = InHand /\ Carrying' = Carrying
    BY <2>3
  <2>5. Cardinality(Waiting') = Cardinality(Waiting) + 1
    BY <2>3, Finite, SetChange
  <2>6. Cardinality(Buffering') <= free
    <3>1. Buffering' \in SUBSET InHand
      <4>1. Buffering' \in SUBSET InHand'
        BY DEF Buffering, InHand
      <4> QED BY <4>1, <2>4
    <3>2. IsFiniteSet(InHand)
      BY Finite
    <3>3. IsFiniteSet(Buffering') /\ Cardinality(Buffering') <= Cardinality(InHand)
      BY <3>1, <3>2, FS_Subset
    <3>4. Cardinality(Buffering') \in Nat
      BY <3>3, FS_CardinalityType
    <3>5. Len(ready_list) = 0
      BY <1>7
    <3>6. /\ sem \in Nat /\ Cardinality(InHand) \in Nat /\ free \in Nat
          /\ sem + Cardinality(InHand) = Len(ready_list) + free
      BY TokenFacts
    <3>7. Cardinality(InHand) <= free
      BY <3>5, <3>6
    <3> QED BY <3>3, <3>4, <3>6, <3>7
  <2>7. sem' + Cardinality(InHand') = Len(ready_list') + free
    BY <1>1, <2>1, <2>4, TokenFacts
  <2>8. SingleInv'
    BY <1>1, <1>7, <2>1, <2>2, SingleStep DEF CountInv
  <2>9. threads_in_ipc_wait' = Cardinality(Waiting')
    BY <2>1, <2>5, CountFacts
  <2> QED BY <1>1, <1>2, <1>5, <2>4, <2>6, <2>7, <2>8, <2>9, TokenMove
<1> QED BY <1>6, <1>7

LEMMA IpcWaitCount ==
    ASSUME SchedInv, CountInv, NEW r \in Runners, IpcWait(r)
    PROVE  CountInv'
<1>1. /\ UNCHANGED <<multithreaded, sem, ready_list, timeout_list, due, got, ipc_buffer_list, free,
                     threads_in_ipc_wait, ops, handled>>
      /\ run[r].pc = "ipc"
  BY DEF IpcWait, fibrilVars, ipcVars
<1>2. Holding' = Holding
  BY <1>1 DEF Holding
<1>3. run[r].kind # "none" /\ run[r].call = "none" /\ "none" \in Calls /\ Received \in Calls
  <2>1. RunnerInv(r, run[r])
    BY DEF SchedInv, Sched
  <2> QED BY <2>1, <1>1 DEF RunnerInv, Received, Calls
<1>4. ASSUME NEW c \in Calls,
             (run' = [run EXCEPT ![r].pc = "leave"] /\ c = run[r].call)
                \/ run' = [run EXCEPT ![r].pc = "leave", ![r].call = c]
      PROVE  /\ InHand' = InHand /\ Buffering' = Buffering /\ Waiting' = Waiting
             /\ Carrying \ {r} = Carrying' \ {r} /\ r \notin Carrying
             /\ r \in Carrying' <=> c = "call"
             /\ SingleInv'
  <2>1. /\ \A s \in Runners : s # r => run'[s] = run[s]
        /\ run'[r].pc = "leave" /\ run'[r].call = c
    BY <1>1, <1>3, <1>4, PcStep, ZenonT(60)
  <2>2. /\ InHand \ {r} = InHand' \ {r} /\ r \in InHand /\ r \in InHand'
        /\ Buffering \ {r} = Buffering' \ {r} /\ r \in Buffering /\ r \in Buffering'
        /\ Waiting \ {r} = Waiting' \ {r} /\ r \in Waiting /\ r \in Waiting'
        /\ Carrying \ {r} = Carrying' \ {r} /\ r \notin Carrying
        /\ r \in Carrying' <=> c = "call"
    BY <1>1, <1>3, <2>1, TokenStep
  <2>3. InHand' = InHand /\ Buffering' = Buffering /\ Waiting' = Waiting
    BY <2>2
  <2>4. SingleInv'
    BY <1>1, <2>1, SingleStep DEF CountInv
  <2> QED BY <2>2, <2>3, <2>4
<1>5. CASE wakeups > 0 /\ TakeCall /\ run' = [run EXCEPT ![r].pc = "leave", ![r].call = Received]
  <2>1. /\ InHand' = InHand /\ Buffering' = Buffering /\ Waiting' = Waiting
        /\ Carrying \ {r} = Carrying' \ {r} /\ r \notin Carrying
        /\ r \in Carrying' <=> Received = "call"
        /\ SingleInv'
    BY <1>3, <1>4, <1>5
  <2>2. /\ Received = "call" => Cardinality(Carrying') = Cardinality(Carrying) + 1
        /\ Received # "call" => Cardinality(Carrying') = Cardinality(Carrying)
    BY <2>1, Finite, SetChange
  <2>3. /\ wakeups' \in Nat /\ box' \in Nat /\ arrived' = arrived
        /\ Received = "call" => box' = box - 1
        /\ Received # "call" => box' = box
    BY <1>5, TakeCallFacts
  <2>4. NumberType'
    BY <1>1, <2>3 DEF CountInv, NumberType
  <2>5. arrived' = handled' + box' + Cardinality(Carrying')
                     + Count(ipc_buffer_list', "call") + Cardinality(Holding')
    <3>1. /\ arrived' = arrived /\ handled' = handled
          /\ Cardinality(Holding') = Cardinality(Holding)
          /\ Count(ipc_buffer_list', "call") = Count(ipc_buffer_list, "call")
      BY <1>1, <1>2, <2>3
    <3>2. CASE Received = "call"
      <4>1. box' = box - 1 /\ Cardinality(Carrying') = Cardinality(Carrying) + 1
        BY <3>2, <2>2, <2>3
      <4> QED BY <4>1, <3>1, CallFacts
    <3>3. CASE Received # "call"
      <4>1. box' = box /\ Cardinality(Carrying') = Cardinality(Carrying)
        BY <3>3, <2>2, <2>3
      <4> QED BY <4>1, <3>1, CallFacts
    <3> QED BY <3>2, <3>3
  <2>6. /\ sem' + Cardinality(InHand') = Len(ready_list') + free'
        /\ Cardinality(Buffering') <= free' /\ free' + Len(ipc_buffer_list') = BufferCount
        /\ threads_in_ipc_wait' = Cardinality(Waiting')
    BY <1>1, <2>1, CountFacts
  <2> QED BY <2>1, <2>4, <2>5, <2>6, CountNext
<1>6. CASE run' = [run EXCEPT ![r].pc = "leave"] /\ UNCHANGED <<box, wakeups, arrived>>
  <2>1. /\ InHand' = InHand /\ Buffering' = Buffering /\ Waiting' = Waiting
        /\ Carrying \ {r} = Carrying' \ {r} /\ r \notin Carrying /\ r \notin Carrying'
        /\ SingleInv'
    BY <1>3, <1>4, <1>6
  <2>2. Carrying' = Carrying
    BY <2>1
  <2>3. NumberType'
    BY <1>1, <1>6 DEF CountInv, NumberType
  <2>4. Len(ready_list') \in Nat /\ sem' + Len(ready_list) = sem + Len(ready_list')
    BY <1>1, CountFacts
  <2> QED BY <1>1, <1>2, <1>6, <2>1, <2>2, <2>3, <2>4, CountSame
<1> QED BY <1>5, <1>6 DEF IpcWait, kernelVars

LEMMA LeaveIpcCount ==
    ASSUME SchedInv, CountInv, NEW r \in Runners, LeaveIpc(r)
    PROVE  CountInv'
<1>1. /\ UNCHANGED <<multithreaded, sem, ready_list, timeout_list, due, got, ipc_buffer_list, free,
                     box, wakeups, arrived, ops, handled>>
      /\ run[r].pc = "leave" /\ threads_in_ipc_wait' = threads_in_ipc_wait - 1
  BY DEF LeaveIpc, fibrilVars, ipcVars, kernelVars
<1>2. Holding' = Holding
  BY <1>1 DEF Holding
<1>3. run[r].kind # "none" /\ run[r].call \in Calls
  <2>1. RunnerInv(r, run[r]) /\ run[r] \in RunnerStates
    BY DEF SchedInv, Sched, SchedType
  <2> QED BY <2>1, <1>1 DEF RunnerInv, RunnerStates
<1>4. /\ \A s \in Runners : s # r => run'[s] = run[s]
      /\ run'[r].pc \in {"return", "deliver"} /\ run'[r].call = run[r].call
  <2>1. CASE run[r].call = "none"
    <3>1. run' = [run EXCEPT ![r].pc = "return"]
      BY <2>1 DEF LeaveIpc
    <3> QED BY <1>1, <1>3, <2>1, <3>1, PcStep, ZenonT(60)
  <2>2. CASE run[r].call # "none"
    <3>1. run' = [run EXCEPT ![r].pc = "deliver"]
      BY <2>2 DEF LeaveIpc
    <3> QED BY <1>1, <1>3, <2>2, <3>1, PcStep
  <2> QED BY <2>1, <2>2
<1>5. /\ InHand \ {r} = InHand' \ {r} /\ r \in InHand /\ r \in InHand'
      /\ Buffering \ {r} = Buffering' \ {r} /\ r \in Buffering /\ r \in Buffering'
      /\ Waiting \ {r} = Waiting' \ {r} /\ r \in Waiting /\ r \notin Waiting'
      /\ Carrying \ {r} = Carrying' \ {r}
      /\ r \in Carrying <=> r \in Carrying'
  BY <1>1, <1>4, TokenStep
<1>6. InHand' = InHand /\ Buffering' = Buffering /\ Carrying' = Carrying
  BY <1>5
<1>7. Cardinality(Waiting') = Cardinality(Waiting) - 1
  BY <1>5, Finite, SetChange
<1>8. NumberType'
  BY <1>1 DEF CountInv, NumberType
<1>9. SingleInv'
  BY <1>1, <1>4, SingleStep DEF CountInv
<1>10. sem' + Cardinality(InHand') = Len(ready_list') + free /\ Cardinality(Buffering') <= free
  BY <1>1, <1>6, TokenFacts
<1>11. threads_in_ipc_wait' = Cardinality(Waiting')
  BY <1>1, <1>7, CountFacts
<1> QED BY <1>1, <1>2, <1>6, <1>8, <1>9, <1>10, <1>11, TokenMove

\* A runner gives its token away, to the semaphore or to a buffer.
LEMMA TokenGone ==
    ASSUME SchedInv, CountInv, NEW r \in Runners, run[r].pc \in {"return", "deliver"},
           \A s \in Runners : s # r => run'[s] = run[s], run'[r].pc \in Idle, run'[r].call = "none",
           UNCHANGED ready_list,
           (sem' = sem + 1 /\ free' = free) \/ (sem' = sem /\ free' = free - 1)
    PROVE  /\ sem' \in Nat /\ free' \in Nat
           /\ sem' + Cardinality(InHand') = Len(ready_list') + free'
           /\ Cardinality(Buffering') <= free' /\ Waiting' = Waiting
           /\ run[r].call = "call" => Cardinality(Carrying') = Cardinality(Carrying) - 1
           /\ run[r].call # "call" => Carrying' = Carrying
<1>1. /\ InHand \ {r} = InHand' \ {r} /\ r \in InHand /\ r \notin InHand'
      /\ Buffering \ {r} = Buffering' \ {r} /\ r \in Buffering /\ r \notin Buffering'
      /\ Waiting \ {r} = Waiting' \ {r} /\ r \notin Waiting /\ r \notin Waiting'
      /\ Carrying \ {r} = Carrying' \ {r} /\ r \notin Carrying'
      /\ r \in Carrying <=> run[r].call = "call"
  BY TokenStep DEF Idle
<1>2. Cardinality(InHand') = Cardinality(InHand) - 1 /\ Cardinality(InHand') \in Nat
  BY <1>1, Finite, SetChange
<1>3. Cardinality(Buffering') = Cardinality(Buffering) - 1 /\ Cardinality(Buffering') \in Nat
  BY <1>1, Finite, SetChange
<1>4. Waiting' = Waiting
  <2>1. Waiting \ {r} = Waiting' \ {r} /\ r \notin Waiting /\ r \notin Waiting'
    BY <1>1
  <2> QED BY <2>1
<1>5. run[r].call = "call" => Cardinality(Carrying') = Cardinality(Carrying) - 1
  BY <1>1, Finite, SetChange
<1>6. run[r].call # "call" => Carrying' = Carrying
  <2>1. /\ Carrying \ {r} = Carrying' \ {r} /\ r \notin Carrying'
        /\ run[r].call # "call" => r \notin Carrying
    BY <1>1
  <2> QED BY <2>1
<1>7. /\ sem' \in Nat /\ free' \in Nat
      /\ sem' + Cardinality(InHand') = Len(ready_list') + free'
      /\ Cardinality(Buffering') <= free'
  <2>1. Len(ready_list') = Len(ready_list)
    OBVIOUS
  <2>2. CASE sem' = sem + 1 /\ free' = free
    BY <2>1, <2>2, <1>2, <1>3, TokenFacts
  <2>3. CASE sem' = sem /\ free' = free - 1
    <3>1. /\ sem \in Nat /\ free \in Nat /\ Len(ready_list) \in Nat
          /\ Cardinality(InHand) \in Nat /\ Cardinality(Buffering) \in Nat
          /\ sem + Cardinality(InHand) = Len(ready_list) + free
          /\ Cardinality(Buffering) <= free
      BY TokenFacts
    <3>2. free' \in Nat /\ Cardinality(Buffering') <= free'
      BY <2>3, <3>1, <1>3
    <3>3. sem' + Cardinality(InHand') = Len(ready_list') + free'
      BY <2>1, <2>3, <3>1, <1>2
    <3> QED BY <2>3, <3>1, <3>2, <3>3
  <2> QED BY <2>2, <2>3
<1> QED BY <1>4, <1>5, <1>6, <1>7

LEMMA ReturnTokenCount ==
    ASSUME SchedInv, CountInv, NEW r \in Runners, ReturnToken(r)
    PROVE  CountInv'
<1>1. /\ UNCHANGED <<multithreaded, ready_list, timeout_list, due, got, ipc_buffer_list, free,
                     threads_in_ipc_wait, box, wakeups, arrived, ops, handled>>
      /\ run[r].pc = "return" /\ sem' = sem + 1 /\ PopFails(r)
  BY DEF ReturnToken, fibrilVars, ipcVars, kernelVars
<1>2. /\ \A s \in Runners : s # r => run'[s] = run[s]
      /\ run'[r].pc \in {"timeouts", "run", "switch"} /\ run'[r].pc \in Idle /\ run'[r].call = "none"
  BY <1>1, PopFailsRunner DEF Idle
<1>3. run[r].call = "none"
  <2>1. RunnerInv(r, run[r])
    BY DEF SchedInv, Sched
  <2> QED BY <2>1, <1>1 DEF RunnerInv
<1>4. /\ sem' \in Nat /\ sem' + Cardinality(InHand') = Len(ready_list') + free'
      /\ Cardinality(Buffering') <= free' /\ Waiting' = Waiting /\ Carrying' = Carrying
  <2>1. sem' = sem + 1 /\ free' = free /\ UNCHANGED ready_list /\ run[r].pc \in {"return", "deliver"}
    BY <1>1
  <2> QED BY <2>1, <1>2, <1>3, TokenGone
<1>5. NumberType'
  BY <1>1, <1>4 DEF CountInv, NumberType
<1>6. SingleInv'
  BY <1>1, <1>2, SingleStep DEF CountInv
<1>7. Holding' = Holding
  BY <1>1 DEF Holding
<1>8. threads_in_ipc_wait' = Cardinality(Waiting')
  BY <1>1, <1>4, CountFacts
<1> QED BY <1>1, <1>4, <1>5, <1>6, <1>7, <1>8, TokenMove

LEMMA DeliverToWaiterCount ==
    ASSUME SchedInv, CountInv, NEW r \in Runners, DeliverToWaiter(r)
    PROVE  CountInv'
<1> DEFINE w == Head(ipc_waiter_list)
           c == run[r].call
<1>1. /\ UNCHANGED <<multithreaded, ready_list, timeout_list, due, ipc_buffer_list, free,
                     threads_in_ipc_wait, box, wakeups, arrived, ops, handled>>
      /\ run[r].pc = "deliver" /\ sem' = sem + 1 /\ ipc_waiter_list # <<>>
      /\ got' = [got EXCEPT ![w] = c]
  BY DEF DeliverToWaiter, HandOver, kernelVars
<1>2. w \in Managers /\ got[w] = "none"
  <2>1. ipc_waiter_list \in Seq(Managers)
    BY DEF SchedInv, Sched, SchedType
  <2>2. w \in Managers /\ w \in ToSet(ipc_waiter_list)
    BY <2>1, <1>1, TailList
  <2>3. ManagerInv(w, event, fst, ipc_waiter_list, got)
    BY <2>2 DEF SchedInv, Sched
  <2> QED BY <2>2, <2>3 DEF ManagerInv
<1>3. run \in [Runners -> RunnerStates] /\ c \in Calls
  BY DEF SchedInv, Sched, SchedType, RunnerStates
<1>4. /\ \A s \in Runners : s # r => run'[s] = run[s]
      /\ run'[r].pc \in Idle /\ run'[r].call = "none"
      /\ run'[r].pc \in {"timeouts", "run", "switch"}
  <2>1. CASE event[w] = "waiting"
    <3>1. run' = [run EXCEPT ![r].pc = "switch", ![r].hand = w, ![r].call = "none"]
      BY <2>1 DEF DeliverToWaiter, ContinueWith
    <3> HIDE DEF w
    <3>2. /\ \A s \in Runners : s # r => run'[s] = run[s]
          /\ run'[r] = [run[r] EXCEPT !.pc = "switch", !.hand = w, !.call = "none"]
          /\ run[r] \in RunnerStates
      BY <3>1, <1>3
    <3>3. run'[r].pc = "switch" /\ run'[r].call = "none"
      BY <3>2 DEF RunnerStates
    <3> QED BY <3>2, <3>3 DEF Idle
  <2>2. CASE event[w] # "waiting"
    <3>1. PopFails(r)
      BY <2>2 DEF DeliverToWaiter, ContinueWith
    <3> QED BY <3>1, <1>1, PopFailsRunner DEF Idle
  <2> QED BY <2>1, <2>2
<1> HIDE DEF w
<1>5. /\ sem' \in Nat /\ sem' + Cardinality(InHand') = Len(ready_list') + free'
      /\ Cardinality(Buffering') <= free' /\ Waiting' = Waiting
      /\ c = "call" => Cardinality(Carrying') = Cardinality(Carrying) - 1
      /\ c # "call" => Carrying' = Carrying
  <2>1. sem' = sem + 1 /\ free' = free /\ UNCHANGED ready_list /\ run[r].pc \in {"return", "deliver"}
    BY <1>1
  <2> QED BY <2>1, <1>4, TokenGone
<1> HIDE DEF c
<1>6. /\ c = "call" => Cardinality(Holding') = Cardinality(Holding) + 1
      /\ c # "call" => Cardinality(Holding') = Cardinality(Holding)
  BY <1>1, <1>2, <1>3, HandedOver
<1>7. arrived' = handled' + box' + Cardinality(Carrying')
                   + Count(ipc_buffer_list', "call") + Cardinality(Holding')
  <2>1. /\ arrived' = arrived /\ handled' = handled /\ box' = box
        /\ Count(ipc_buffer_list', "call") = Count(ipc_buffer_list, "call")
    BY <1>1
  <2>2. CASE c = "call"
    <3>1. /\ Cardinality(Holding') = Cardinality(Holding) + 1
          /\ Cardinality(Carrying') = Cardinality(Carrying) - 1
      BY <2>2, <1>5, <1>6
    <3> QED BY <3>1, <2>1, CallFacts
  <2>3. CASE c # "call"
    <3>1. /\ Cardinality(Holding') = Cardinality(Holding)
          /\ Cardinality(Carrying') = Cardinality(Carrying)
      BY <2>3, <1>5, <1>6
    <3> QED BY <3>1, <2>1, CallFacts
  <2> QED BY <2>2, <2>3
<1>8. NumberType'
  BY <1>1, <1>5 DEF CountInv, NumberType
<1>9. SingleInv'
  BY <1>1, <1>4, SingleStep DEF CountInv
<1>10. /\ free' + Len(ipc_buffer_list') = BufferCount /\ threads_in_ipc_wait' = Cardinality(Waiting')
  BY <1>1, <1>5, CountFacts
<1> QED BY <1>5, <1>7, <1>8, <1>9, <1>10, CountNext

LEMMA DeliverToBufferCount ==
    ASSUME SchedInv, CountInv, NEW r \in Runners, DeliverToBuffer(r)
    PROVE  CountInv'
<1> DEFINE c == run[r].call
<1>1. /\ UNCHANGED <<multithreaded, sem, ready_list, timeout_list, due, got,
                     threads_in_ipc_wait, box, wakeups, arrived, ops, handled>>
      /\ run[r].pc = "deliver" /\ free' = free - 1 /\ ipc_waiter_list = <<>> /\ PopFails(r)
      /\ ipc_buffer_list' = Append(ipc_buffer_list, c)
  BY DEF DeliverToBuffer, fibrilVars, kernelVars
<1>2. c \in Calls \ {"none"} /\ ipc_buffer_list \in Seq(Calls \ {"none"})
  <2>1. run[r] \in RunnerStates /\ RunnerInv(r, run[r])
    BY DEF SchedInv, Sched, SchedType
  <2>2. c \in Calls \ {"none"}
    BY <2>1, <1>1 DEF RunnerInv, RunnerStates
  <2> QED BY <2>2 DEF CountInv, NumberType
<1>3. /\ \A s \in Runners : s # r => run'[s] = run[s]
      /\ run'[r].pc \in Idle /\ run'[r].call = "none"
  BY <1>1, PopFailsRunner DEF Idle
<1>4. multithreaded
  <2>1. SingleInv /\ multithreaded \in BOOLEAN
    BY DEF CountInv, NumberType
  <2>2. ~multithreaded => ready_list = <<>>
    BY <1>1, <2>1 DEF SingleInv
  <2> QED BY <1>1, <2>1, <2>2, SingleHasWaiter
<1>5. /\ free' \in Nat /\ sem' + Cardinality(InHand') = Len(ready_list') + free'
      /\ Cardinality(Buffering') <= free' /\ Waiting' = Waiting
      /\ c = "call" => Cardinality(Carrying') = Cardinality(Carrying) - 1
      /\ c # "call" => Carrying' = Carrying
  BY <1>1, <1>3, TokenGone
<1> HIDE DEF c
<1>6. /\ ipc_buffer_list' \in Seq(Calls \ {"none"})
      /\ Len(ipc_buffer_list') = Len(ipc_buffer_list) + 1
  BY <1>1, <1>2, AppendList
<1>7. Count(ipc_buffer_list', "call") = Count(ipc_buffer_list, "call") + (IF c = "call" THEN 1 ELSE 0)
  BY <1>1, <1>2, CountAppend
<1>8. Cardinality(Holding') = Cardinality(Holding)
  <2>1. Holding' = Holding
    BY <1>1 DEF Holding
  <2> QED BY <2>1
<1>9. arrived' = handled' + box' + Cardinality(Carrying')
                   + Count(ipc_buffer_list', "call") + Cardinality(Holding')
  <2>1. /\ arrived' = arrived /\ handled' = handled /\ box' = box
        /\ Cardinality(Holding') = Cardinality(Holding)
    BY <1>1, <1>8
  <2>2. CASE c = "call"
    <3>1. /\ Count(ipc_buffer_list', "call") = Count(ipc_buffer_list, "call") + 1
          /\ Cardinality(Carrying') = Cardinality(Carrying) - 1
      BY <2>2, <1>5, <1>7
    <3> QED BY <3>1, <2>1, CallFacts
  <2>3. CASE c # "call"
    <3>1. /\ Count(ipc_buffer_list', "call") = Count(ipc_buffer_list, "call") + 0
          /\ Cardinality(Carrying') = Cardinality(Carrying)
      BY <2>3, <1>5, <1>7
    <3> QED BY <3>1, <2>1, CallFacts
  <2> QED BY <2>2, <2>3
<1>10. NumberType'
  BY <1>1, <1>5, <1>6 DEF CountInv, NumberType
<1>11. SingleInv'
  BY <1>1, <1>4 DEF SingleInv
<1>12. free' + Len(ipc_buffer_list') = BufferCount
  <2>1. free' = free - 1 /\ Len(ipc_buffer_list') = Len(ipc_buffer_list) + 1
    BY <1>1, <1>6
  <2> QED BY <2>1, CountFacts
<1>13. threads_in_ipc_wait' = Cardinality(Waiting')
  BY <1>1, <1>5, CountFacts
<1> QED BY <1>5, <1>9, <1>10, <1>11, <1>12, <1>13, CountNext

LEMMA SwitchCount ==
    ASSUME SchedInv, CountInv, NEW r \in Runners, Switch(r)
    PROVE  CountInv'
<1>1. /\ UNCHANGED <<multithreaded, got, ipc_buffer_list, free, threads_in_ipc_wait, box, arrived,
                     ops, handled>>
      /\ run[r].pc = "switch" /\ run[r].pc \in Idle
  BY DEF Switch, ipcVars, Idle
<1>2. /\ \A s \in Runners : s # r => run'[s] = run[s]
      /\ run'[r].pc \in {"run", "timeouts"} /\ run'[r].call = "none"
      /\ due' \subseteq timeout_list'
  <2>1. \E dst, fs, cl : SwitchTo(r, dst, event, note, timeout_list, fs, cl)
    BY DEF Switch
  <2>2. due \subseteq timeout_list
    BY DEF CountInv, NumberType
  <2> QED BY <2>1, <2>2, SwitchRunner
<1>3. /\ InHand' = InHand /\ Buffering' = Buffering /\ Waiting' = Waiting /\ Carrying' = Carrying
  BY <1>1, <1>2, IdleStep DEF Idle
<1>4. /\ sem' \in Nat /\ wakeups' \in Nat /\ Len(ready_list') \in Nat
      /\ sem' + Len(ready_list) = sem + Len(ready_list')
  <2>1. CASE UNCHANGED <<sem, ready_list, wakeups>>
    <3>1. wakeups \in Nat
      BY DEF CountInv, NumberType
    <3> QED BY <2>1, <3>1, CountFacts
  <2>2. CASE run[r].kind = "yield" /\ ReadyListPush(<<run[r].cur>>)
    <3>1. RunnerInv(r, run[r])
      BY DEF SchedInv, Sched
    <3>2. run[r].cur \in Fibrils
      BY <2>2, <3>1, Constants DEF RunnerInv
    <3>3. <<run[r].cur>> \in Seq(Fibrils)
      BY <3>2
    <3> QED BY <2>2, <3>3, PushFacts
  <2> QED BY <2>1, <2>2 DEF Switch
<1>5. NumberType'
  BY <1>1, <1>2, <1>4 DEF CountInv, NumberType
<1>6. SingleInv'
  BY <1>1, <1>2, SingleStep DEF CountInv
<1>7. Holding' = Holding
  BY <1>1 DEF Holding
<1> QED BY <1>1, <1>3, <1>4, <1>5, <1>6, <1>7, CountSame

-----------------------------------------------------------------------------
(* The invariant holds in every state.                                     *)

LEMMA InitSched == Init => SchedInv
<1> SUFFICES ASSUME Init PROVE SchedInv
  OBVIOUS
<1>1. /\ ready_list \in Seq(Managers) /\ ToSet(ready_list) = Managers /\ IsInjective(ready_list)
      /\ Len(ready_list) = Cardinality(Managers)
  <2>1. Managers \in SUBSET Fibrils
    BY Constants
  <2>2. IsFiniteSet(Managers)
    BY <2>1, Constants, FS_Subset
  <2>3. ready_list = SetToSeq(Managers)
    BY DEF Init
  <2> QED BY <2>2, <2>3, ListOfSet
<1>2. ready_list \in Seq(Fibrils)
  BY <1>1, Constants
<1>3. /\ fst \in [Fibrils -> States]
      /\ fst[Main] = "user" /\ \A f \in Late : fst[f] = "new"
      /\ \A f \in Managers : fst[f] = "start"
      /\ \A f \in Fibrils : f # Main /\ f \notin Late /\ f \notin Managers => fst[f] = "wait"
  <2>1. fst = [f \in Fibrils |-> CASE f = Main -> "user" [] f \in Late -> "new"
                                   [] f \in Managers -> "start" [] OTHER -> "wait"]
    BY DEF Init
  <2>2. Main \in Fibrils /\ Main \notin Late /\ Main \notin Managers
    BY FibrilAssumption, Constants
  <2>3. \A f \in Late : f \in Fibrils /\ f # Main /\ f \notin Managers
    BY <2>2, Constants
  <2>4. \A f \in Managers : f \in Fibrils /\ f # Main /\ f \notin Late
    BY <2>2, <2>3, Constants
  <2> QED BY <2>1, <2>2, <2>3, <2>4 DEF States
<1>4. /\ event \in [Fibrils -> Events]
      /\ \A f \in Fibrils : event[f] = IF fst[f] = "wait" THEN "waiting" ELSE "initial"
  BY DEF Init, Events
<1>5. /\ note = [f \in Fibrils |-> FALSE] /\ timeout_list = {} /\ ipc_waiter_list = <<>>
      /\ got = [f \in Managers |-> "none"]
      /\ clean = [x \in Fibrils \cup Runners |-> NoFibril]
  BY DEF Init
<1>6. /\ run \in [Runners -> RunnerStates]
      /\ run[FirstRunner] = Runner("run", Main, "none")
      /\ \A r \in Runners : r # FirstRunner => run[r] = Runner("off", r, "none")
  <2>1. run = [r \in Runners |-> IF r = FirstRunner THEN Runner("run", Main, "none")
                                                    ELSE Runner("off", r, "none")]
    BY DEF Init
  <2>2. Runner("run", Main, "none") \in RunnerStates
    BY Constants, RunnerFields
  <2>3. \A r \in Runners : Runner("off", r, "none") \in RunnerStates
    BY RunnerFields
  <2> QED BY <2>1, <2>2, <2>3, Constants
<1>7. \A r \in Runners : /\ run[r].hand = NoFibril /\ run[r].kind = "none" /\ run[r].call = "none"
                         /\ run[r].cur = IF r = FirstRunner THEN Main ELSE r
                         /\ run[r].pc = IF r = FirstRunner THEN "run" ELSE "off"
  BY <1>6, RunnerFields
<1>8. ASSUME NEW r \in Runners PROVE RunnerInv(r, run[r])
  BY <1>7, Constants DEF RunnerInv
<1>9. ASSUME NEW f \in Fibrils
      PROVE  /\ \A r \in Runners : run[r].cur = f <=> r = FirstRunner /\ f = Main
             /\ \A r \in Runners : run[r].hand # f
             /\ f \in ToSet(ready_list) <=> f \in Managers
             /\ f \in Managers => f # Main
  BY <1>1, <1>7, Constants
<1>10. ASSUME NEW f \in Fibrils
       PROVE  FibrilInv(f, run, ready_list, event, note, timeout_list, fst)
  <2>1. f \in Workers \/ f \in Managers
    BY DEF Fibrils
  <2>2. \/ f = Main /\ fst[f] = "user"
        \/ f # Main /\ f \in Managers /\ fst[f] = "start"
        \/ f # Main /\ f \notin Managers /\ fst[f] \in {"new", "wait"}
    BY <1>3, <1>9, <2>1
  <2>3. event[f] = IF fst[f] = "wait" THEN "waiting" ELSE "initial"
    BY <1>4
  <2>4. PlaceInv(f, run, ready_list, event, fst)
    <3>1. FirstRunner \in Runners
      BY Constants
    <3> QED BY <3>1, <2>2, <2>3, <1>9 DEF PlaceInv, Gone
  <2>5. StateInv(f, run, ready_list, event, fst)
    BY <2>2, <2>3, <1>7, <1>9 DEF StateInv
  <2>6. EventInv(f, event, note, timeout_list, fst)
    BY <2>3, <1>5 DEF EventInv
  <2> QED BY <2>4, <2>5, <2>6 DEF FibrilInv
<1>11. ASSUME NEW f \in Managers PROVE ManagerInv(f, event, fst, ipc_waiter_list, got)
  <2>1. f \notin ToSet(ipc_waiter_list)
    BY <1>5 DEF ToSet
  <2>2. fst[f] = "start" /\ event[f] = "initial" /\ got[f] = "none"
    BY <1>3, <1>4, <1>5, Constants
  <2> QED BY <2>1, <2>2 DEF ManagerInv
<1>12. CleanInv(fst, clean)
  BY <1>5, Constants DEF CleanInv
<1>13. /\ ipc_waiter_list \in Seq(Managers) /\ IsInjective(ipc_waiter_list)
       /\ note \in [Fibrils -> BOOLEAN] /\ got \in [Managers -> Calls]
       /\ clean \in [Fibrils \cup Runners -> Fibrils \cup {NoFibril}]
  BY <1>5 DEF IsInjective, Calls
<1>14. SchedType(run, ready_list, event, note, fst, clean, ipc_waiter_list, got)
  BY <1>2, <1>3, <1>4, <1>6, <1>13 DEF SchedType
<1>15. timeout_list \subseteq Fibrils
  BY <1>5
<1> QED BY <1>1, <1>8, <1>10, <1>11, <1>12, <1>13, <1>14, <1>15 DEF SchedInv, Sched

LEMMA InitCount == Init => CountInv
<1> SUFFICES ASSUME Init PROVE CountInv
  OBVIOUS
<1>1. IsFiniteSet(Managers) /\ Cardinality(Managers) \in Nat
  <2>1. Managers \in SUBSET Fibrils
    BY Constants
  <2>2. IsFiniteSet(Managers)
    BY <2>1, Constants, FS_Subset
  <2> QED BY <2>2, FS_CardinalityType
<1>2. Len(ready_list) = Cardinality(Managers)
  <2>1. ready_list = SetToSeq(Managers)
    BY DEF Init
  <2> QED BY <1>1, <2>1, ListOfSet
<1>3. \A r \in Runners : /\ run[r].call = "none"
                         /\ run[r].pc = IF r = FirstRunner THEN "run" ELSE "off"
  <2>1. run = [r \in Runners |-> IF r = FirstRunner THEN Runner("run", Main, "none")
                                                    ELSE Runner("off", r, "none")]
    BY DEF Init
  <2> QED BY <2>1, RunnerFields
<1>4. /\ multithreaded = FALSE /\ sem = Cardinality(Managers) + BufferCount
      /\ free = BufferCount /\ ipc_buffer_list = <<>> /\ threads_in_ipc_wait = 0
      /\ box = 0 /\ wakeups = 0 /\ handled = 0 /\ arrived = 0 /\ ops = 0
      /\ due = {} /\ timeout_list = {} /\ got = [f \in Managers |-> "none"]
  BY DEF Init
<1>5. InHand = {} /\ Buffering = {} /\ Waiting = {}
  BY <1>3 DEF InHand, Buffering, Waiting
<1>6. Carrying = {} /\ Holding = {}
  BY <1>3, <1>4 DEF Carrying, Holding
<1>7. /\ Cardinality(InHand) = 0 /\ Cardinality(Buffering) = 0 /\ Cardinality(Waiting) = 0
      /\ Cardinality(Carrying) = 0 /\ Cardinality(Holding) = 0
  BY <1>5, <1>6, FS_EmptySet
<1>8. NumberType
  <2>1. sem \in Nat /\ free \in Nat
    BY <1>1, <1>4, Constants
  <2>2. arrived \in 0..MaxCalls /\ ops \in 0..MaxOps
    BY <1>4, Constants
  <2>3. multithreaded \in BOOLEAN
    BY <1>4
  <2>4. ipc_buffer_list \in Seq(Calls \ {"none"})
    BY <1>4
  <2>5. box \in Nat /\ wakeups \in Nat /\ handled \in Nat /\ due \subseteq timeout_list
    BY <1>4
  <2> QED BY <2>1, <2>2, <2>3, <2>4, <2>5 DEF NumberType
<1>9. TokenInv
  <2>1. Len(ipc_buffer_list) = 0
    BY <1>4
  <2> QED BY <1>1, <1>2, <1>4, <1>7, <2>1, Constants DEF TokenInv, TokenAccounting
<1>10. SingleInv
  BY <1>3, <1>4, Constants DEF SingleInv
<1>11. CallsConserved
  <2>1. Count(ipc_buffer_list, "call") = 0
    <3>1. <<>> \in Seq(Calls)
      OBVIOUS
    <3>2. Count(<<>>, "call") = 0
      BY <3>1, CountIsNat
    <3> QED BY <3>2, <1>4
  <2> QED BY <2>1, <1>4, <1>7, CallsDef
<1> QED BY <1>8, <1>9, <1>10, <1>11 DEF CountInv

LEMMA FibrilWaitStep ==
    ASSUME IInv, NEW r \in Runners, NEW f \in Fibrils, NEW expires \in BOOLEAN,
           FibrilWait(r, f, expires)
    PROVE  IInv'
<1>1. /\ MayWait(r, f, expires) /\ SchedInv /\ CountInv
      /\ UNCHANGED <<multithreaded, threads_in_ipc_wait, handled>>
  BY DEF FibrilWait, IInv
<1>2. CASE WaitNotNeeded(r, f)
  BY <1>1, <1>2, WaitNotNeededSched, WaitNotNeededCount DEF IInv
<1>3. CASE WaitSwitch(r, f, expires)
  BY <1>1, <1>3, WaitSwitchSched, WaitSwitchCount DEF IInv
<1>4. CASE WaitHelper(r, f, expires)
  BY <1>1, <1>4, WaitHelperSched, WaitSwitchCount DEF IInv
<1>5. CASE WaitDeliver(r, f, expires)
  BY <1>1, <1>5, WaitDeliverSched, WaitDeliverCount DEF IInv
<1>6. CASE WaitBuffer(r, f, expires)
  BY <1>1, <1>6, WaitHelperSched, WaitBufferCount DEF IInv
<1> QED BY <1>2, <1>3, <1>4, <1>5, <1>6 DEF FibrilWait

LEMMA UserStepInv ==
    ASSUME IInv, NEW r \in Runners, UserStep(r)
    PROVE  IInv'
<1>1. PICK f \in Workers :
          \/ \E expires \in BOOLEAN : FibrilWait(r, f, expires)
          \/ \E g \in Workers : Notify(r, f, g) \/ Start(r, f, g)
          \/ SpawnRunners(r, f)
          \/ \E kind \in {"yield", "exit"} : PopNonblocking(r, f, kind)
  BY DEF UserStep
<1>2. f \in Fibrils /\ SchedInv /\ CountInv
  BY Constants DEF IInv
<1>3. CASE \E expires \in BOOLEAN : FibrilWait(r, f, expires)
  BY <1>2, <1>3, FibrilWaitStep
<1>4. ASSUME NEW g \in Workers, Notify(r, f, g) PROVE IInv'
  BY <1>2, <1>4, NotifySched, NotifyCount DEF IInv
<1>5. ASSUME NEW g \in Workers, Start(r, f, g) PROVE IInv'
  BY <1>2, <1>5, StartSched, StartCount DEF IInv
<1>6. CASE SpawnRunners(r, f)
  BY <1>2, <1>6, SpawnRunnersSched, SpawnRunnersCount DEF IInv
<1>7. ASSUME NEW kind \in {"yield", "exit"}, PopNonblocking(r, f, kind) PROVE IInv'
  BY <1>2, <1>7, PopNonblockingSched, PopNonblockingCount DEF IInv
<1> QED BY <1>1, <1>3, <1>4, <1>5, <1>6, <1>7

LEMMA LibraryStepInv ==
    ASSUME IInv, NEW r \in Runners, LibraryStep(r)
    PROVE  IInv'
<1>1. SchedInv /\ CountInv /\ due \subseteq timeout_list /\ ipc_buffer_list \in Seq(Calls \ {"none"})
  BY DEF IInv, CountInv, NumberType
<1>2. ASSUME NEW f \in Managers, FibrilWait(r, f, FALSE) PROVE IInv'
  BY <1>2, Constants, FibrilWaitStep
<1>3. ASSUME NEW f \in Managers, NEW g \in Workers, Notify(r, f, g) PROVE IInv'
  BY <1>1, <1>3, Constants, NotifySched, NotifyCount DEF IInv
<1>4. ASSUME NEW f \in Managers, DropNull(r, f) PROVE IInv'
  BY <1>1, <1>4, DropNullSched, DropNullCount DEF IInv
<1>5. ASSUME NEW f \in Managers, WaitIpc(r, f) PROVE IInv'
  BY <1>1, <1>5, WaitIpcSched, WaitIpcCount DEF IInv
<1>6. CASE HandleExpiredTimeouts(r)
  BY <1>1, <1>6, HandleExpiredTimeoutsSched, HandleExpiredTimeoutsCount DEF IInv
<1>7. CASE Down(r)
  BY <1>1, <1>7, DownSched, DownCount DEF IInv
<1>8. CASE Pop(r)
  BY <1>1, <1>8, PopSched, PopCount DEF IInv
<1>9. CASE IpcWait(r)
  BY <1>1, <1>9, IpcWaitSched, IpcWaitCount DEF IInv
<1>10. CASE LeaveIpc(r)
  BY <1>1, <1>10, LeaveIpcSched, LeaveIpcCount DEF IInv
<1>11. CASE ReturnToken(r)
  BY <1>1, <1>11, ReturnTokenSched, ReturnTokenCount DEF IInv
<1>12. CASE DeliverToWaiter(r)
  BY <1>1, <1>12, DeliverToWaiterSched, DeliverToWaiterCount DEF IInv
<1>13. CASE DeliverToBuffer(r)
  BY <1>1, <1>13, ReturnTokenSched, DeliverToBufferCount DEF IInv
<1>14. CASE Switch(r)
  BY <1>1, <1>14, SwitchSched, SwitchCount DEF IInv
<1> QED BY <1>2, <1>3, <1>4, <1>5, <1>6, <1>7, <1>8, <1>9, <1>10, <1>11, <1>12, <1>13, <1>14
        DEF LibraryStep

\* Everything that the invariant speaks of stays the same.
LEMMA Stutter ==
    ASSUME IInv, UNCHANGED vars
    PROVE  IInv'
<1>1. UNCHANGED <<multithreaded, sem, ready_list, timeout_list, due, fst, event, note, got, clean,
                  ipc_waiter_list, ipc_buffer_list, free, threads_in_ipc_wait, box, wakeups, arrived,
                  run, ops, handled>>
  BY DEF vars, fibrilVars, ipcVars, kernelVars
<1>2. SchedInv'
  BY <1>1 DEF IInv, SchedInv
<1>3. NumberType' /\ SingleInv'
  BY <1>1 DEF IInv, CountInv, NumberType, SingleInv
<1>4. InHand' = InHand /\ Buffering' = Buffering /\ Waiting' = Waiting /\ Carrying' = Carrying
      /\ Holding' = Holding
  BY <1>1, RunnersStay DEF Holding
<1>5. Len(ready_list') \in Nat /\ sem' + Len(ready_list) = sem + Len(ready_list')
  BY <1>1, CountFacts DEF IInv
<1>6. CountInv'
  BY <1>1, <1>3, <1>4, <1>5, CountSame DEF IInv
<1> QED BY <1>2, <1>6 DEF IInv

LEMMA EnvironmentInv ==
    ASSUME IInv, Arrive \/ \E f \in Fibrils : Expire(f)
    PROVE  IInv'
<1>1. UNCHANGED <<run, ready_list, event, note, timeout_list, fst, clean, ipc_waiter_list, got>>
  BY DEF Arrive, Expire, fibrilVars, ipcVars
<1>2. SchedInv'
  BY <1>1 DEF IInv, SchedInv
<1>3. CountInv'
  BY ArriveCount, ExpireCount DEF IInv
<1> QED BY <1>2, <1>3 DEF IInv

LEMMA Inductive ==
    ASSUME IInv, [Next]_vars
    PROVE  IInv'
<1>1. CASE \E r \in Runners : UserStep(r) \/ LibraryStep(r)
  BY <1>1, UserStepInv, LibraryStepInv
<1>2. CASE Arrive \/ \E f \in Fibrils : Expire(f)
  BY <1>2, EnvironmentInv
<1>3. CASE UNCHANGED vars
  BY <1>3, Stutter
<1> QED BY <1>1, <1>2, <1>3 DEF Next

\* The inductive invariant: every fibril is in one place and in a state that
\* fits to it, and the tokens, buffers and calls are where the counters say.
THEOREM Invariance == Spec => []IInv
<1>1. Init => IInv
  BY InitSched, InitCount DEF IInv
<1>2. IInv /\ [Next]_vars => IInv'
  BY Inductive
<1> QED BY <1>1, <1>2, PTL DEF Spec

-----------------------------------------------------------------------------
(* What the invariant says.                                                *)

\* The state has its type: nobody takes a token below zero, there are never
\* more buffers than ipc_buffer_free_list has been given, nor more threads
\* in ipc_wait() than there are.
THEOREM TypeCorrect == Spec => []TypeOK
<1>1. IInv => TypeOK
  <2> SUFFICES ASSUME IInv PROVE TypeOK
    OBVIOUS
  <2>1. SchedInv /\ CountInv
    BY DEF IInv
  <2>2. /\ run \in [Runners -> RunnerStates]
        /\ ready_list \in Seq(Fibrils) /\ ipc_waiter_list \in Seq(Managers)
        /\ event \in [Fibrils -> Events] /\ note \in [Fibrils -> BOOLEAN]
        /\ fst \in [Fibrils -> States]
        /\ clean \in [Fibrils \cup Runners -> Fibrils \cup {NoFibril}]
        /\ got \in [Managers -> Calls]
    BY <2>1 DEF SchedInv, Sched, SchedType
  <2>3. timeout_list \subseteq Workers
    BY <2>1 DEF SchedInv, Sched, FibrilInv, EventInv
  <2>4. free \in 0..BufferCount
    <3>1. free \in Nat /\ Len(ipc_buffer_list) \in Nat /\ free + Len(ipc_buffer_list) = BufferCount
      BY <2>1, CountFacts
    <3> QED BY <3>1, Constants
  <2>5. threads_in_ipc_wait \in 0..Cardinality(Runners)
    <3>1. threads_in_ipc_wait = Cardinality(Waiting)
      BY <2>1, CountFacts
    <3> QED BY <3>1, Finite
  <2>6. box \in 0..MaxCalls /\ handled \in 0..MaxCalls
    <3>1. arrived \in 0..MaxCalls
      BY <2>1 DEF CountInv, NumberType
    <3>2. box <= arrived /\ handled <= arrived /\ box \in Nat /\ handled \in Nat
      BY <2>1, CallFacts
    <3> QED BY <3>1, <3>2, Constants
  <2>7. NumberType
    BY <2>1 DEF CountInv
  <2> QED BY <2>2, <2>3, <2>4, <2>5, <2>6, <2>7 DEF TypeOK, NumberType, States, Events
<1> QED BY <1>1, Invariance, PTL

\* A token for every ready fibril and every free buffer: _ready_list_push(),
\* _ready_list_pop() and _wait_ipc() keep semaphore and lists in step, for
\* any number of threads between their operations.
THEOREM TokensAccountedFor == Spec => []TokenAccounting
<1>1. IInv => TokenAccounting
  BY DEF IInv, CountInv, TokenInv
<1> QED BY <1>1, Invariance, PTL

\* A set without two elements.
LEMMA AtMostOne ==
    ASSUME NEW A, \A x, y \in A : x = y
    PROVE  Cardinality(A) = IF A = {} THEN 0 ELSE 1
<1>1. CASE A = {}
  BY <1>1, FS_EmptySet
<1>2. CASE A # {}
  <2>1. PICK x : x \in A
    BY <1>2
  <2>2. A = {x}
    BY <2>1
  <2>3. Cardinality({x}) = 1
    BY FS_Singleton
  <2> QED BY <1>2, <2>2, <2>3
<1> QED BY <1>1, <1>2

\* _fibril_switch_to() never lets two threads execute one fibril: a live
\* fibril is in one place, and a dead one that may be freed in none.
THEOREM OnePlace == Spec => []InOnePlace
<1>1. IInv => InOnePlace
  <2> SUFFICES ASSUME IInv, NEW f \in Fibrils
               PROVE  Places(f) = IF fst[f] \in {"new", "dead", "freed"} THEN 0 ELSE 1
    BY DEF InOnePlace
  <2> DEFINE A == {i \in DOMAIN ready_list : ready_list[i] = f}
             B == {r \in Runners : run[r].cur = f}
             C == {r \in Runners : run[r].hand = f}
             d == IF event[f] = "waiting" THEN 1 ELSE 0
  <2>1. PlaceInv(f, run, ready_list, event, fst)
    BY DEF IInv, SchedInv, Sched, FibrilInv
  <2>2. ready_list \in Seq(Fibrils) /\ IsInjective(ready_list)
    BY DEF IInv, SchedInv, Sched, SchedType
  <2>3. /\ A # {} <=> f \in ToSet(ready_list)
        /\ \A i, j \in A : i = j
    <3>1. /\ DOMAIN ready_list = 1..Len(ready_list)
          /\ f \in ToSet(ready_list) <=> \E i \in 1..Len(ready_list) : ready_list[i] = f
          /\ \A i, j \in 1..Len(ready_list) : ready_list[i] = ready_list[j] => i = j
      BY <2>2, ListIsFunction
    <3> QED BY <3>1
  <2>4. \A r, s \in B : r = s
    BY <2>1 DEF PlaceInv
  <2>5. \A r, s \in C : r = s
    BY <2>1 DEF PlaceInv
  <2>6. /\ A # {} => B = {} /\ C = {} /\ event[f] # "waiting"
        /\ B # {} => C = {} /\ event[f] # "waiting"
        /\ C # {} => event[f] # "waiting"
    BY <2>1, <2>3 DEF PlaceInv
  <2>7. /\ fst[f] \in Gone => A = {} /\ B = {} /\ C = {} /\ event[f] # "waiting"
        /\ fst[f] \notin Gone => A # {} \/ B # {} \/ C # {} \/ event[f] = "waiting"
    BY <2>1, <2>3 DEF PlaceInv
  <2>8. Places(f) = Cardinality(A) + Cardinality(B) + Cardinality(C) + d
    BY DEF Places
  <2> HIDE DEF A, B, C
  <2>9. /\ Cardinality(A) = IF A = {} THEN 0 ELSE 1
        /\ Cardinality(B) = IF B = {} THEN 0 ELSE 1
        /\ Cardinality(C) = IF C = {} THEN 0 ELSE 1
    BY <2>3, <2>4, <2>5, AtMostOne
  <2>10. CASE fst[f] \in Gone
    BY <2>7, <2>8, <2>9, <2>10 DEF Gone
  <2>11. CASE fst[f] \notin Gone
    <3>1. Places(f) = 1
      BY <2>6, <2>7, <2>8, <2>9, <2>11
    <3> QED BY <3>1, <2>11 DEF Gone
  <2> QED BY <2>10, <2>11
<1> QED BY <1>1, Invariance, PTL

\* fibril_wait_timeout() and _handle_expired_timeouts() lose no notification
\* and report none that was not sent.
THEOREM NotificationKept == Spec => []NotifyNotLost
<1>1. IInv => NotifyNotLost
  BY DEF IInv, SchedInv, Sched, FibrilInv, EventInv, NotifyNotLost
<1> QED BY <1>1, Invariance, PTL

\* The assertions of fibril.c hold: there is a buffer for every call that
\* _ready_list_pop() receives, and events and timeouts belong to waits.
THEOREM NoAssertionFails == Spec => []AssertionsHold
<1>1. IInv => AssertionsHold
  <2> SUFFICES ASSUME IInv PROVE AssertionsHold
    OBVIOUS
  <2>1. free >= 0 /\ (~multithreaded => ipc_buffer_list = <<>>)
    BY DEF IInv, CountInv, NumberType, SingleInv
  <2>2. \A f \in Fibrils : event[f] \in {"waiting", "timedout"} => fst[f] = "wait"
    BY DEF IInv, SchedInv, Sched, FibrilInv, StateInv
  <2>3. \A f \in timeout_list : fst[f] = "wait" /\ event[f] # "timedout"
    BY DEF IInv, SchedInv, Sched, FibrilInv, EventInv
  <2> QED BY <2>1, <2>2, <2>3 DEF AssertionsHold
<1> QED BY <1>1, Invariance, PTL

\* A call that ipc_wait() returned is with a runner, in a buffer or with a
\* manager until it is handled, and in one of these places only.
THEOREM CallsNotLost == Spec => []CallsConserved
<1>1. IInv => CallsConserved
  BY DEF IInv, CountInv
<1> QED BY <1>1, Invariance, PTL
=============================================================================
