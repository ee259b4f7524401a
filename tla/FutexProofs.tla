----------------------------- MODULE FutexProofs -----------------------------
(***************************************************************************)
(* The futex neither loses nor invents tokens, for any number of threads   *)
(* and tokens.                                                             *)
(***************************************************************************)
EXTENDS Futex, ListTheorems

\* How many threads are at a place of the code.
N(label) == Cardinality(At(label))

\* The list in the kernel, its sleepers and those that have been woken up.
ListOK ==
    /\ waiting \in Seq(Threads) /\ IsInjective(waiting)
    /\ granted \subseteq Threads
    /\ granted \cap ToSet(waiting) = {}
    /\ interrupted \in [Threads -> BOOLEAN]
    /\ balance > 0 => waiting = <<>>

\* Every token is in val, with a thread that got past its down, or owed to
\* one that did not: the user counter alone.
Counted ==
    val = Tokens + ups - N("holds") - N("asleep") - N("toSleep") - N("failed")

\* A debt of the wait queue is the debt of a thread that timed out and will
\* give its token back, or is about to be annulled by a wakeup.
DebtsCovered == balance + N("toWake") + N("failed") >= 0

\* The inductive invariant.
IInv ==
    /\ TypeOK
    /\ ListOK
    /\ TokensAddUp
    /\ Counted
    /\ DebtsCovered

-----------------------------------------------------------------------------
\* The instance of the contract has the same operators on lists.
LEMMA SameLists ==
    /\ \A s : WQ!ToSet(s) = ToSet(s)
    /\ \A s, i : WQ!RemoveAt(s, i) = RemoveAt(s, i)
BY DEF WQ!ToSet, ToSet, WQ!RemoveAt, RemoveAt

LEMMA CountType ==
    ASSUME NEW label
    PROVE  N(label) \in Nat /\ IsFiniteSet(At(label))
<1>1. At(label) \in SUBSET Threads /\ IsFiniteSet(Threads)
  BY FutexAssumption DEF At
<1> QED BY <1>1, FS_Subset, FS_CardinalityType DEF N

\* A thread that goes from one place to another is counted there.
LEMMA CountGoto ==
    ASSUME pc \in [Threads -> Labels], NEW t \in Threads, NEW to, Goto(t, to), NEW label
    PROVE  N(label)' = N(label) - (IF pc[t] = label THEN 1 ELSE 0)
                                + (IF to = label THEN 1 ELSE 0)
<1> DEFINE rest == At(label) \ {t}
<1>1. pc' = [pc EXCEPT ![t] = to]
  BY DEF Goto
<1>2. At(label)' = IF to = label THEN rest \cup {t} ELSE rest
  BY <1>1 DEF At
<1>3. t \in At(label) <=> pc[t] = label
  BY DEF At
<1>4. /\ IsFiniteSet(rest) /\ N(label) \in Nat
      /\ Cardinality(rest) = IF pc[t] = label THEN N(label) - 1 ELSE N(label)
  BY <1>3, CountType, FS_RemoveElement DEF N
<1>5. Cardinality(rest \cup {t}) = Cardinality(rest) + 1
  BY <1>4, FS_AddElement
<1>6. CASE to = label
  BY <1>2, <1>4, <1>5, <1>6 DEF N
<1>7. CASE to # label
  BY <1>2, <1>4, <1>7 DEF N
<1> QED BY <1>6, <1>7

\* What a step that takes a thread from one place to another does to the counts.
Moved(from, to) ==
    /\ N("holds")' = N("holds") + (IF to = "holds" THEN 1 ELSE 0)
                                - (IF from = "holds" THEN 1 ELSE 0)
    /\ N("asleep")' = N("asleep") + (IF to = "asleep" THEN 1 ELSE 0)
                                  - (IF from = "asleep" THEN 1 ELSE 0)
    /\ N("toSleep")' = N("toSleep") + (IF to = "toSleep" THEN 1 ELSE 0)
                                    - (IF from = "toSleep" THEN 1 ELSE 0)
    /\ N("failed")' = N("failed") + (IF to = "failed" THEN 1 ELSE 0)
                                  - (IF from = "failed" THEN 1 ELSE 0)
    /\ N("toWake")' = N("toWake") + (IF to = "toWake" THEN 1 ELSE 0)
                                  - (IF from = "toWake" THEN 1 ELSE 0)
    /\ N("holds") \in Nat /\ N("asleep") \in Nat /\ N("toSleep") \in Nat
    /\ N("failed") \in Nat /\ N("toWake") \in Nat 
    /\ N("failed")' \in Nat /\ N("toWake")' \in Nat

LEMMA Moves ==
    ASSUME pc \in [Threads -> Labels], NEW t \in Threads, NEW to \in Labels, Goto(t, to)
    PROVE  /\ pc' \in [Threads -> Labels]
           /\ At("asleep")' = IF to = "asleep" THEN At("asleep") \cup {t}
                                               ELSE At("asleep") \ {t}
           /\ Moved(pc[t], to)
<1>1. pc' = [pc EXCEPT ![t] = to]
  BY DEF Goto
<1>2. pc' \in [Threads -> Labels]
  BY <1>1
<1>3. At("asleep")' = IF to = "asleep" THEN At("asleep") \cup {t} ELSE At("asleep") \ {t}
  BY <1>1 DEF At
<1>4. ASSUME NEW label
      PROVE  /\ N(label)' = N(label) + (IF to = label THEN 1 ELSE 0)
                                     - (IF pc[t] = label THEN 1 ELSE 0)
             /\ N(label) \in Nat
  BY CountGoto, CountType
<1>5. N("failed")' \in Nat /\ N("toWake")' \in Nat
  <2>1. At("failed")' \in SUBSET Threads /\ At("toWake")' \in SUBSET Threads
    BY DEF At
  <2> QED BY <2>1, FutexAssumption, FS_Subset, FS_CardinalityType DEF N
<1> QED BY <1>2, <1>3, <1>4, <1>5 DEF Moved

\* The sleepers are finitely many.
LEMMA ListCount ==
    ASSUME NEW s \in Seq(Threads)
    PROVE  /\ IsFiniteSet(ToSet(s)) /\ Cardinality(ToSet(s)) \in Nat
           /\ Cardinality(ToSet(s)) = 0 <=> s = <<>>
<1>1. ToSet(s) \in SUBSET Threads /\ (s = <<>> <=> ToSet(s) = {})
  BY ListIsFunction
<1> QED BY <1>1, FS_Subset, FS_CardinalityType, FS_EmptySet, FutexAssumption

\* The invariant, in terms of the operators on lists of this module.
LEMMA IInvFacts ==
    ASSUME IInv
    PROVE  /\ granted \cup ToSet(waiting) = At("asleep")
           /\ balance + N("toWake") - N("toSleep") - Cardinality(ToSet(waiting))
                  = IF val < 0 THEN val ELSE 0
           /\ Cardinality(ToSet(waiting)) \in Nat
           /\ balance > 0 => Cardinality(ToSet(waiting)) = 0
           /\ val \in Int /\ ups \in 0..MaxUps /\ balance \in Int
           /\ Tokens \in Nat /\ MaxUps \in Nat
           /\ \A t \in Threads : pc[t] \in Labels
BY SameLists, ListCount, FutexAssumption DEF IInv, TypeOK, ListOK, TokensAddUp, N

\* The equation of TokensAddUp alone, for arithmetic.
LEMMA SumFact ==
    ASSUME IInv
    PROVE  /\ balance + N("toWake") - N("toSleep") - Cardinality(ToSet(waiting))
                  = IF val < 0 THEN val ELSE 0
           /\ Cardinality(ToSet(waiting)) \in Nat
           /\ val \in Int /\ balance \in Int
BY IInvFacts

\* What has to be shown of a step. The kernel part is left alone by a step of
\* user space.
LEMMA Preserved ==
    ASSUME /\ val' \in Int /\ ups' \in 0..MaxUps /\ balance' \in Int
           /\ pc' \in [Threads -> Labels]
           /\ ~closed' /\ (\A t \in Threads : ~interrupted'[t])
           /\ granted' \cup ToSet(waiting') = At("asleep")'
           /\ mode' \in [Threads -> {WQ!NoMode, NoDeadline, Deadline}]
           /\ rc' \in [Threads -> {"none", "EOK", "ETIMEOUT"}],
           ListOK', Counted', DebtsCovered',
           balance' + N("toWake")' - N("toSleep")' - Cardinality(ToSet(waiting'))
               = IF val' < 0 THEN val' ELSE 0
    PROVE  IInv'
BY SameLists DEF IInv, TypeOK, TokensAddUp, N, WQ!NoMode, NoDeadline, Deadline

LEMMA UserStep ==
    ASSUME IInv, NEW t \in Threads, UNCHANGED wqvars, NEW to \in Labels, Goto(t, to),
           val' \in Int, ups' \in 0..MaxUps, pc[t] # "asleep", to # "asleep",
           Counted', DebtsCovered',
           balance + N("toWake")' - N("toSleep")' - Cardinality(ToSet(waiting))
               = IF val' < 0 THEN val' ELSE 0
    PROVE  IInv'
<1>1. pc \in [Threads -> Labels]
  BY DEF IInv, TypeOK
<1>2. pc' \in [Threads -> Labels] /\ At("asleep")' = At("asleep")
  <2>1. t \notin At("asleep")
    BY DEF At
  <2> QED BY <1>1, <2>1, Moves
<1>3. ListOK'
  BY DEF IInv, ListOK, wqvars
<1> QED BY <1>2, <1>3, IInvFacts, Preserved DEF wqvars, IInv, TypeOK

LEMMA DownStep ==
    ASSUME IInv, NEW t \in Threads, Down(t)
    PROVE  IInv'
<1> DEFINE to == IF val > 0 THEN "holds" ELSE "toSleep"
<1>1. /\ pc[t] = "idle" /\ val' = val - 1 /\ Goto(t, to)
      /\ ups' = ups /\ UNCHANGED wqvars /\ balance' = balance
  BY DEF Down, wqvars
<1>2. pc \in [Threads -> Labels] /\ to \in Labels
  BY DEF IInv, TypeOK, Labels
<1>3. Moved("idle", to)
  BY <1>1, <1>2, Moves
<1>4. Counted'
  BY <1>1, <1>3, IInvFacts DEF Counted, IInv, Moved
<1>5. DebtsCovered'
  BY <1>1, <1>3, IInvFacts DEF DebtsCovered, IInv, Moved
<1>6. balance + N("toWake")' - N("toSleep")' - Cardinality(ToSet(waiting))
          = IF val' < 0 THEN val' ELSE 0
  BY <1>1, <1>3, SumFact DEF Moved
<1> QED BY <1>1, <1>2, <1>4, <1>5, <1>6, IInvFacts, UserStep

\* futex_up() by a thread at `from'; the token it returns was its own, was
\* owed to the wait queue, or is new.
LEMMA UpStep ==
    ASSUME IInv, NEW t \in Threads, Up(t), ups' \in 0..MaxUps,
           \/ pc[t] = "holds" /\ ups' = ups
           \/ pc[t] = "failed" /\ ups' = ups
           \/ pc[t] = "idle" /\ ups' = ups + 1
    PROVE  IInv'
<1> DEFINE to == IF val < 0 THEN "toWake" ELSE "idle"
<1>1. /\ val' = val + 1 /\ Goto(t, to)
      /\ UNCHANGED wqvars /\ balance' = balance
  BY DEF Up, wqvars
<1>2. pc \in [Threads -> Labels] /\ to \in Labels
  BY DEF IInv, TypeOK, Labels
<1>3. Moved(pc[t], to)
  BY <1>1, <1>2, Moves
<1>4. Counted'
  <2>1. CASE pc[t] = "holds" /\ ups' = ups
    BY <1>1, <1>3, <2>1, IInvFacts DEF Counted, IInv, Moved
  <2>2. CASE pc[t] = "failed" /\ ups' = ups
    BY <1>1, <1>3, <2>2, IInvFacts DEF Counted, IInv, Moved
  <2>3. CASE pc[t] = "idle" /\ ups' = ups + 1
    BY <1>1, <1>3, <2>3, IInvFacts DEF Counted, IInv, Moved
  <2> QED BY <2>1, <2>2, <2>3
<1>5. DebtsCovered'
  <2>1. CASE pc[t] = "failed"
    BY <1>1, <1>3, <2>1, IInvFacts DEF DebtsCovered, IInv, Moved
  <2>2. CASE pc[t] # "failed" /\ pc[t] # "toWake"
    BY <1>1, <1>3, <2>2, IInvFacts DEF DebtsCovered, IInv, Moved
  <2> QED BY <2>1, <2>2
<1>6. balance + N("toWake")' - N("toSleep")' - Cardinality(ToSet(waiting))
          = IF val' < 0 THEN val' ELSE 0
  BY <1>1, <1>3, SumFact DEF Moved
<1> QED BY <1>1, <1>2, <1>4, <1>5, <1>6, IInvFacts, UserStep

\* SYS_WAITQ_SLEEP takes a stored wakeup or enters the list.
LEMMA SleepStep ==
    ASSUME IInv, NEW t \in Threads, Sleep(t)
    PROVE  IInv'
<1> DEFINE stored == /\ balance > 0 /\ balance' = balance - 1
                     /\ rc' = [rc EXCEPT ![t] = "EOK"]
                     /\ UNCHANGED <<waiting, mode>>
           blocks(m) == /\ balance <= 0 /\ waiting' = Append(waiting, t)
                        /\ mode' = [mode EXCEPT ![t] = m]
                        /\ UNCHANGED <<balance, rc>>
<1>1. PICK m \in {NoDeadline, Deadline} : stored \/ blocks(m)
  BY DEF Sleep, WQ!Sleep, WQ!Return, IInv, TypeOK, NoDeadline, Deadline
<1>2. /\ pc[t] = "toSleep" /\ t \notin granted /\ t \notin ToSet(waiting)
      /\ UNCHANGED <<val, ups, granted, closed, interrupted>>
      /\ Goto(t, IF t \in ToSet(waiting') THEN "asleep" ELSE "holds")
  BY SameLists DEF Sleep, WQ!Sleep
<1>3. /\ pc \in [Threads -> Labels] /\ "asleep" \in Labels /\ "holds" \in Labels
      /\ waiting \in Seq(Threads) /\ IsInjective(waiting)
      /\ mode \in [Threads -> {WQ!NoMode, NoDeadline, Deadline}]
      /\ rc \in [Threads -> {"none", "EOK", "ETIMEOUT"}]
  BY DEF IInv, TypeOK, ListOK, Labels
<1>4. t \notin At("asleep")
  BY <1>2 DEF At
<1>5. CASE stored
  <2>1. Goto(t, "holds")
    BY <1>2, <1>5
  <2> HIDE DEF stored
  <2>m. /\ Moved("toSleep", "holds") /\ pc' \in [Threads -> Labels]
        /\ At("asleep")' = At("asleep")
    <3>1. pc[t] = "toSleep"
      BY <1>2
    <3>2. /\ Moved(pc[t], "holds") /\ pc' \in [Threads -> Labels]
          /\ At("asleep")' = At("asleep") \ {t}
      BY <1>3, <2>1, Moves
    <3>3. At("asleep") \ {t} = At("asleep")
      BY <1>4
    <3> QED BY <3>1, <3>2, <3>3
  <2> USE DEF stored
  <2>2. ListOK'
    BY <1>2, <1>5, <2>1 DEF IInv, ListOK
  <2>3. Counted'
    BY <1>2, <2>m, IInvFacts DEF Counted, IInv, Moved
  <2>4. DebtsCovered'
    BY <1>5, <2>m, IInvFacts DEF DebtsCovered, IInv, Moved
  <2>5. balance' + N("toWake")' - N("toSleep")' - Cardinality(ToSet(waiting'))
            = IF val' < 0 THEN val' ELSE 0
    BY <1>2, <1>5, <2>m, SumFact DEF Moved
  <2>6. /\ pc' \in [Threads -> Labels] /\ granted' \cup ToSet(waiting') = At("asleep")'
        /\ balance' \in Int
    BY <1>2, <1>5, <2>m, IInvFacts
  <2>7. /\ mode' \in [Threads -> {WQ!NoMode, NoDeadline, Deadline}]
        /\ rc' \in [Threads -> {"none", "EOK", "ETIMEOUT"}]
    BY <1>3, <1>5 DEF WQ!NoMode, NoDeadline, Deadline
  <2>8. val' \in Int /\ ups' \in 0..MaxUps /\ ~closed' /\ \A u \in Threads : ~interrupted'[u]
    BY <1>2 DEF IInv, TypeOK
  <2> QED BY <2>2, <2>3, <2>4, <2>5, <2>6, <2>7, <2>8, Preserved
<1>6. CASE blocks(m)
  <2> DEFINE W == Cardinality(ToSet(waiting))
  <2>1. /\ waiting' \in Seq(Threads) /\ IsInjective(waiting')
        /\ ToSet(waiting') = ToSet(waiting) \cup {t}
    BY <1>2, <1>3, <1>6, AppendList
  <2>2. Cardinality(ToSet(waiting')) = W + 1
    BY <2>1, <1>2, <1>3, ListCount, FS_AddElement
  <2>m. /\ Moved("toSleep", "asleep") /\ pc' \in [Threads -> Labels]
        /\ At("asleep")' = At("asleep") \cup {t}
    <3>1. Goto(t, "asleep")
      BY <2>1, <1>2
    <3> QED BY <1>2, <1>3, <3>1, Moves
  <2>4. ListOK'
    BY <1>2, <1>6, <2>1, IInvFacts DEF IInv, ListOK
  <2>5. Counted'
    BY <1>2, <2>m, IInvFacts DEF Counted, IInv, Moved
  <2>6. DebtsCovered'
    BY <1>6, <2>m, IInvFacts DEF DebtsCovered, IInv, Moved
  <2>7. balance' + N("toWake")' - N("toSleep")' - Cardinality(ToSet(waiting'))
            = IF val' < 0 THEN val' ELSE 0
    BY <1>2, <1>6, <2>2, <2>m, SumFact DEF Moved
  <2>8. /\ pc' \in [Threads -> Labels] /\ granted' \cup ToSet(waiting') = At("asleep")'
        /\ balance' \in Int
    BY <1>2, <1>6, <2>1, <2>m, IInvFacts
  <2>9. /\ mode' \in [Threads -> {WQ!NoMode, NoDeadline, Deadline}]
        /\ rc' \in [Threads -> {"none", "EOK", "ETIMEOUT"}]
    BY <1>3, <1>6 DEF WQ!NoMode, NoDeadline, Deadline
  <2>10. val' \in Int /\ ups' \in 0..MaxUps /\ ~closed' /\ \A u \in Threads : ~interrupted'[u]
    BY <1>2 DEF IInv, TypeOK
  <2> QED BY <2>4, <2>5, <2>6, <2>7, <2>8, <2>9, <2>10, Preserved
<1> QED BY <1>1, <1>5, <1>6

\* A granted thread returns; the debts and the list are left alone.
LEMMA SucceedStep ==
    ASSUME IInv, NEW t \in Threads, SleepSucceeds(t)
    PROVE  IInv'
<1>1. /\ pc[t] = "asleep" /\ t \in granted /\ granted' = granted \ {t}
      /\ mode' = [mode EXCEPT ![t] = WQ!NoMode] /\ rc' = [rc EXCEPT ![t] = "EOK"]
      /\ UNCHANGED <<val, ups, balance, waiting, closed, interrupted>> /\ Goto(t, "holds")
  BY DEF SleepSucceeds, WQ!Succeed, WQ!Return
<1>2. /\ pc \in [Threads -> Labels] /\ "holds" \in Labels
      /\ mode \in [Threads -> {WQ!NoMode, NoDeadline, Deadline}]
      /\ rc \in [Threads -> {"none", "EOK", "ETIMEOUT"}]
      /\ t \notin ToSet(waiting)
  BY <1>1 DEF IInv, TypeOK, ListOK, Labels
<1>3. ListOK'
  BY <1>1 DEF IInv, ListOK
<1>m. /\ Moved("asleep", "holds") /\ pc' \in [Threads -> Labels]
      /\ At("asleep")' = At("asleep") \ {t}
  BY <1>1, <1>2, Moves
<1>4. Counted'
  BY <1>1, <1>m, IInvFacts DEF Counted, IInv, Moved
<1>5. DebtsCovered'
  BY <1>1, <1>m, IInvFacts DEF DebtsCovered, IInv, Moved
<1>6. balance' + N("toWake")' - N("toSleep")' - Cardinality(ToSet(waiting'))
          = IF val' < 0 THEN val' ELSE 0
  BY <1>1, <1>m, SumFact DEF Moved
<1>7. /\ pc' \in [Threads -> Labels] /\ granted' \cup ToSet(waiting') = At("asleep")'
      /\ balance' \in Int
  BY <1>1, <1>2, <1>m, IInvFacts
<1>8. /\ mode' \in [Threads -> {WQ!NoMode, NoDeadline, Deadline}]
      /\ rc' \in [Threads -> {"none", "EOK", "ETIMEOUT"}]
  BY <1>1, <1>2 DEF WQ!NoMode, NoDeadline, Deadline
<1>9. val' \in Int /\ ups' \in 0..MaxUps /\ ~closed' /\ \A u \in Threads : ~interrupted'[u]
  BY <1>1 DEF IInv, TypeOK
<1> QED BY <1>3, <1>4, <1>5, <1>6, <1>7, <1>8, <1>9, Preserved

\* A thread gives up: it leaves the list, and a debt.
LEMMA TimeoutStep ==
    ASSUME IInv, NEW t \in Threads, SleepTimesOut(t)
    PROVE  IInv'
<1> DEFINE W == Cardinality(ToSet(waiting))
<1>1. /\ pc \in [Threads -> Labels] /\ "failed" \in Labels
      /\ waiting \in Seq(Threads) /\ IsInjective(waiting)
      /\ mode \in [Threads -> {WQ!NoMode, NoDeadline, Deadline}]
      /\ rc \in [Threads -> {"none", "EOK", "ETIMEOUT"}]
      /\ ~interrupted[t]
  BY DEF IInv, TypeOK, ListOK, Labels
<1>2. \E i \in 1..Len(waiting) : waiting[i] = t /\ waiting' = RemoveAt(waiting, i)
  BY SameLists DEF SleepTimesOut, WQ!Fail
<1>3. /\ pc[t] = "asleep" /\ mode[t].kind = "timed" /\ rc' = [rc EXCEPT ![t] = "ETIMEOUT"]
      /\ mode' = [mode EXCEPT ![t] = WQ!NoMode]
      /\ UNCHANGED <<val, ups, granted, closed, interrupted>> /\ Goto(t, "failed")
  BY <1>1 DEF SleepTimesOut, WQ!Fail, WQ!Return
<1>4. mode[t].composable
  BY <1>1, <1>3 DEF WQ!NoMode, NoDeadline, Deadline
<1>5. balance' = balance - 1
  BY <1>4 DEF SleepTimesOut, WQ!Fail, WQ!Debit
<1>6. /\ waiting' \in Seq(Threads) /\ IsInjective(waiting')
      /\ ToSet(waiting') = ToSet(waiting) \ {t}
      /\ t \in ToSet(waiting) /\ waiting # <<>>
  <2> PICK i \in 1..Len(waiting) : waiting[i] = t /\ waiting' = RemoveAt(waiting, i)
    BY <1>2
  <2>1. t \in ToSet(waiting)
    BY <1>1, ListIsFunction
  <2>2. waiting # <<>>
    BY <2>1, <1>1, ListIsFunction
  <2> QED BY <1>1, <2>1, <2>2, RemoveAtList
<1>7. Cardinality(ToSet(waiting')) = W - 1 /\ W \in Nat
  BY <1>1, <1>6, ListCount, FS_RemoveElement
<1>8. /\ Moved("asleep", "failed") /\ pc' \in [Threads -> Labels]
      /\ At("asleep")' = At("asleep") \ {t}
  BY <1>1, <1>3, Moves
<1>u. val' = val /\ ups' = ups
  BY <1>3
<1>9. ListOK'
  BY <1>3, <1>5, <1>6, IInvFacts DEF IInv, ListOK
<1>10. Counted'
  BY <1>u, <1>8, IInvFacts DEF Counted, IInv, Moved
<1>11. DebtsCovered'
  BY <1>5, <1>8, IInvFacts DEF DebtsCovered, IInv, Moved
<1>12. balance' + N("toWake")' - N("toSleep")' - Cardinality(ToSet(waiting'))
           = IF val' < 0 THEN val' ELSE 0
  BY <1>u, <1>5, <1>7, <1>8, SumFact DEF Moved
<1>13. granted' \cup ToSet(waiting') = At("asleep")' /\ balance' \in Int
  <2>1. t \notin granted
    BY <1>6 DEF IInv, ListOK
  <2> QED BY <2>1, <1>3, <1>5, <1>6, <1>8, IInvFacts
<1>14. /\ mode' \in [Threads -> {WQ!NoMode, NoDeadline, Deadline}]
       /\ rc' \in [Threads -> {"none", "EOK", "ETIMEOUT"}]
  BY <1>1, <1>3 DEF WQ!NoMode, NoDeadline, Deadline
<1>15. val' \in Int /\ ups' \in 0..MaxUps /\ ~closed' /\ \A u \in Threads : ~interrupted'[u]
  BY <1>3 DEF IInv, TypeOK
<1> QED BY <1>8, <1>9, <1>10, <1>11, <1>12, <1>13, <1>14, <1>15, Preserved

\* SYS_WAITQ_WAKEUP annuls a debt, is stored, or is granted to a thread.
LEMMA WakeupStep ==
    ASSUME IInv, NEW t \in Threads, Wakeup(t)
    PROVE  IInv'
<1> DEFINE W == Cardinality(ToSet(waiting))
<1>1. /\ pc \in [Threads -> Labels] /\ "idle" \in Labels
      /\ waiting \in Seq(Threads) /\ IsInjective(waiting)
      /\ mode \in [Threads -> {WQ!NoMode, NoDeadline, Deadline}]
      /\ rc \in [Threads -> {"none", "EOK", "ETIMEOUT"}]
  BY DEF IInv, TypeOK, ListOK, Labels
<1>2. /\ pc[t] = "toWake" /\ UNCHANGED <<val, ups, closed, interrupted, mode, rc>>
      /\ Goto(t, "idle")
  BY DEF Wakeup, WQ!WakeOne
<1>3. /\ Moved("toWake", "idle") /\ pc' \in [Threads -> Labels]
      /\ At("asleep")' = At("asleep")
  <2>1. t \notin At("asleep")
    BY <1>2 DEF At
  <2>2. At("asleep") \ {t} = At("asleep")
    BY <2>1
  <2>3. /\ Moved(pc[t], "idle") /\ pc' \in [Threads -> Labels]
        /\ At("asleep")' = At("asleep") \ {t}
    BY <1>1, <1>2, Moves
  <2> QED BY <2>2, <2>3, <1>2
<1>4. Counted'
  BY <1>2, <1>3, IInvFacts DEF Counted, IInv, Moved
<1>5. /\ mode' \in [Threads -> {WQ!NoMode, NoDeadline, Deadline}]
      /\ rc' \in [Threads -> {"none", "EOK", "ETIMEOUT"}]
  BY <1>1, <1>2 DEF WQ!NoMode, NoDeadline, Deadline
<1>6. val' \in Int /\ ups' \in 0..MaxUps /\ ~closed' /\ \A u \in Threads : ~interrupted'[u]
  BY <1>2 DEF IInv, TypeOK
<1>7. CASE (balance < 0 \/ waiting = <<>>) /\ balance' = balance + 1 /\ UNCHANGED <<waiting, granted>>
  <2>1. ListOK'
    BY <1>2, <1>7, IInvFacts DEF IInv, ListOK
  <2>2. DebtsCovered'
    BY <1>3, <1>7, IInvFacts DEF DebtsCovered, IInv, Moved
  <2>m. /\ N("toWake")' = N("toWake") - 1 /\ N("toSleep")' = N("toSleep")
        /\ N("toWake") \in Nat /\ N("toSleep") \in Nat
    BY <1>3 DEF Moved
  <2>e. balance' = balance + 1 /\ waiting' = waiting /\ val' = val
    BY <1>2, <1>7
  <2>3. balance' + N("toWake")' - N("toSleep")' - Cardinality(ToSet(waiting'))
            = IF val' < 0 THEN val' ELSE 0
    BY <2>m, <2>e, SumFact
  <2>4. granted' \cup ToSet(waiting') = At("asleep")' /\ balance' \in Int
    BY <1>3, <1>7, IInvFacts
  <2> QED BY <1>3, <1>4, <1>5, <1>6, <2>1, <2>2, <2>3, <2>4, Preserved
<1>8. CASE /\ balance >= 0 /\ waiting # <<>> /\ waiting' = Tail(waiting)
           /\ granted' = granted \cup {Head(waiting)} /\ balance' = balance
  <2>1. /\ waiting' \in Seq(Threads) /\ IsInjective(waiting')
        /\ ToSet(waiting') = ToSet(waiting) \ {Head(waiting)}
        /\ Head(waiting) \in ToSet(waiting) /\ Head(waiting) \in Threads
    BY <1>1, <1>8, TailList
  <2>2. Cardinality(ToSet(waiting')) = W - 1 /\ W \in Nat
    BY <1>1, <2>1, ListCount, FS_RemoveElement, ZenonT(60)
  <2>3. balance = 0
    BY <1>8, IInvFacts DEF IInv, ListOK
  <2>4. ListOK'
    BY <1>2, <1>8, <2>1, <2>3 DEF IInv, ListOK
  <2>5. DebtsCovered'
    BY <1>3, <1>8, <2>3, IInvFacts DEF DebtsCovered, IInv, Moved
  <2>m. /\ N("toWake")' = N("toWake") - 1 /\ N("toSleep")' = N("toSleep")
        /\ N("toWake") \in Nat /\ N("toSleep") \in Nat
    BY <1>3 DEF Moved
  <2>e. balance' = balance /\ val' = val
    BY <1>2, <1>8
  <2>6. balance' + N("toWake")' - N("toSleep")' - Cardinality(ToSet(waiting'))
            = IF val' < 0 THEN val' ELSE 0
    BY <2>m, <2>e, <2>2, SumFact
  <2>7. granted' \cup ToSet(waiting') = At("asleep")' /\ balance' \in Int
    BY <1>3, <1>8, <2>1, IInvFacts
  <2> QED BY <1>3, <1>4, <1>5, <1>6, <2>1, <2>4, <2>5, <2>6, <2>7, Preserved
<1> QED BY <1>7, <1>8 DEF Wakeup, WQ!WakeOne, WQ!GrantFirst

-----------------------------------------------------------------------------
LEMMA InitIInv == Init => IInv
<1> SUFFICES ASSUME Init PROVE IInv
  OBVIOUS
<1>1. /\ val = Tokens /\ ups = 0 /\ balance = 0 /\ waiting = <<>> /\ granted = {}
      /\ pc = [t \in Threads |-> "idle"] /\ ~closed
      /\ interrupted = [t \in Threads |-> FALSE]
      /\ mode = [t \in Threads |-> WQ!NoMode] /\ rc = [t \in Threads |-> "none"]
  BY DEF Init, WQ!Init
<1>2. ASSUME NEW label \in Labels \ {"idle"} PROVE At(label) = {} /\ N(label) = 0
  <2>1. At(label) = {}
    BY <1>1, <1>2 DEF At
  <2> QED BY <2>1, FS_EmptySet DEF N
<1>3. /\ At("asleep") = {} /\ N("holds") = 0 /\ N("asleep") = 0 /\ N("toSleep") = 0
      /\ N("failed") = 0 /\ N("toWake") = 0
  BY <1>2 DEF Labels
<1>4. /\ waiting \in Seq(Threads) /\ ToSet(waiting) = {} /\ IsInjective(waiting)
      /\ Cardinality(ToSet(waiting)) = 0
  <2>1. waiting \in Seq(Threads) /\ Len(waiting) = 0
    BY <1>1
  <2>2. ToSet(waiting) = {}
    BY <2>1, <1>1, ListIsFunction
  <2>3. IsInjective(waiting)
    <3>1. \A i, j \in 1..Len(waiting) : waiting[i] = waiting[j] => i = j
      BY <2>1
    <3> QED BY <3>1, <2>1, ListIsFunction
  <2> QED BY <2>1, <2>2, <2>3, FS_EmptySet
<1>5. TypeOK
  <2>1. mode \in [Threads -> {WQ!NoMode, NoDeadline, Deadline}]
    BY <1>1 DEF WQ!NoMode, NoDeadline, Deadline
  <2>2. pc \in [Threads -> Labels] /\ rc \in [Threads -> {"none", "EOK", "ETIMEOUT"}]
    BY <1>1 DEF Labels
  <2>3. val \in Int /\ ups \in 0..MaxUps /\ balance \in Int
    BY <1>1, FutexAssumption
  <2>4. granted \cup WQ!ToSet(waiting) = At("asleep")
    BY <1>1, <1>3, <1>4, SameLists
  <2>5. ~closed /\ \A t \in Threads : ~interrupted[t]
    BY <1>1
  <2> QED BY <2>1, <2>2, <2>3, <2>4, <2>5 DEF TypeOK
<1>6. ListOK
  BY <1>1, <1>4 DEF ListOK
<1>7. TokensAddUp
  <2>1. balance + N("toWake") - N("toSleep") - Cardinality(ToSet(waiting)) = 0
    BY <1>1, <1>3, <1>4
  <2> QED BY <2>1, <1>1, SameLists, FutexAssumption DEF TokensAddUp, N
<1>8. Counted /\ DebtsCovered
  BY <1>1, <1>3, FutexAssumption DEF Counted, DebtsCovered
<1> QED BY <1>5, <1>6, <1>7, <1>8 DEF IInv

LEMMA StepIInv == IInv /\ [Next]_vars => IInv'
<1> SUFFICES ASSUME IInv, [Next]_vars PROVE IInv'
  OBVIOUS
<1>1. CASE UNCHANGED vars
  BY <1>1 DEF vars, wqvars, IInv, TypeOK, ListOK, TokensAddUp, Counted, DebtsCovered, N, At
<1>2. ASSUME NEW t \in Threads, Down(t) PROVE IInv'
  BY <1>2, DownStep
<1>3. ASSUME NEW t \in Threads, Produce(t) PROVE IInv'
  BY <1>3, UpStep, IInvFacts DEF Produce
<1>4. ASSUME NEW t \in Threads, Release(t) PROVE IInv'
  BY <1>4, UpStep, IInvFacts DEF Release
<1>5. ASSUME NEW t \in Threads, GiveBack(t) PROVE IInv'
  BY <1>5, UpStep, IInvFacts DEF GiveBack
<1>6. ASSUME NEW t \in Threads, Sleep(t) PROVE IInv'
  BY <1>6, SleepStep
<1>7. ASSUME NEW t \in Threads, SleepSucceeds(t) PROVE IInv'
  BY <1>7, SucceedStep
<1>8. ASSUME NEW t \in Threads, SleepTimesOut(t) PROVE IInv'
  BY <1>8, TimeoutStep
<1>9. ASSUME NEW t \in Threads, Wakeup(t) PROVE IInv'
  BY <1>9, WakeupStep
<1> QED
  BY <1>1, <1>2, <1>3, <1>4, <1>5, <1>6, <1>7, <1>8, <1>9 DEF Next, Step

LEMMA Invariance == Spec => []IInv
BY InitIInv, StepIInv, PTL DEF Spec

\* The futex and its wait queue keep their types, and a thread is in the
\* system call exactly while it waits or has been granted a wakeup.
THEOREM TypeCorrect == Spec => []TypeOK
<1>1. IInv => TypeOK
  BY DEF IInv
<1> QED BY <1>1, Invariance, PTL

\* The counter of user space and the balance of the kernel describe the same
\* tokens at every moment between the atomic accesses and the system calls of
\* any number of threads.
THEOREM CountersAgree == Spec => []TokensAddUp
<1>1. IInv => TokensAddUp
  BY DEF IInv
<1> QED BY <1>1, Invariance, PTL

\* The threads in the kernel: those that wait and those that were granted.
LEMMA Holders ==
    ASSUME IInv
    PROVE  /\ Cardinality(At("holds") \cup granted)
                  = N("holds") + N("asleep") - Cardinality(ToSet(waiting))
           /\ N("holds") \in Nat /\ N("asleep") \in Nat /\ N("toSleep") \in Nat
           /\ N("failed") \in Nat /\ N("toWake") \in Nat
<1>1. /\ granted \cup ToSet(waiting) = At("asleep") /\ granted \cap ToSet(waiting) = {}
      /\ granted \in SUBSET Threads /\ waiting \in Seq(Threads)
  BY IInvFacts DEF IInv, ListOK
<1>2. IsFiniteSet(granted) /\ IsFiniteSet(ToSet(waiting)) /\ Cardinality(granted) \in Nat
  BY <1>1, FutexAssumption, FS_Subset, ListCount, FS_CardinalityType
<1>3. N("asleep") = Cardinality(granted) + Cardinality(ToSet(waiting))
  <2>1. Cardinality(granted \cup ToSet(waiting)) = Cardinality(granted)
            + Cardinality(ToSet(waiting)) - Cardinality(granted \cap ToSet(waiting))
    BY <1>2, FS_Union
  <2>2. Cardinality(granted \cap ToSet(waiting)) = 0
    BY <1>1, FS_EmptySet
  <2>3. Cardinality(ToSet(waiting)) \in Nat
    BY <1>1, ListCount
  <2>4. N("asleep") = Cardinality(granted \cup ToSet(waiting))
    BY <1>1 DEF N
  <2> QED BY <2>1, <2>2, <2>3, <2>4, <1>2
<1>4. At("holds") \cap granted = {}
  <2>1. granted \subseteq At("asleep")
    BY <1>1
  <2> QED BY <2>1 DEF At
<1>5. Cardinality(At("holds") \cup granted) = N("holds") + Cardinality(granted)
  BY <1>2, <1>4, CountType, FS_Union, FS_EmptySet DEF N
<1> QED BY <1>1, <1>2, <1>3, <1>5, ListCount, CountType

\* Mutual exclusion: no more threads get past a down than there are tokens.
THEOREM MutualExclusion == Spec => []NoTokenInvented
<1>1. IInv => NoTokenInvented
  <2> SUFFICES ASSUME IInv PROVE NoTokenInvented
    OBVIOUS
  <2>1. Cardinality(At("holds") \cup granted) <= Tokens + ups
    BY Holders, IInvFacts DEF IInv, Counted, DebtsCovered
  <2> QED BY <2>1 DEF NoTokenInvented
<1> QED BY <1>1, Invariance, PTL

\* A thread is left waiting only while all tokens are taken.
THEOREM TokenNotLost == Spec => []NoTokenLost
<1>1. IInv => NoTokenLost
  <2> SUFFICES ASSUME IInv, At("toSleep") \cup At("toWake") \cup At("failed") = {},
                      ToSet(waiting) # {}
               PROVE  Cardinality(At("holds") \cup granted) = Tokens + ups
    BY SameLists DEF NoTokenLost
  <2>1. N("toSleep") = 0 /\ N("toWake") = 0 /\ N("failed") = 0
    BY FS_EmptySet DEF N
  <2>2. Cardinality(ToSet(waiting)) > 0
    BY ListCount, ListIsFunction DEF IInv, ListOK
  <2> QED
    BY <2>1, <2>2, Holders, IInvFacts DEF IInv, Counted, DebtsCovered
<1> QED BY <1>1, Invariance, PTL
=============================================================================
