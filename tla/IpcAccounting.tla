---------------------------- MODULE IpcAccounting ----------------------------
(***************************************************************************)
(* The books of module Ipc, for any tasks, threads, phones and calls: the  *)
(* references to phones against those who hold them, and the counters      *)
(* phone->active_calls and answerbox->active_calls against the calls that  *)
(* wait for their answer.                                                  *)
(*                                                                         *)
(* A step concerns at most one call c and one thread t.  It is posted: the *)
(* change of a counter is compared with the change of what c, t and the    *)
(* phone itself contribute to what the counter stands for.                 *)
(*                                                                         *)
(* From the books follows what a task that ends may rely on: all answers   *)
(* have arrived, no request comes any more, and nobody uses its answerbox. *)
(***************************************************************************)
EXTENDS IpcProofs

\* The calls that wait for their answer.
Due == {c \in AllCalls : Outstanding(c)}

\* What phone_refs[p] and the counters of active calls stand for.
Made(p)   == {c \in AllCalls : caller_phone[c] = p /\ call_refs[c] > 0}
DueOn(p)  == {c \in AllCalls : caller_phone[c] = p /\ c \in Due}
NewFor(p) == {c \in AllCalls : priv[c] = p}
Users(p)  == {t \in Threads : thr[t].phone = p}
DueAt(b)  == {c \in AllCalls : callerbox[c] = b /\ c \in Due}

\* The references to p of its capability and its list, of thread t, of call c.
Own(p)      == (IF phone_cap[p] THEN 1 ELSE 0) + (IF linked[p] THEN 1 ELSE 0)
Hand(t, p)  == IF thr[t].phone = p THEN 1 ELSE 0
Entry(c, p) == (IF caller_phone[c] = p /\ call_refs[c] > 0 THEN 1 ELSE 0)
             + (IF caller_phone[c] = p /\ c \in Due THEN 1 ELSE 0)
             + (IF priv[c] = p THEN 1 ELSE 0)

DueEntry(c, p) == IF caller_phone[c] = p /\ c \in Due THEN 1 ELSE 0
BoxEntry(c, b) == IF callerbox[c] = b /\ c \in Due THEN 1 ELSE 0

\* The books are right, but for the faults X: nothing is freed too early, and
\* nothing leaks unless a synchronous call was refused (BacksendSync) or
\* forgotten (ipc_forget_sync).
PhoneBook(p, X) ==
    /\ IsFiniteSet(Made(p)) /\ IsFiniteSet(DueOn(p)) /\ IsFiniteSet(NewFor(p))
    /\ phone_refs[p] >= PhoneHolders(p)
    /\ "refused" \notin X => /\ phone_refs[p] = PhoneHolders(p)
                             /\ phone_active_calls[p] = Cardinality(DueOn(p))

BoxBook(b, X) ==
    /\ IsFiniteSet(DueAt(b))
    /\ "forgotten" \notin X => box_active_calls[b] = Cardinality(DueAt(b))

Books(X) == (\A p \in Phones : PhoneBook(p, X)) /\ (\A b \in Boxes : BoxBook(b, X))

\* A step leaves the entries of call d alone.
Unposted(d) ==
    /\ caller_phone'[d] = caller_phone[d] /\ callerbox'[d] = callerbox[d]
    /\ priv'[d] = priv[d] /\ (d \in Due' <=> d \in Due)
    /\ caller_phone[d] = None \/ (call_refs'[d] > 0 <=> call_refs[d] > 0)

-----------------------------------------------------------------------------
(* Posting a step. *)

LEMMA HoldersSum ==
    ASSUME NEW p \in Phones
    PROVE  PhoneHolders(p) = Own(p) + Cardinality(Made(p)) + Cardinality(DueOn(p))
                             + Cardinality(NewFor(p)) + Cardinality(Users(p))
<1>1. DueOn(p) = {c \in AllCalls : caller_phone[c] = p /\ Outstanding(c)}
  BY DEF DueOn, Due
<1> QED BY <1>1 DEF PhoneHolders, Own, Made, NewFor, Users

LEMMA UsersFinite ==
    ASSUME NEW p
    PROVE  IsFiniteSet(Users(p)) /\ IsFiniteSet(Users(p))'
<1>1. Users(p) \subseteq Threads /\ Users(p)' \subseteq Threads /\ IsFiniteSet(Threads)
  BY IpcAssumption DEF Users
<1> QED BY <1>1, FS_Subset

\* How the sets change with call c and thread t.
LEMMA SetsDelta ==
    ASSUME Types, NEW t \in Threads, \A u \in Threads : u # t => thr'[u] = thr[u],
           NEW c \in AllCalls, \A d \in AllCalls : d # c => Unposted(d),
           NEW p \in Phones,
           IsFiniteSet(Made(p)) /\ IsFiniteSet(DueOn(p)) /\ IsFiniteSet(NewFor(p))
    PROVE  /\ IsFiniteSet(Made(p)') /\ IsFiniteSet(DueOn(p)') /\ IsFiniteSet(NewFor(p)')
           /\ Cardinality(Made(p)) \in Nat /\ Cardinality(Made(p)') \in Nat
           /\ Cardinality(DueOn(p)) \in Nat /\ Cardinality(DueOn(p)') \in Nat
           /\ Cardinality(NewFor(p)) \in Nat /\ Cardinality(NewFor(p)') \in Nat
           /\ Cardinality(Users(p)) \in Nat /\ Cardinality(Users(p)') \in Nat
           /\ Cardinality(Made(p)') + (IF c \in Made(p) THEN 1 ELSE 0)
                = Cardinality(Made(p)) + (IF c \in Made(p)' THEN 1 ELSE 0)
           /\ Cardinality(DueOn(p)') + (IF c \in DueOn(p) THEN 1 ELSE 0)
                = Cardinality(DueOn(p)) + (IF c \in DueOn(p)' THEN 1 ELSE 0)
           /\ Cardinality(NewFor(p)') + (IF c \in NewFor(p) THEN 1 ELSE 0)
                = Cardinality(NewFor(p)) + (IF c \in NewFor(p)' THEN 1 ELSE 0)
           /\ Cardinality(Users(p)') + (IF t \in Users(p) THEN 1 ELSE 0)
                = Cardinality(Users(p)) + (IF t \in Users(p)' THEN 1 ELSE 0)
<1>1. Made(p)' \ {c} = Made(p) \ {c}
  BY Nones DEF Made, Unposted
<1>2. DueOn(p)' \ {c} = DueOn(p) \ {c}
  BY DEF DueOn, Unposted
<1>3. NewFor(p)' \ {c} = NewFor(p) \ {c}
  BY DEF NewFor, Unposted
<1>4. Users(p)' \ {t} = Users(p) \ {t} /\ IsFiniteSet(Users(p))
  BY UsersFinite DEF Users
<1>5. PICK M : M = Made(p)'
  OBVIOUS
<1>6. PICK D : D = DueOn(p)'
  OBVIOUS
<1>7. PICK N : N = NewFor(p)'
  OBVIOUS
<1>8. PICK U : U = Users(p)'
  OBVIOUS
<1>11. /\ IsFiniteSet(M) /\ Cardinality(Made(p)) \in Nat /\ Cardinality(M) \in Nat
       /\ Cardinality(M) + (IF c \in Made(p) THEN 1 ELSE 0)
            = Cardinality(Made(p)) + (IF c \in M THEN 1 ELSE 0)
  BY <1>1, <1>5, CardDelta
<1>12. /\ IsFiniteSet(D) /\ Cardinality(DueOn(p)) \in Nat /\ Cardinality(D) \in Nat
       /\ Cardinality(D) + (IF c \in DueOn(p) THEN 1 ELSE 0)
            = Cardinality(DueOn(p)) + (IF c \in D THEN 1 ELSE 0)
  BY <1>2, <1>6, CardDelta
<1>13. /\ IsFiniteSet(N) /\ Cardinality(NewFor(p)) \in Nat /\ Cardinality(N) \in Nat
       /\ Cardinality(N) + (IF c \in NewFor(p) THEN 1 ELSE 0)
            = Cardinality(NewFor(p)) + (IF c \in N THEN 1 ELSE 0)
  BY <1>3, <1>7, CardDelta
<1>14. /\ IsFiniteSet(U) /\ Cardinality(Users(p)) \in Nat /\ Cardinality(U) \in Nat
       /\ Cardinality(U) + (IF t \in Users(p) THEN 1 ELSE 0)
            = Cardinality(Users(p)) + (IF t \in U THEN 1 ELSE 0)
  BY <1>4, <1>8, CardDelta
<1> QED BY <1>5, <1>6, <1>7, <1>8, <1>11, <1>12, <1>13, <1>14

\* The excess of references over holders grows by e.
LEMMA ExcessDelta ==
    ASSUME Types, Types', NEW t \in Threads, \A u \in Threads : u # t => thr'[u] = thr[u],
           NEW c \in AllCalls, \A d \in AllCalls : d # c => Unposted(d),
           NEW p \in Phones,
           IsFiniteSet(Made(p)) /\ IsFiniteSet(DueOn(p)) /\ IsFiniteSet(NewFor(p)),
           NEW e \in Int,
           phone_refs'[p] + Own(p) + Hand(t, p) + Entry(c, p)
             = phone_refs[p] + Own(p)' + Hand(t, p)' + Entry(c, p)' + e
    PROVE  phone_refs'[p] - PhoneHolders(p)' = phone_refs[p] - PhoneHolders(p) + e
<1>1. /\ phone_refs[p] \in Int /\ phone_refs'[p] \in Int
      /\ Own(p) \in Int /\ Own(p)' \in Int
  BY DEF Types, Own
<1>2. /\ Hand(t, p) = (IF t \in Users(p) THEN 1 ELSE 0)
      /\ Hand(t, p)' = (IF t \in Users(p)' THEN 1 ELSE 0)
  BY DEF Hand, Users
<1>3. Entry(c, p) = (IF c \in Made(p) THEN 1 ELSE 0) + (IF c \in DueOn(p) THEN 1 ELSE 0)
                    + (IF c \in NewFor(p) THEN 1 ELSE 0)
  BY DEF Entry, Made, DueOn, NewFor
<1>4. Entry(c, p)' = (IF c \in Made(p)' THEN 1 ELSE 0) + (IF c \in DueOn(p)' THEN 1 ELSE 0)
                     + (IF c \in NewFor(p)' THEN 1 ELSE 0)
  BY DEF Entry, Made, DueOn, NewFor
<1>5. /\ Cardinality(Made(p)) \in Nat /\ Cardinality(Made(p)') \in Nat
      /\ Cardinality(DueOn(p)) \in Nat /\ Cardinality(DueOn(p)') \in Nat
      /\ Cardinality(NewFor(p)) \in Nat /\ Cardinality(NewFor(p)') \in Nat
      /\ Cardinality(Users(p)) \in Nat /\ Cardinality(Users(p)') \in Nat
  BY SetsDelta, ZenonT(60)
<1>6. Cardinality(Made(p)') + (IF c \in Made(p) THEN 1 ELSE 0)
        = Cardinality(Made(p)) + (IF c \in Made(p)' THEN 1 ELSE 0)
  BY SetsDelta, ZenonT(60)
<1>7. Cardinality(DueOn(p)') + (IF c \in DueOn(p) THEN 1 ELSE 0)
        = Cardinality(DueOn(p)) + (IF c \in DueOn(p)' THEN 1 ELSE 0)
  BY SetsDelta, ZenonT(60)
<1>8. Cardinality(NewFor(p)') + (IF c \in NewFor(p) THEN 1 ELSE 0)
        = Cardinality(NewFor(p)) + (IF c \in NewFor(p)' THEN 1 ELSE 0)
  BY SetsDelta, ZenonT(60)
<1>9. Cardinality(Users(p)') + (IF t \in Users(p) THEN 1 ELSE 0)
        = Cardinality(Users(p)) + (IF t \in Users(p)' THEN 1 ELSE 0)
  BY SetsDelta, ZenonT(60)
<1>10. PhoneHolders(p) = Own(p) + Cardinality(Made(p)) + Cardinality(DueOn(p))
                         + Cardinality(NewFor(p)) + Cardinality(Users(p))
  BY HoldersSum
<1>11. PhoneHolders(p)' = Own(p)' + Cardinality(Made(p)') + Cardinality(DueOn(p)')
                          + Cardinality(NewFor(p)') + Cardinality(Users(p)')
  <2>1. DueOn(p)' = {d \in AllCalls : caller_phone'[d] = p /\ Outstanding(d)'}
    BY DEF DueOn, Due
  <2> QED BY <2>1 DEF PhoneHolders, Own, Made, NewFor, Users
<1> QED BY <1>1, <1>2, <1>3, <1>4, <1>5, <1>6, <1>7, <1>8, <1>9, <1>10, <1>11, SMTT(180)

\* The counters of active calls.
LEMMA CountDelta ==
    ASSUME Types, Types', NEW t \in Threads, \A u \in Threads : u # t => thr'[u] = thr[u],
           NEW c \in AllCalls, \A d \in AllCalls : d # c => Unposted(d),
           NEW p \in Phones,
           IsFiniteSet(Made(p)) /\ IsFiniteSet(DueOn(p)) /\ IsFiniteSet(NewFor(p)),
           phone_active_calls[p] = Cardinality(DueOn(p)),
           phone_active_calls'[p] + DueEntry(c, p) = phone_active_calls[p] + DueEntry(c, p)'
    PROVE  phone_active_calls'[p] = Cardinality(DueOn(p)')
<1>1. phone_active_calls[p] \in Int /\ phone_active_calls'[p] \in Int
  BY DEF Types
<1>2. /\ DueEntry(c, p) = (IF c \in DueOn(p) THEN 1 ELSE 0)
      /\ DueEntry(c, p)' = (IF c \in DueOn(p)' THEN 1 ELSE 0)
  BY DEF DueEntry, DueOn
<1>3. Cardinality(DueOn(p)) \in Nat /\ Cardinality(DueOn(p)') \in Nat
  BY SetsDelta, ZenonT(60)
<1>4. Cardinality(DueOn(p)') + (IF c \in DueOn(p) THEN 1 ELSE 0)
        = Cardinality(DueOn(p)) + (IF c \in DueOn(p)' THEN 1 ELSE 0)
  BY SetsDelta, ZenonT(60)
<1> QED BY <1>1, <1>2, <1>3, <1>4, SMTT(30)

LEMMA BoxDelta ==
    ASSUME NEW X, Types, Types', NEW c \in AllCalls, \A d \in AllCalls : d # c => Unposted(d),
           NEW b \in Boxes, BoxBook(b, X),
           "forgotten" \notin X =>
              box_active_calls'[b] + BoxEntry(c, b) = box_active_calls[b] + BoxEntry(c, b)'
    PROVE  BoxBook(b, X)'
<1>1. box_active_calls[b] \in Int /\ box_active_calls'[b] \in Int /\ IsFiniteSet(DueAt(b))
  BY DEF Types, BoxBook
<1>2. /\ BoxEntry(c, b) = (IF c \in DueAt(b) THEN 1 ELSE 0)
      /\ BoxEntry(c, b)' = (IF c \in DueAt(b)' THEN 1 ELSE 0)
  BY DEF BoxEntry, DueAt
<1>3. PICK D : D = DueAt(b)'
  OBVIOUS
<1>4. DueAt(b)' \ {c} = DueAt(b) \ {c}
  BY DEF DueAt, Unposted
<1>5. /\ IsFiniteSet(D) /\ Cardinality(DueAt(b)) \in Nat /\ Cardinality(D) \in Nat
      /\ Cardinality(D) + (IF c \in DueAt(b) THEN 1 ELSE 0)
            = Cardinality(DueAt(b)) + (IF c \in D THEN 1 ELSE 0)
  BY <1>1, <1>3, <1>4, CardDelta
<1>6. "forgotten" \notin X => box_active_calls'[b] = Cardinality(D)
  <2> SUFFICES ASSUME "forgotten" \notin X PROVE box_active_calls'[b] = Cardinality(D)
    OBVIOUS
  <2>1. box_active_calls[b] = Cardinality(DueAt(b))
    BY DEF BoxBook
  <2> QED BY <1>1, <1>2, <1>3, <1>5, <2>1, SMTT(30)
<1> QED BY <1>3, <1>5, <1>6 DEF BoxBook

LEMMA PhoneDelta ==
    ASSUME NEW X, Types, Types', NEW t \in Threads, \A u \in Threads : u # t => thr'[u] = thr[u],
           NEW c \in AllCalls, \A d \in AllCalls : d # c => Unposted(d),
           NEW p \in Phones, PhoneBook(p, X),
           NEW e \in Nat, "refused" \notin X => e = 0,
           phone_refs'[p] + Own(p) + Hand(t, p) + Entry(c, p)
             = phone_refs[p] + Own(p)' + Hand(t, p)' + Entry(c, p)' + e,
           "refused" \notin X =>
              phone_active_calls'[p] + DueEntry(c, p) = phone_active_calls[p] + DueEntry(c, p)'
    PROVE  PhoneBook(p, X)'
<1>1. IsFiniteSet(Made(p)) /\ IsFiniteSet(DueOn(p)) /\ IsFiniteSet(NewFor(p))
  BY DEF PhoneBook
<1>2. e \in Int
  OBVIOUS
<1>3. IsFiniteSet(Made(p)') /\ IsFiniteSet(DueOn(p)') /\ IsFiniteSet(NewFor(p)')
  BY <1>1, SetsDelta, ZenonT(60)
<1>4. phone_refs'[p] - PhoneHolders(p)' = phone_refs[p] - PhoneHolders(p) + e
  BY <1>1, <1>2, ExcessDelta, ZenonT(60)
<1>5. phone_refs[p] \in Int /\ phone_refs'[p] \in Int
  BY DEF Types
<1>6. PhoneHolders(p) \in Int /\ PhoneHolders(p)' \in Int
  <2>1. /\ Cardinality(Made(p)) \in Nat /\ Cardinality(Made(p)') \in Nat
        /\ Cardinality(DueOn(p)) \in Nat /\ Cardinality(DueOn(p)') \in Nat
        /\ Cardinality(NewFor(p)) \in Nat /\ Cardinality(NewFor(p)') \in Nat
        /\ Cardinality(Users(p)) \in Nat /\ Cardinality(Users(p)') \in Nat
    BY <1>1, SetsDelta, ZenonT(60)
  <2>2. DueOn(p)' = {d \in AllCalls : caller_phone'[d] = p /\ Outstanding(d)'}
    BY DEF DueOn, Due
  <2>3. PhoneHolders(p)' = Own(p)' + Cardinality(Made(p)') + Cardinality(DueOn(p)')
                           + Cardinality(NewFor(p)') + Cardinality(Users(p)')
    BY <2>2 DEF PhoneHolders, Own, Made, NewFor, Users
  <2>4. Own(p) \in Int /\ Own(p)' \in Int
    BY DEF Own
  <2> QED BY <2>1, <2>3, <2>4, HoldersSum
<1>7. phone_refs[p] >= PhoneHolders(p) /\ ("refused" \notin X => phone_refs[p] = PhoneHolders(p))
  BY DEF PhoneBook
<1>8. phone_refs'[p] >= PhoneHolders(p)' /\ ("refused" \notin X => phone_refs'[p] = PhoneHolders(p)')
  <2>1. PICK r \in Int : r = phone_refs[p]
    BY <1>5
  <2>2. PICK s \in Int : s = phone_refs'[p]
    BY <1>5
  <2>3. PICK h \in Int : h = PhoneHolders(p)
    BY <1>6
  <2>4. PICK g \in Int : g = PhoneHolders(p)'
    BY <1>6
  <2>5. s - g = r - h + e /\ r >= h /\ ("refused" \notin X => r = h)
    BY <1>4, <1>7, <2>1, <2>2, <2>3, <2>4
  <2>6. s >= g
    BY <2>5
  <2>7. "refused" \notin X => s = g
    BY <2>5
  <2> QED BY <2>2, <2>4, <2>6, <2>7
<1>9. "refused" \notin X => phone_active_calls'[p] = Cardinality(DueOn(p)')
  <2> SUFFICES ASSUME "refused" \notin X PROVE phone_active_calls'[p] = Cardinality(DueOn(p)')
    OBVIOUS
  <2>1. phone_active_calls[p] = Cardinality(DueOn(p))
    BY DEF PhoneBook
  <2> QED BY <1>1, <2>1, CountDelta, ZenonT(60)
<1> QED BY <1>3, <1>8, <1>9 DEF PhoneBook

\* A step of t that concerns call c is posted.
LEMMA Posted ==
    ASSUME NEW X, Types, Types', Books(X),
           NEW t \in Threads, \A u \in Threads : u # t => thr'[u] = thr[u],
           NEW c \in AllCalls, \A d \in AllCalls : d # c => Unposted(d),
           \A p \in Phones : phone_refs'[p] + Own(p) + Hand(t, p) + Entry(c, p)
                               = phone_refs[p] + Own(p)' + Hand(t, p)' + Entry(c, p)',
           \A p \in Phones :
              phone_active_calls'[p] + DueEntry(c, p) = phone_active_calls[p] + DueEntry(c, p)',
           "forgotten" \notin X => \A b \in Boxes :
              box_active_calls'[b] + BoxEntry(c, b) = box_active_calls[b] + BoxEntry(c, b)'
    PROVE  Books(X)'
<1>1. ASSUME NEW p \in Phones PROVE PhoneBook(p, X)'
  <2>1. PhoneBook(p, X) /\ 0 \in Nat /\ ("refused" \notin X => 0 = 0)
    BY DEF Books
  <2>2. Entry(c, p)' \in Int /\ Own(p)' \in Int /\ Hand(t, p)' \in Int /\ phone_refs[p] \in Int
    BY DEF Entry, Own, Hand, Types
  <2>3. phone_refs'[p] + Own(p) + Hand(t, p) + Entry(c, p)
          = phone_refs[p] + Own(p)' + Hand(t, p)' + Entry(c, p)' + 0
    BY <2>2
  <2> QED BY <2>1, <2>3, PhoneDelta, ZenonT(60)
<1>2. ASSUME NEW b \in Boxes PROVE BoxBook(b, X)'
  <2>1. BoxBook(b, X)
    BY DEF Books
  <2> QED BY <2>1, BoxDelta, ZenonT(60)
<1> QED BY <1>1, <1>2 DEF Books

\* A step of t that concerns no call.
LEMMA PostedPhone ==
    ASSUME NEW X, Types, Types', Books(X),
           NEW t \in Threads, \A u \in Threads : u # t => thr'[u] = thr[u],
           \A d \in AllCalls : Unposted(d),
           \A p \in Phones : phone_refs'[p] + Own(p) + Hand(t, p)
                               = phone_refs[p] + Own(p)' + Hand(t, p)',
           UNCHANGED <<phone_active_calls, box_active_calls>>
    PROVE  Books(X)'
<1>1. ASSUME NEW c \in AllCalls, NEW p \in Phones
      PROVE  Entry(c, p)' = Entry(c, p) /\ DueEntry(c, p)' = DueEntry(c, p)
  BY Nones DEF Entry, DueEntry, Unposted
<1>2. ASSUME NEW c \in AllCalls, NEW b \in Boxes PROVE BoxEntry(c, b)' = BoxEntry(c, b)
  BY DEF BoxEntry, Unposted
<1>3. CASE AllCalls = {}
  <2>1. Phones = {} /\ \A b \in Boxes : DueAt(b)' = DueAt(b)
    BY <1>3 DEF AllCalls, DueAt
  <2> QED BY <2>1 DEF Books, BoxBook
<1>4. ASSUME NEW c \in AllCalls PROVE Books(X)'
  <2>1. \A p \in Phones : phone_refs'[p] + Own(p) + Hand(t, p) + Entry(c, p)
                            = phone_refs[p] + Own(p)' + Hand(t, p)' + Entry(c, p)'
    <3> TAKE p \in Phones
    <3>1. /\ Entry(c, p) \in Int /\ Own(p)' \in Int /\ Hand(t, p)' \in Int /\ phone_refs[p] \in Int
          /\ Own(p) \in Int /\ Hand(t, p) \in Int /\ phone_refs'[p] \in Int
      BY DEF Entry, Own, Hand, Types
    <3> QED BY <1>1, <3>1
  <2>2. \A p \in Phones :
           phone_active_calls'[p] + DueEntry(c, p) = phone_active_calls[p] + DueEntry(c, p)'
    BY <1>1
  <2>3. "forgotten" \notin X => \A b \in Boxes :
           box_active_calls'[b] + BoxEntry(c, b) = box_active_calls[b] + BoxEntry(c, b)'
    BY <1>2
  <2> QED BY <2>1, <2>2, <2>3, Posted, ZenonT(60)
<1> QED BY <1>3, <1>4

-----------------------------------------------------------------------------
(* The calls that wait for their answer. *)

AnswerPCs == {"slam", "deliver"}

\* What makes call d wait for its answer does not change.
LEMMA DueKept ==
    ASSUME NEW t \in Threads, \A u \in Threads : u # t => thr'[u] = thr[u],
           NEW d \in AllCalls, forget'[d] = forget[d],
           \A k \in Tasks : d \in active_calls'[k] <=> d \in active_calls[k],
           \A b \in Boxes : d \in Elements(answers'[b]) <=> d \in Elements(answers[b]),
           (thr'[t].call = d /\ thr'[t].pc \in AnswerPCs) <=> (thr[t].call = d /\ thr[t].pc \in AnswerPCs)
    PROVE  d \in Due' <=> d \in Due
<1>1. \A u \in Threads : (thr'[u].call = d /\ thr'[u].pc \in AnswerPCs) <=>
                         (thr[u].call = d /\ thr[u].pc \in AnswerPCs)
  OBVIOUS
<1> QED BY <1>1 DEF Due, Outstanding, AnswerPCs

LEMMA DueSame ==
    ASSUME NEW t \in Threads, \A u \in Threads : u # t => thr'[u] = thr[u],
           UNCHANGED <<forget, active_calls, answers>>,
           thr[t].pc \notin AnswerPCs, thr'[t].pc \notin AnswerPCs
    PROVE  Due' = Due
<1>1. \A d \in AllCalls : d \in Due' <=> d \in Due
  BY DueKept
<1> QED BY <1>1 DEF Due

LEMMA NotDue ==
    ASSUME NEW c \in AllCalls, NEW t \in Threads, Fresh(c) \/ Unsent(c, t)
    PROVE  c \notin Due /\ ~forget[c]
<1>1. /\ ~forget[c] /\ \A k \in Tasks : c \notin active_calls[k]
      /\ \A b \in Boxes : c \notin Elements(answers[b])
  BY DEF Fresh, Unsent, NotSent, ActiveIn, Where
<1>2. \A u \in Threads : ~(thr[u].call = c /\ thr[u].pc \in AnswerPCs)
  BY DEF Fresh, Unsent, Where, Holds, HolderPCs, AnswerPCs
<1> QED BY <1>1, <1>2 DEF Due, Outstanding, AnswerPCs

\* The call is sent, or answered with an error at once.
LEMMA DueAdded ==
    ASSUME Types, NEW t \in Threads, \A u \in Threads : u # t => thr'[u] = thr[u],
           thr[t].pc \notin AnswerPCs, thr'[t].pc \notin AnswerPCs, forget' = forget,
           NEW c \in AllCalls, ~forget[c], NEW k \in Tasks,
           \/ active_calls' = [active_calls EXCEPT ![k] = @ \cup {c}] /\ answers' = answers
           \/ active_calls' = active_calls /\ answers' = [answers EXCEPT ![k] = Append(@, c)]
    PROVE  c \in Due' /\ \A d \in AllCalls : d # c => (d \in Due' <=> d \in Due)
<1>1. k \in Boxes /\ active_calls \in [Tasks -> SUBSET AllCalls]
  BY Nones DEF Types
<1>2. CASE active_calls' = [active_calls EXCEPT ![k] = @ \cup {c}] /\ answers' = answers
  <2>1. \A d \in AllCalls : d # c =>
           \A i \in Tasks : d \in active_calls'[i] <=> d \in active_calls[i]
    BY <1>1, <1>2
  <2>2. c \in active_calls'[k]
    BY <1>1, <1>2
  <2>3. c \in Due'
    BY <2>2 DEF Due, Outstanding
  <2> QED BY <1>2, <2>1, <2>3, DueKept
<1>3. CASE active_calls' = active_calls /\ answers' = [answers EXCEPT ![k] = Append(@, c)]
  <2>1. \A i \in Boxes, d \in AllCalls :
           d \in Elements(answers'[i]) <=> d \in Elements(answers[i]) \/ (i = k /\ d = c)
    BY <1>1, <1>3, PutAnswers
  <2>2. c \in Due'
    BY <1>1, <2>1 DEF Due, Outstanding
  <2> QED BY <1>3, <2>1, <2>2, DueKept
<1> QED BY <1>2, <1>3

\* An answer is received.
LEMMA DueReceived ==
    ASSUME IInv, NEW t \in Threads, \A u \in Threads : u # t => thr'[u] = thr[u],
           thr[t].pc \notin AnswerPCs, thr'[t].pc \notin AnswerPCs,
           UNCHANGED <<forget, active_calls>>,
           NEW b \in Boxes, answers[b] # <<>>, answers' = [answers EXCEPT ![b] = Tail(@)],
           NEW c, c = Head(answers[b])
    PROVE  /\ c \in AllCalls /\ c \in Due /\ c \notin Due'
           /\ callerbox[c] = b /\ caller_phone[c] \in Phones
           /\ \A d \in AllCalls : d # c => (d \in Due' <=> d \in Due)
<1>1. /\ c \in AllCalls /\ c \in Elements(answers[b])
      /\ \A i \in Boxes, d \in AllCalls : d \in Elements(answers'[i]) <=>
            d \in Elements(answers[i]) /\ ~(i = b /\ d = c)
  BY TakeAnswers DEF IInv
<1>2. callerbox[c] = b /\ \E H \in OneOrNone : Answered(c, H)
  BY <1>1, AnsweredCall DEF IInv, CallInv
<1>3. PICK H \in OneOrNone : Answered(c, H)
  BY <1>2
<1>4. /\ ~forget[c] /\ caller_phone[c] \in Phones /\ \A k \in Tasks : c \notin active_calls[k]
      /\ \A i \in Boxes : c \in Elements(answers[i]) <=> i = b
      /\ \A u \in Threads : thr[u].call = c => thr[u].pc \notin AnswerPCs
  <2>1. ~forget[c] /\ caller_phone[c] \in Phones /\ \A k \in Tasks : c \notin active_calls[k]
    BY <1>3 DEF Answered, Sent, ActiveIn
  <2>2. \A i \in Boxes : c \in Elements(answers[i]) <=> i = b
    BY <1>2, <1>3 DEF Answered, Where
  <2>3. \A u \in Threads : Holds(u, c) => thr[u].pc = "wake"
    BY <1>3 DEF Answered, Where
  <2> QED BY <2>1, <2>2, <2>3 DEF Holds, HolderPCs, AnswerPCs
<1>5. c \in Due
  BY <1>1, <1>4 DEF Due, Outstanding
<1>6. c \notin Due'
  <2>1. \A i \in Boxes : c \notin Elements(answers'[i])
    BY <1>1, <1>4
  <2>2. \A u \in Threads : thr'[u].call = c => thr'[u].pc \notin AnswerPCs
    BY <1>4
  <2> QED BY <1>4, <2>1, <2>2 DEF Due, Outstanding, AnswerPCs
<1>7. ASSUME NEW d \in AllCalls, d # c PROVE d \in Due' <=> d \in Due
  BY <1>1, <1>7, DueKept
<1> QED BY <1>1, <1>2, <1>4, <1>5, <1>6, <1>7

\* An active call is forgotten.
LEMMA DueForgotten ==
    ASSUME IInv, NEW t \in Threads, \A u \in Threads : u # t => thr'[u] = thr[u],
           thr[t].pc \notin AnswerPCs, thr'[t].pc \notin AnswerPCs, answers' = answers,
           NEW c \in AllCalls, NEW k \in Tasks, c \in active_calls[k],
           forget' = [forget EXCEPT ![c] = TRUE],
           active_calls' = [active_calls EXCEPT ![k] = @ \ {c}]
    PROVE  /\ c \in Due /\ c \notin Due' /\ caller_phone[c] \in Phones
           /\ k = Owner(c) /\ (c \notin SyncCalls => callerbox[c] = k)
           /\ \A d \in AllCalls : d # c => (d \in Due' <=> d \in Due)
<1>1. Pending(c) /\ ~forget[c] /\ k = Owner(c)
  BY ActiveCall DEF IInv, CallInv
<1>2. caller_phone[c] \in Phones /\ (c \notin SyncCalls => callerbox[c] = k)
  BY <1>1 DEF Pending, Sent, Owner
<1>3. c \in Due
  BY <1>1 DEF Due, Outstanding
<1>4. forget \in [AllCalls -> BOOLEAN] /\ active_calls \in [Tasks -> SUBSET AllCalls]
  BY DEF IInv, Types
<1>5. c \notin Due'
  BY <1>4 DEF Due, Outstanding
<1>6. ASSUME NEW d \in AllCalls, d # c PROVE d \in Due' <=> d \in Due
  <2>1. forget'[d] = forget[d] /\ \A i \in Tasks : d \in active_calls'[i] <=> d \in active_calls[i]
    BY <1>4, <1>6
  <2> QED BY <2>1, DueKept
<1> QED BY <1>1, <1>2, <1>3, <1>5, <1>6

\* From answer_preprocess() until the answer is in the box, the call waits on.
LEMMA DueAnswering ==
    ASSUME IInv, NEW t \in Threads,
           Preprocess(t) \/ PreprocessForgotten(t) \/ SlamCaller(t) \/ Deliver(t) \/ Discard(t)
    PROVE  Due' = Due
<1>1. PICK c \in AllCalls : c = thr[t].call
  BY HandFacts DEF Preprocess, PreprocessForgotten, SlamCaller, Deliver, Discard, HolderPCs
<1>2. \A u \in Threads : u # t => thr'[u] = thr[u]
  BY OthersStay DEF KernelStep
<1>3. /\ thr \in [Threads -> ThreadType] /\ Shape(thr[t]) /\ Types
      /\ active_calls \in [Tasks -> SUBSET AllCalls] /\ {"slam", "deliver", "wake"} \subseteq PCs
  BY HandFacts DEF IInv, Types, PCs, SyscallPCs
<1>4. thr'[t].call \in {c, None} /\ forget' = forget
  <2>1. CASE Discard(t)
    BY <1>3, <2>1, ReturnFacts DEF Discard
  <2>2. CASE Preprocess(t) \/ PreprocessForgotten(t) \/ SlamCaller(t) \/ Deliver(t)
    <3>1. PICK pc \in PCs : Goto(t, pc)
      BY <1>3, <2>2 DEF Preprocess, PreprocessForgotten, SlamCaller, Deliver
    <3>2. thr'[t].call = thr[t].call
      BY <1>3, <3>1, GotoFacts
    <3> QED BY <1>1, <2>2, <3>2 DEF Preprocess, PreprocessForgotten, SlamCaller, Deliver, call
  <2> QED BY <2>1, <2>2
<1>5. ASSUME NEW d \in AllCalls, d # c PROVE d \in Due' <=> d \in Due
  <2>1. \A k \in Tasks : d \in active_calls'[k] <=> d \in active_calls[k]
    <3>1. CASE Preprocess(t)
      BY <1>1, <1>3, <1>5, <3>1 DEF Preprocess
    <3>2. CASE PreprocessForgotten(t) \/ SlamCaller(t) \/ Deliver(t) \/ Discard(t)
      BY <3>2 DEF PreprocessForgotten, SlamCaller, Deliver, Discard
    <3> QED BY <3>1, <3>2
  <2>2. \A b \in Boxes : d \in Elements(answers'[b]) <=> d \in Elements(answers[b])
    <3>1. CASE Deliver(t)
      <4>1. PICK b \in Boxes : b = callerbox[c]
        BY <1>1, <3>1, HandCall DEF Deliver, HolderPCs
      <4>2. answers' = [answers EXCEPT ![b] = Append(@, c)]
        BY <1>1, <3>1, <4>1 DEF Deliver
      <4> QED BY <1>3, <1>5, <4>2, PutAnswers
    <3>2. CASE Preprocess(t) \/ PreprocessForgotten(t) \/ SlamCaller(t) \/ Discard(t)
      BY <3>2 DEF Preprocess, PreprocessForgotten, SlamCaller, Discard, box
    <3> QED BY <3>1, <3>2
  <2>3. thr[t].call # d /\ thr'[t].call # d /\ forget'[d] = forget[d]
    BY <1>1, <1>4, <1>5, Nones
  <2> QED BY <1>2, <2>1, <2>2, <2>3, DueKept
<1>6. CASE forget[c]
  <2>1. c \notin Due /\ c \notin Due'
    BY <1>4, <1>6 DEF Due, Outstanding
  <2> QED BY <1>5, <2>1 DEF Due
<1>7. CASE ~forget[c]
  <2>1. c \in Due
    <3>1. CASE Preprocess(t)
      <4>1. Handled(c, t) /\ thr[t].pc = "preprocess"
        BY <1>1, <3>1, HandCall DEF Preprocess
      <4>2. Pending(c)
        BY <4>1 DEF Handled
      <4>3. Owner(c) \in Tasks /\ c \in active_calls[Owner(c)]
        BY <1>7, <4>2, Nones DEF Pending, Sent, Owner, ActiveIn
      <4> QED BY <1>7, <4>3 DEF Due, Outstanding
    <3>2. CASE SlamCaller(t) \/ Deliver(t)
      BY <1>1, <1>7, <3>2 DEF Due, Outstanding, SlamCaller, Deliver
    <3>3. CASE PreprocessForgotten(t) \/ Discard(t)
      BY <1>1, <1>7, <3>3 DEF PreprocessForgotten, Discard
    <3> QED BY <3>1, <3>2, <3>3
  <2>2. c \in Due'
    <3>1. CASE Preprocess(t) \/ SlamCaller(t)
      <4>1. PICK pc \in AnswerPCs : Goto(t, pc)
        BY <3>1 DEF Preprocess, SlamCaller, AnswerPCs
      <4>2. thr'[t].call = c /\ thr'[t].pc \in AnswerPCs
        BY <1>1, <1>3, <4>1, GotoFacts DEF AnswerPCs
      <4> QED BY <1>4, <1>7, <4>2 DEF Due, Outstanding, AnswerPCs
    <3>2. CASE Deliver(t)
      <4>1. PICK b \in Boxes : b = callerbox[c]
        BY <1>1, <3>2, HandCall DEF Deliver, HolderPCs
      <4>2. answers' = [answers EXCEPT ![b] = Append(@, c)]
        BY <1>1, <3>2, <4>1 DEF Deliver
      <4>3. c \in Elements(answers'[b])
        BY <1>3, <4>2, PutAnswers
      <4> QED BY <1>4, <1>7, <4>3 DEF Due, Outstanding
    <3>3. CASE PreprocessForgotten(t) \/ Discard(t)
      BY <1>1, <1>7, <3>3 DEF PreprocessForgotten, Discard
    <3> QED BY <3>1, <3>2, <3>3
  <2> QED BY <1>5, <2>1, <2>2 DEF Due
<1> QED BY <1>6, <1>7

-----------------------------------------------------------------------------
(* The use of phones. *)

\* A free phone has no references; a connected one is in the list of its
\* answerbox; whoever refers to a phone refers to one that is not free, and the
\* phone in call->priv belongs to that call alone.
PhoneUse ==
    /\ \A p \in Phones : state[p] = "FREE" => phone_refs[p] = 0 /\ ~phone_cap[p]
    /\ \A p \in Phones : state[p] = "CONNECTED" /\ lock[p] = None => linked[p]
    /\ \A c \in AllCalls : caller_phone[c] # None => state[caller_phone[c]] # "FREE"
    /\ \A c \in AllCalls : priv[c] # None =>
          /\ state[priv[c]] # "FREE" /\ ~phone_cap[priv[c]]
          /\ \A d \in AllCalls : priv[d] = priv[c] => d = c
    /\ \A c \in AllCalls : Unused(c) => priv[c] = None
    /\ \A t \in Threads : thr[t].phone # None => state[thr[t].phone] # "FREE"

NatRefs == \A c \in AllCalls : call_refs[c] \in Nat

LEMMA RefsNat == IInv => NatRefs
<1> SUFFICES ASSUME IInv, NEW c \in AllCalls PROVE call_refs[c] \in Nat
  BY DEF NatRefs
<1>1. CallOK(c)
  BY DEF IInv, CallInv
<1>2. CallerRef(c) \in Nat /\ \A H : WakerRef(H) \in Nat
  BY DEF CallerRef, WakerRef
<1>3. \A t \in Threads : thr[t].ref \in Nat
  BY HandFacts
<1>4. Fresh(c) => call_refs[c] \in Nat
  BY DEF Fresh
<1>5. \A t \in Threads : Unsent(c, t) => call_refs[c] \in Nat
  BY DEF Unsent
<1>6. \A t \in Threads : Handled(c, t) => call_refs[c] \in Nat
  BY <1>2, <1>3 DEF Handled
<1>7. \A k \in Tasks : Queued(c, k) => call_refs[c] \in Nat
  BY <1>2 DEF Queued
<1>8. \A k \in Tasks : Open(c, k) => call_refs[c] \in Nat
  BY <1>2 DEF Open
<1>9. \A H \in OneOrNone : Answered(c, H) => call_refs[c] \in Nat
  BY <1>2 DEF Answered
<1>10. \A H \in OneOrNone : Done(c, H) => call_refs[c] \in Nat
  BY <1>2 DEF Done
<1> QED BY <1>1, <1>4, <1>5, <1>6, <1>7, <1>8, <1>9, <1>10 DEF CallOK

LEMMA RefsNext == IInv' => NatRefs'
BY RefsNat, PTL

\* A step of t that takes no free phone into use.
LEMMA UseKept ==
    ASSUME Types, Types', PhoneUse,
           NEW t \in Threads, \A u \in Threads : u # t => thr'[u] = thr[u],
           \A p \in Phones : state'[p] = "FREE" =>
              /\ state[p] = "FREE" /\ phone_refs'[p] = phone_refs[p]
              /\ phone_cap'[p] = phone_cap[p],
           \A p \in Phones : state'[p] = "CONNECTED" /\ lock'[p] = None => linked'[p],
           \A d \in AllCalls : \/ caller_phone'[d] = caller_phone[d]
                               \/ caller_phone'[d] \in Phones /\ state[caller_phone'[d]] # "FREE",
           \A d \in AllCalls : priv'[d] \in {priv[d], None},
           \A p \in Phones : phone_cap'[p] => phone_cap[p] \/ \A d \in AllCalls : priv'[d] # p,
           \A d \in AllCalls : Unused(d)' => Unused(d),
           \/ thr'[t].phone \in {thr[t].phone, None}
           \/ thr'[t].phone \in Phones /\ state[thr'[t].phone] # "FREE"
    PROVE  PhoneUse'
<1>1. \A p \in Phones : state'[p] = "FREE" => phone_refs'[p] = 0 /\ ~phone_cap'[p]
  BY DEF PhoneUse
<1>2. \A c \in AllCalls : caller_phone'[c] # None => state'[caller_phone'[c]] # "FREE"
  BY Nones DEF PhoneUse, Types
<1>3. ASSUME NEW c \in AllCalls, priv'[c] # None
      PROVE  /\ state'[priv'[c]] # "FREE" /\ ~phone_cap'[priv'[c]]
             /\ \A d \in AllCalls : priv'[d] = priv'[c] => d = c
  <2>1. priv'[c] = priv[c] /\ priv[c] \in Phones
    BY <1>3 DEF Types
  <2>2. state[priv[c]] # "FREE" /\ ~phone_cap[priv[c]] /\ \A d \in AllCalls : priv[d] = priv[c] => d = c
    BY <1>3, <2>1 DEF PhoneUse
  <2>3. \A d \in AllCalls : priv'[d] = priv'[c] => d = c
    BY <1>3, <2>1, <2>2
  <2> QED BY <2>1, <2>2, <2>3
<1>4. \A c \in AllCalls : Unused(c)' => priv'[c] = None
  BY DEF PhoneUse
<1>5. ASSUME NEW u \in Threads, thr'[u].phone # None PROVE state'[thr'[u].phone] # "FREE"
  <2>1. thr'[u].phone \in Phones
    BY <1>5 DEF Types, ThreadType
  <2>2. state[thr'[u].phone] # "FREE"
    <3>1. CASE u # t
      BY <1>5, <3>1 DEF PhoneUse
    <3>2. CASE u = t
      BY <1>5, <3>2 DEF PhoneUse
    <3> QED BY <3>1, <3>2
  <2> QED BY <2>1, <2>2
<1> QED BY <1>1, <1>2, <1>3, <1>4, <1>5 DEF PhoneUse

\* The invariant of the books, in the state and after a step of t.
Ledger(X) == IInv /\ Books(X) /\ PhoneUse

\* A step that changes no entry.
LEMMA NotPosted ==
    ASSUME NEW X, Ledger(X), IInv', NEW t \in Threads, \A u \in Threads : u # t => thr'[u] = thr[u],
           UNCHANGED <<state, lock, linked, phone_cap, phone_refs, caller_phone, callerbox,
                       priv, phone_active_calls, box_active_calls>>,
           \A d \in AllCalls : call_refs'[d] > 0 <=> call_refs[d] > 0,
           thr'[t].phone = thr[t].phone, Due' = Due
    PROVE  Books(X)' /\ PhoneUse'
<1>0. Types /\ Types' /\ PhoneUse /\ Books(X)
  BY DEF IInv, Ledger
<1>1. \A d \in AllCalls : Unposted(d)
  BY DEF Unposted
<1>2. \A p \in Phones : phone_refs'[p] + Own(p) + Hand(t, p) = phone_refs[p] + Own(p)' + Hand(t, p)'
  BY DEF Own, Hand
<1>3. Books(X)'
  BY <1>0, <1>1, <1>2, PostedPhone, ZenonT(60)
<1>4. \A d \in AllCalls : Unused(d)' => Unused(d)
  <2>1. \A d \in AllCalls : call_refs[d] \in Nat /\ call_refs'[d] \in Nat
    BY RefsNat, RefsNext DEF Ledger, NatRefs
  <2> QED BY <2>1 DEF Unused
<1>5. \A p \in Phones : state'[p] = "CONNECTED" /\ lock'[p] = None => linked'[p]
  BY <1>0 DEF PhoneUse
<1>6. PhoneUse'
  BY <1>0, <1>4, <1>5, UseKept
<1> QED BY <1>3, <1>6

-----------------------------------------------------------------------------
(* Steps that change no entry. *)

\* A thread that has no call and no sleep in ipc_call_sync() has no phone.
LEMMA NoPhoneHeld ==
    ASSUME IInv, NEW t \in Threads,
           thr[t].pc \notin PhonePCs \cup {"preprocess", "slam", "deliver", "wake"}
    PROVE  thr[t].phone = None
BY HandFacts DEF Shape, PhonePCs

LEMMA GotoBooks ==
    ASSUME NEW X, Ledger(X), IInv', NEW t \in Threads,
           \/ WaitForCall(t) \/ SendRefused(t) \/ Wakeup(t) \/ PublishFails(t) \/ ForwardFails(t)
           \/ SyncInterrupted(t) \/ SyncAnswered(t) \/ Leave(t) \/ Exit(t) \/ HangAllDone(t)
           \/ CleanupDone(t) \/ ForgetAllDone(t) \/ WaitAllDone(t) \/ WaitAll(t)
           \/ WaitAllNothing(t) \/ WaitAllRequest(t)
    PROVE  Books(X)' /\ PhoneUse'
<1>1. PICK pc \in PCs \ AnswerPCs : Goto(t, pc)
  BY DEF WaitForCall, SendRefused, Wakeup, PublishFails, ForwardFails, SyncInterrupted, SyncAnswered,
         Leave, Exit, HangAllDone, CleanupDone, ForgetAllDone, WaitAllDone, WaitAll, WaitAllNothing,
         WaitAllRequest, PCs, SyscallPCs, CleanupPCs, AnswerPCs
<1>2. /\ thr[t].pc \notin AnswerPCs
      /\ UNCHANGED <<state, lock, linked, phone_cap, phone_refs, caller_phone, callerbox,
                       priv, phone_active_calls, box_active_calls, call_refs>>
      /\ UNCHANGED <<forget, active_calls, answers>>
  BY DEF WaitForCall, SendRefused, Wakeup, PublishFails, ForwardFails, SyncInterrupted, SyncAnswered,
         Leave, Exit, HangAllDone, CleanupDone, ForgetAllDone, WaitAllDone, WaitAll, WaitAllNothing,
         WaitAllRequest, AnswerPCs, box, phone, call
<1>3. thr \in [Threads -> ThreadType]
  BY HandFacts DEF Ledger
<1>4. /\ \A u \in Threads : u # t => thr'[u] = thr[u]
      /\ thr'[t].pc \notin AnswerPCs /\ thr'[t].phone = thr[t].phone
  BY <1>1, <1>3, GotoFacts
<1>5. Due' = Due
  BY <1>2, <1>4, DueSame
<1> QED BY <1>2, <1>4, <1>5, NotPosted

LEMMA ReturnBooks ==
    ASSUME NEW X, Ledger(X), IInv', NEW t \in Threads, WaitFails(t) \/ DequeueNothing(t) \/ Publish(t)
    PROVE  Books(X)' /\ PhoneUse'
<1>1. /\ Return(t) /\ thr[t].pc \in {"wait", "dequeue", "publish"}
      /\ UNCHANGED <<state, lock, linked, phone_cap, phone_refs, caller_phone, callerbox,
                       priv, phone_active_calls, box_active_calls>>
      /\ UNCHANGED <<forget, active_calls, answers>>
  BY DEF WaitFails, DequeueNothing, Publish, box, phone, call
<1>2. IInv /\ thr \in [Threads -> ThreadType] /\ Shape(thr[t]) /\ thr[t].phone = None
  BY <1>1, HandFacts, NoPhoneHeld DEF Ledger, PhonePCs, SyncPCs
<1>3. /\ \A u \in Threads : u # t => thr'[u] = thr[u]
      /\ thr'[t].pc \notin AnswerPCs /\ thr'[t].phone = thr[t].phone /\ thr[t].pc \notin AnswerPCs
  BY <1>1, <1>2, ReturnFacts DEF AnswerPCs
<1>4. Due' = Due
  BY <1>1, <1>3, DueSame
<1>5. \A d \in AllCalls : call_refs'[d] > 0 <=> call_refs[d] > 0
  <2>1. CASE WaitFails(t) \/ DequeueNothing(t)
    BY <2>1 DEF WaitFails, DequeueNothing, call
  <2>2. CASE Publish(t)
    <3>1. PICK c \in AllCalls : c = thr[t].call
      BY <2>2, <1>2, HandFacts DEF Publish, HolderPCs
    <3>2. call_refs' = Add(call_refs, c, 1) /\ Handled(c, t)
      BY <1>2, <2>2, <3>1, HandCall DEF Publish
    <3>3. call_refs[c] \in Nat /\ call_refs[c] > 0 /\ call_refs \in [AllCalls -> Int]
      <4>1. CallerRef(c) \in Nat /\ thr[t].ref \in Nat
        BY <1>2, HandFacts DEF CallerRef
      <4> QED BY <1>2, <3>2, <4>1 DEF Handled, IInv, Types
    <3> QED BY <3>2, <3>3 DEF Add
  <2> QED BY <2>1, <2>2
<1> QED BY <1>1, <1>3, <1>4, <1>5, NotPosted

\* A thread takes up a call to answer it, or one it received.
LEMMA TakeUpBooks ==
    ASSUME NEW X, Ledger(X), IInv', NEW t \in Threads,
           \/ \E c \in AllCalls : \/ \E rv \in UserRetvals : Answer(t, c, rv)
                                  \/ ForwardRefused(t, c)
                                  \/ CleanupDispatched(t, c)
           \/ DequeueRequest(t) \/ CleanupCalls(t) \/ Poke(t)
    PROVE  Books(X)' /\ PhoneUse'
<1>0. IInv /\ Types /\ ListInv
  BY DEF Ledger, IInv
<1>1. /\ thr[t].pc \in {"user", "dispatched", "dequeue", "calls"}
      /\ UNCHANGED <<state, lock, linked, phone_cap, phone_refs, caller_phone, callerbox,
                       priv, phone_active_calls, box_active_calls, call_refs>>
      /\ UNCHANGED <<forget, active_calls, answers>>
  BY DEF Answer, ForwardRefused, CleanupDispatched, DequeueRequest, CleanupCalls, Poke, AnswerCall,
         box, phone, call
<1>2. thr[t].phone = None /\ thr[t].pc \notin AnswerPCs
  BY <1>0, <1>1, NoPhoneHeld DEF PhonePCs, SyncPCs, AnswerPCs
<1>3. /\ \A u \in Threads : u # t => thr'[u] = thr[u]
      /\ thr'[t].pc \notin AnswerPCs /\ thr'[t].phone = thr[t].phone
  <2>1. ASSUME NEW c \in AllCalls, (\E rv \in UserRetvals : Answer(t, c, rv)) \/ ForwardRefused(t, c)
        PROVE  <1>3!:
    BY <1>0, <1>2, <2>1, AnswerMove DEF AnswerPCs
  <2>2. ASSUME NEW c \in AllCalls, AnswerCall(t, c) PROVE <1>3!:
    BY <1>0, <2>2, AnswerCallMove DEF AnswerPCs
  <2>3. ASSUME NEW c \in AllCalls, CleanupDispatched(t, c) PROVE <1>3!:
    BY <2>2, <2>3 DEF CleanupDispatched
  <2>4. CASE CleanupCalls(t)
    <3>1. PICK k \in Tasks : k = TaskOf[t]
      BY Nones
    <3>2. calls[k] # <<>> /\ calls' = [calls EXCEPT ![k] = Tail(@)] /\ AnswerCall(t, Head(calls[k]))
      BY <2>4, <3>1 DEF CleanupCalls
    <3>3. Head(calls[k]) \in AllCalls
      BY <1>0, <3>2, TakeCalls
    <3> QED BY <2>2, <3>2, <3>3
  <2>5. CASE DequeueRequest(t)
    BY <1>0, <2>5, DequeueMove DEF AnswerPCs
  <2>6. CASE Poke(t)
    BY <1>2, <2>6 DEF Poke
  <2> QED BY <2>1, <2>3, <2>4, <2>5, <2>6
<1>4. Due' = Due
  BY <1>1, <1>2, <1>3, DueSame
<1> QED BY <1>1, <1>3, <1>4, NotPosted

LEMMA DeliverBooks ==
    ASSUME NEW X, Ledger(X), IInv', NEW t \in Threads, PreprocessForgotten(t) \/ Deliver(t) \/ SlamDone(t)
    PROVE  Books(X)' /\ PhoneUse'
<1>0. IInv /\ Types /\ thr \in [Threads -> ThreadType]
  BY DEF Ledger, IInv, Types
<1>1. /\ UNCHANGED <<state, lock, linked, phone_cap, phone_refs, caller_phone, callerbox,
                       priv, phone_active_calls, box_active_calls>>
  BY DEF PreprocessForgotten, Deliver, SlamDone, box, phone, call
<1>2. PICK pc \in PCs : Goto(t, pc) /\ (SlamDone(t) => pc = "calls")
  BY DEF PreprocessForgotten, Deliver, SlamDone, PCs, SyscallPCs, CleanupPCs
<1>3. /\ \A u \in Threads : u # t => thr'[u] = thr[u]
      /\ thr'[t].pc = pc /\ thr'[t].phone = thr[t].phone
  BY <1>0, <1>2, GotoFacts
<1>4. Due' = Due
  <2>1. CASE SlamDone(t)
    <3>1. UNCHANGED <<forget, active_calls, answers>> /\ thr[t].pc \notin AnswerPCs
          /\ thr'[t].pc \notin AnswerPCs
      BY <1>2, <1>3, <2>1 DEF SlamDone, AnswerPCs, box
    <3> QED BY <1>3, <3>1, DueSame
  <2> QED BY <1>0, <2>1, DueAnswering
<1>5. ASSUME NEW d \in AllCalls PROVE call_refs'[d] > 0 <=> call_refs[d] > 0
  <2>1. CASE SlamDone(t)
    <3>1. PICK k \in Tasks : k = TaskOf[t]
      BY Nones
    <3>2. call_refs'[d] = call_refs[d] - (IF call_cap[d] = k THEN 1 ELSE 0)
      BY <2>1, <3>1 DEF SlamDone
    <3>3. call_cap[d] = k => Open(d, k)
      BY <1>0, PublishedCall DEF IInv, CallInv
    <3>4. call_cap[d] = k => call_refs[d] >= 2 /\ call_refs[d] \in Int
      <4>1. CallerRef(d) \in Nat /\ k # None
        BY Nones DEF CallerRef
      <4> QED BY <3>3, <4>1 DEF Open
    <3>5. call_refs[d] \in Nat
      BY <1>0, RefsNat DEF NatRefs
    <3> QED BY <3>2, <3>4, <3>5
  <2>2. CASE PreprocessForgotten(t) \/ Deliver(t)
    BY <2>2 DEF PreprocessForgotten, Deliver, call
  <2> QED BY <2>1, <2>2
<1> QED BY <1>1, <1>3, <1>4, <1>5, NotPosted

-----------------------------------------------------------------------------
(* Steps that take or drop references to phones. *)

LEMMA AddVal ==
    ASSUME NEW S, NEW f \in [S -> Int], NEW q, NEW n \in Int
    PROVE  \A p \in S : Add(f, q, n)[p] = f[p] + (IF p = q THEN n ELSE 0)
BY DEF Add

LEMMA SubVal ==
    ASSUME NEW S, NEW f \in [S -> Int], NEW q
    PROVE  \A p \in S : Add(f, q, -1)[p] = f[p] - (IF p = q THEN 1 ELSE 0)
BY DEF Add

LEMMA PutVal ==
    ASSUME NEW f \in [Phones -> Int], NEW q
    PROVE  /\ Put(f, q) \in [Phones -> Int]
           /\ \A p \in Phones : Put(f, q)[p] = f[p] - (IF p = q THEN 1 ELSE 0)
BY PutType DEF Put, Add

\* A system call takes a reference to a phone of its task.
LEMMA TakePhoneBooks ==
    ASSUME NEW X, Ledger(X), IInv', NEW t \in Threads, NEW p \in Phones,
           \/ \E c \in Calls : CallAsync(t, p, c) \/ CallSync(t, p, c)
           \/ \E c \in AllCalls : Forward(t, c, p)
           \/ SysHangup(t, p) \/ HangAll(t, p)
    PROVE  Books(X)' /\ PhoneUse'
<1>0. Types /\ Types' /\ PhoneUse /\ Books(X) /\ IInv
  BY DEF IInv, Ledger
<1>1. /\ thr[t].pc \in {"user", "hang_all", "rehang"} /\ phone_cap[p]
      /\ UNCHANGED <<state, lock, linked, caller_phone, callerbox,
                     priv, phone_active_calls, box_active_calls>>
      /\ UNCHANGED <<forget, active_calls, answers>>
  BY DEF CallAsync, CallSync, Forward, SysHangup, HangAll, box, call
<1>2. thr[t].phone = None /\ thr[t].pc \notin AnswerPCs
  BY <1>0, <1>1, NoPhoneHeld DEF PhonePCs, SyncPCs, AnswerPCs
<1>3. /\ \A u \in Threads : u # t => thr'[u] = thr[u]
      /\ thr'[t].pc \notin AnswerPCs /\ thr'[t].phone = p
  <2>1. ASSUME NEW c \in Calls, CallAsync(t, p, c) \/ CallSync(t, p, c) PROVE <1>3!:
    BY <1>0, <2>1, CallAsyncMove DEF AnswerPCs
  <2>2. ASSUME NEW c \in AllCalls, Forward(t, c, p) PROVE <1>3!:
    BY <1>0, <2>2, ForwardMove DEF AnswerPCs
  <2>3. CASE SysHangup(t, p)
    BY <1>0, <2>3, SysHangupMove DEF AnswerPCs
  <2>4. CASE HangAll(t, p)
    BY <1>0, <2>4, HangAllMove DEF AnswerPCs
  <2> QED BY <2>1, <2>2, <2>3, <2>4
<1>4. Due' = Due
  BY <1>1, <1>2, <1>3, DueSame
<1>5. /\ \A d \in AllCalls : \/ call_refs'[d] = call_refs[d]
                             \/ caller_phone[d] = None /\ call_refs'[d] # 0
  <2>1. ASSUME NEW c \in Calls, CallAsync(t, p, c) \/ CallSync(t, p, c) PROVE <1>5!:
    <3>1. caller_phone[c] = None /\ (call_refs' = [call_refs EXCEPT ![c] = 1] \/ call_refs' = [call_refs EXCEPT ![c] = 2])
      BY <2>1 DEF CallAsync, CallSync, Unused
    <3>2. call_refs \in [AllCalls -> Int] /\ c \in AllCalls
      BY <1>0 DEF Types, AllCalls
    <3>3. CASE call_refs' = [call_refs EXCEPT ![c] = 1]
      BY <3>1, <3>2, <3>3
    <3>4. CASE call_refs' = [call_refs EXCEPT ![c] = 2]
      BY <3>1, <3>2, <3>4
    <3> QED BY <3>1, <3>3, <3>4
  <2>2. CASE (\E c \in AllCalls : Forward(t, c, p)) \/ SysHangup(t, p) \/ HangAll(t, p)
    BY <2>2 DEF Forward, SysHangup, HangAll, call
  <2> QED BY <2>1, <2>2
<1>6. \A d \in AllCalls : Unposted(d)
  BY <1>1, <1>4, <1>5 DEF Unposted
<1>7. \A d \in AllCalls : Unused(d)' => Unused(d)
  BY <1>1, <1>5 DEF Unused
<1>8. \/ phone_refs' = Add(phone_refs, p, 1) /\ phone_cap' = phone_cap
      \/ phone_refs' = phone_refs /\ phone_cap' = [phone_cap EXCEPT ![p] = FALSE]
  BY DEF CallAsync, CallSync, Forward, SysHangup, HangAll
<1>9. ASSUME NEW r \in Phones
      PROVE  /\ phone_refs'[r] + Own(r) + Hand(t, r) = phone_refs[r] + Own(r)' + Hand(t, r)'
             /\ r # p => phone_refs'[r] = phone_refs[r] /\ phone_cap'[r] = phone_cap[r]
             /\ phone_cap'[r] => phone_cap[r]
  <2>2. /\ phone_refs \in [Phones -> Int] /\ phone_cap \in [Phones -> BOOLEAN] /\ phone_refs[r] \in Int
        /\ 1 \in Int
    BY <1>0 DEF Types
  <2>3. Hand(t, r) = 0 /\ Hand(t, r)' = (IF r = p THEN 1 ELSE 0)
    BY <1>2, <1>3, Nones DEF Hand
  <2>4. CASE phone_refs' = Add(phone_refs, p, 1) /\ phone_cap' = phone_cap
    <3>1. phone_refs'[r] = phone_refs[r] + (IF r = p THEN 1 ELSE 0)
      BY <2>2, <2>4, AddVal
    <3>2. Own(r)' = Own(r) /\ Own(r) \in Int
      BY <1>1, <2>4 DEF Own
    <3> QED BY <2>2, <2>3, <2>4, <3>1, <3>2
  <2>5. CASE phone_refs' = phone_refs /\ phone_cap' = [phone_cap EXCEPT ![p] = FALSE]
    <3>1. Own(r) = Own(r)' + (IF r = p THEN 1 ELSE 0) /\ Own(r)' \in Int
      BY <1>1, <2>2, <2>5 DEF Own
    <3>2. phone_refs'[r] = phone_refs[r] /\ (r # p => phone_cap'[r] = phone_cap[r])
          /\ (phone_cap'[r] => phone_cap[r])
      BY <2>2, <2>5
    <3>3. phone_refs'[r] + Own(r) + Hand(t, r) = phone_refs[r] + Own(r)' + Hand(t, r)'
      BY <2>2, <2>3, <3>1, <3>2
    <3> QED BY <3>2, <3>3
  <2> QED BY <1>8, <2>4, <2>5
<1>10. state[p] # "FREE"
  BY <1>0, <1>1 DEF PhoneUse
<1>11. Books(X)'
  BY <1>0, <1>1, <1>3, <1>6, <1>9, PostedPhone, ZenonT(60)
<1>12. PhoneUse'
  <2>1. \A r \in Phones : state'[r] = "CONNECTED" /\ lock'[r] = None => linked'[r]
    BY <1>0, <1>1 DEF PhoneUse
  <2> QED BY <1>0, <1>1, <1>3, <1>7, <1>9, <1>10, <2>1, UseKept
<1> QED BY <1>11, <1>12

\* A step that puts phone q in a list, takes it off, or drops a reference to it.
LEMMA OnePhoneBooks ==
    ASSUME NEW X, Ledger(X), IInv', NEW t \in Threads, \A u \in Threads : u # t => thr'[u] = thr[u],
           UNCHANGED <<phone_cap, caller_phone, callerbox, priv, phone_active_calls,
                       box_active_calls, call_refs>>,
           Due' = Due, NEW q \in Phones,
           \A r \in Phones : r # q => /\ state'[r] = state[r] /\ lock'[r] = lock[r]
                                      /\ linked'[r] = linked[r] /\ phone_refs'[r] = phone_refs[r],
           state'[q] # "FREE", state'[q] = "CONNECTED" /\ lock'[q] = None => linked'[q],
           thr'[t].phone = thr[t].phone \/ (thr[t].phone = q /\ thr'[t].phone = None),
           phone_refs'[q] + (IF linked[q] THEN 1 ELSE 0) + Hand(t, q)
             = phone_refs[q] + (IF linked'[q] THEN 1 ELSE 0) + Hand(t, q)'
    PROVE  Books(X)' /\ PhoneUse'
<1>0. Types /\ Types' /\ PhoneUse /\ Books(X)
  BY DEF IInv, Ledger
<1>1. \A d \in AllCalls : Unposted(d)
  BY DEF Unposted
<1>2. ASSUME NEW r \in Phones
      PROVE  phone_refs'[r] + Own(r) + Hand(t, r) = phone_refs[r] + Own(r)' + Hand(t, r)'
  <2>1. CASE r # q
    <3>1. Hand(t, r)' = Hand(t, r) /\ Own(r)' = Own(r)
      BY <2>1, Nones DEF Hand, Own
    <3> QED BY <2>1, <3>1
  <2>2. CASE r = q
    <3>1. phone_refs[q] \in Int /\ phone_refs'[q] \in Int /\ Hand(t, q) \in Int /\ Hand(t, q)' \in Int
      BY <1>0 DEF Types, Hand
    <3>2. PICK a \in Int : a = (IF phone_cap[q] THEN 1 ELSE 0)
      OBVIOUS
    <3>3. PICK l \in Int : l = (IF linked[q] THEN 1 ELSE 0)
      OBVIOUS
    <3>4. PICK m \in Int : m = (IF linked'[q] THEN 1 ELSE 0)
      OBVIOUS
    <3>5. Own(q) = a + l /\ Own(q)' = a + m
      BY <3>2, <3>3, <3>4 DEF Own
    <3>6. phone_refs'[q] + l + Hand(t, q) = phone_refs[q] + m + Hand(t, q)'
      BY <3>3, <3>4
    <3>7. phone_refs'[q] + (a + l) + Hand(t, q) = phone_refs[q] + (a + m) + Hand(t, q)'
      BY <3>1, <3>6
    <3> QED BY <2>2, <3>5, <3>7
  <2> QED BY <2>1, <2>2
<1>3. Books(X)'
  BY <1>0, <1>1, <1>2, PostedPhone, ZenonT(60)
<1>4. \A d \in AllCalls : Unused(d)' => Unused(d)
  BY DEF Unused
<1>5. \A p \in Phones : state'[p] = "CONNECTED" /\ lock'[p] = None => linked'[p]
  BY <1>0 DEF PhoneUse
<1>6. PhoneUse'
  BY <1>0, <1>4, <1>5, UseKept
<1> QED BY <1>3, <1>6

\* The phone is taken off the list of its answerbox.
LEMMA UnlistBooks ==
    ASSUME NEW X, Ledger(X), IInv', NEW t \in Threads,
           NEW q \in Phones, state[q] = "CONNECTED", lock[q] = None,
           thr'[t].phone = thr[t].phone, \A u \in Threads : u # t => thr'[u] = thr[u],
           UNCHANGED <<phone_cap, caller_phone, callerbox, priv, phone_active_calls,
                       box_active_calls, call_refs>>,
           Due' = Due,
           linked' = [linked EXCEPT ![q] = FALSE], phone_refs' = Add(phone_refs, q, -1),
           \/ lock' = [lock EXCEPT ![q] = t] /\ state' = state
           \/ lock' = lock /\ state' = [state EXCEPT ![q] = "SLAMMED"]
    PROVE  Books(X)' /\ PhoneUse'
<1>1. linked[q] /\ Types
  BY DEF Ledger, PhoneUse, IInv
<1>2. /\ linked \in [Phones -> BOOLEAN] /\ lock \in [Phones -> Threads \cup {None}]
      /\ state \in [Phones -> PhoneStates] /\ phone_refs \in [Phones -> Int] /\ -1 \in Int
      /\ phone_refs[q] \in Int
  BY <1>1 DEF Types
<1>3. \A r \in Phones : phone_refs'[r] = phone_refs[r] + (IF r = q THEN -1 ELSE 0)
  BY <1>2, AddVal
<1>4. \A r \in Phones : r # q => /\ state'[r] = state[r] /\ lock'[r] = lock[r]
                                 /\ linked'[r] = linked[r] /\ phone_refs'[r] = phone_refs[r]
  BY <1>2, <1>3
<1>5. state'[q] # "FREE" /\ ~linked'[q] /\ ~(state'[q] = "CONNECTED" /\ lock'[q] = None)
  BY <1>2, Nones
<1>6. phone_refs'[q] + (IF linked[q] THEN 1 ELSE 0) + Hand(t, q)
         = phone_refs[q] + (IF linked'[q] THEN 1 ELSE 0) + Hand(t, q)'
  <2>1. Hand(t, q) \in Int /\ Hand(t, q)' = Hand(t, q)
    BY DEF Hand
  <2>2. phone_refs'[q] = phone_refs[q] - 1
    BY <1>2, <1>3
  <2> QED BY <1>1, <1>2, <1>5, <2>1, <2>2
<1> QED BY <1>4, <1>5, <1>6, OnePhoneBooks, ZenonT(60)

LEMMA HangupBooks ==
    ASSUME NEW X, Ledger(X), IInv', NEW t \in Threads, Unlist(t) \/ HangupSlammed(t)
    PROVE  Books(X)' /\ PhoneUse'
<1>0. IInv /\ Types /\ PhoneUse /\ thr \in [Threads -> ThreadType] /\ Shape(thr[t])
  BY HandFacts DEF Ledger, IInv
<1>1. /\ thr[t].pc = "hangup"
      /\ UNCHANGED <<phone_cap, caller_phone, callerbox, priv, phone_active_calls,
                       box_active_calls, call_refs>>
      /\ UNCHANGED <<forget, active_calls, answers>>
  BY DEF Unlist, HangupSlammed, box, call
<1>2. PICK q \in Phones : q = thr[t].phone
  BY <1>0, <1>1, HandFacts DEF PhonePCs
<1>3. PhoneOK(q) /\ state[q] # "FREE" /\ lock[q] = None
  BY <1>0, <1>2, LockFacts, Nones DEF PhoneUse, Unlist, HangupSlammed
<1>4. thr[t].pc \notin AnswerPCs
  BY <1>1 DEF AnswerPCs
<1>5. CASE Unlist(t)
  <2>1. /\ Goto(t, "hungup") /\ "hungup" \in PCs /\ state[q] = "CONNECTED"
        /\ linked' = [linked EXCEPT ![q] = FALSE] /\ phone_refs' = Add(phone_refs, q, -1)
        /\ lock' = [lock EXCEPT ![q] = t] /\ state' = state
    BY <1>2, <1>5 DEF Unlist, PCs, SyscallPCs
  <2>2. /\ \A u \in Threads : u # t => thr'[u] = thr[u]
        /\ thr'[t].pc \notin AnswerPCs /\ thr'[t].phone = thr[t].phone
    BY <1>0, <2>1, GotoFacts DEF AnswerPCs
  <2>3. Due' = Due
    BY <1>1, <1>4, <2>2, DueSame
  <2> QED BY <1>1, <1>3, <2>1, <2>2, <2>3, UnlistBooks, ZenonT(60)
<1>6. CASE HangupSlammed(t)
  <2>1. /\ Return(t) /\ state[q] # "CONNECTED"
        /\ state' = [state EXCEPT ![q] = IF @ = "SLAMMED" THEN "HUNGUP" ELSE @]
        /\ phone_refs' = Add(phone_refs, q, -1) /\ UNCHANGED <<linked, lock>>
    BY <1>2, <1>6 DEF HangupSlammed
  <2>2. /\ \A u \in Threads : u # t => thr'[u] = thr[u]
        /\ thr'[t].pc \notin AnswerPCs /\ thr'[t].phone = None
    BY <1>0, <2>1, ReturnFacts DEF AnswerPCs
  <2>3. Due' = Due
    BY <1>1, <1>4, <2>2, DueSame
  <2>4. /\ state \in [Phones -> PhoneStates] /\ phone_refs \in [Phones -> Int] /\ -1 \in Int
        /\ phone_refs[q] \in Int
    BY <1>0 DEF Types
  <2>5. \A r \in Phones : phone_refs'[r] = phone_refs[r] + (IF r = q THEN -1 ELSE 0)
    BY <2>1, <2>4, AddVal
  <2>6. \A r \in Phones : r # q => /\ state'[r] = state[r] /\ lock'[r] = lock[r]
                                   /\ linked'[r] = linked[r] /\ phone_refs'[r] = phone_refs[r]
    BY <2>1, <2>4, <2>5
  <2>7. state'[q] # "FREE" /\ state'[q] # "CONNECTED"
    BY <1>3, <2>1, <2>4
  <2>8. phone_refs'[q] + (IF linked[q] THEN 1 ELSE 0) + Hand(t, q)
         = phone_refs[q] + (IF linked'[q] THEN 1 ELSE 0) + Hand(t, q)'
    <3>1. Hand(t, q) = 1 /\ Hand(t, q)' = 0
      BY <1>2, <2>2, Nones DEF Hand
    <3>2. phone_refs'[q] = phone_refs[q] - 1 /\ linked'[q] = linked[q]
      BY <2>1, <2>4, <2>5
    <3> QED BY <2>4, <3>1, <3>2
  <2> QED BY <1>1, <1>2, <2>2, <2>3, <2>6, <2>7, <2>8, OnePhoneBooks, ZenonT(60)
<1> QED BY <1>5, <1>6

LEMMA SlamPhoneBooks ==
    ASSUME NEW X, Ledger(X), IInv', NEW t \in Threads, NEW q \in Phones, SlamPhone(t, q)
    PROVE  Books(X)' /\ PhoneUse'
<1>1. /\ thr[t].pc = "slam_all" /\ thr' = thr /\ linked[q] /\ lock[q] = None
      /\ UNCHANGED <<phone_cap, caller_phone, callerbox, priv, phone_active_calls,
                       box_active_calls, call_refs>>
      /\ UNCHANGED <<forget, active_calls, answers>>
      /\ linked' = [linked EXCEPT ![q] = FALSE] /\ phone_refs' = Add(phone_refs, q, -1)
      /\ lock' = lock /\ state' = [state EXCEPT ![q] = "SLAMMED"]
  BY DEF SlamPhone, box, call
<1>2. state[q] = "CONNECTED"
  BY <1>1, LockFacts DEF Ledger, PhoneOK
<1>3. thr[t].pc \notin AnswerPCs /\ thr'[t].pc \notin AnswerPCs
  BY <1>1 DEF AnswerPCs
<1>4. (\A u \in Threads : u # t => thr'[u] = thr[u]) /\ thr'[t].phone = thr[t].phone
  BY <1>1
<1>5. Due' = Due
  BY <1>1, <1>3, <1>4, DueSame
<1> QED BY <1>1, <1>2, <1>4, <1>5, UnlistBooks, ZenonT(60)

LEMMA SlamCallerBooks ==
    ASSUME NEW X, Ledger(X), IInv', NEW t \in Threads, SlamCaller(t)
    PROVE  Books(X)' /\ PhoneUse'
<1>0. IInv /\ Types /\ thr \in [Threads -> ThreadType] /\ "deliver" \in PCs
  BY DEF Ledger, IInv, Types, PCs, SyscallPCs
<1>1. /\ thr[t].pc = "slam" /\ Goto(t, "deliver")
      /\ UNCHANGED <<phone_cap, caller_phone, callerbox, priv, phone_active_calls,
                       box_active_calls, call_refs>>
      /\ lock' = lock
  BY DEF SlamCaller, box, call
<1>2. PICK q \in Phones : q = caller_phone[thr[t].call]
  BY <1>0, <1>1, HandCall DEF HolderPCs
<1>3. (\A u \in Threads : u # t => thr'[u] = thr[u]) /\ thr'[t].phone = thr[t].phone
  BY <1>0, <1>1, GotoFacts
<1>4. Due' = Due
  BY <1>0, DueAnswering
<1>5. lock[q] = None
  BY <1>2 DEF SlamCaller
<1>6. CASE state[q] = "CONNECTED"
  <2>1. /\ linked' = [linked EXCEPT ![q] = FALSE] /\ phone_refs' = Add(phone_refs, q, -1)
        /\ state' = [state EXCEPT ![q] = "SLAMMED"]
    BY <1>2, <1>6 DEF SlamCaller
  <2> QED BY <1>1, <1>3, <1>4, <1>5, <1>6, <2>1, UnlistBooks, ZenonT(60)
<1>7. CASE state[q] # "CONNECTED"
  <2>1. UNCHANGED <<state, linked, phone_refs>>
    BY <1>2, <1>7 DEF SlamCaller
  <2> QED BY <1>1, <1>3, <1>4, <2>1, NotPosted
<1> QED BY <1>6, <1>7

\* The new phone is connected: its answerbox lists it.
LEMMA PreprocessBooks ==
    ASSUME NEW X, Ledger(X), IInv', NEW t \in Threads, Preprocess(t)
    PROVE  Books(X)' /\ PhoneUse'
<1>0. IInv /\ Types /\ thr \in [Threads -> ThreadType] /\ {"slam", "deliver"} \subseteq PCs
  BY DEF Ledger, IInv, Types, PCs, SyscallPCs
<1>1. /\ UNCHANGED <<phone_cap, caller_phone, callerbox, priv, phone_active_calls,
                       box_active_calls, call_refs>>
      /\ lock' = lock
  BY DEF Preprocess, box
<1>2. PICK pc \in PCs : Goto(t, pc)
  BY <1>0 DEF Preprocess
<1>3. (\A u \in Threads : u # t => thr'[u] = thr[u]) /\ thr'[t].phone = thr[t].phone
  BY <1>0, <1>2, GotoFacts
<1>4. Due' = Due
  BY <1>0, DueAnswering
<1>5. CASE UNCHANGED <<state, linked, phone_refs>>
  BY <1>1, <1>3, <1>4, <1>5, NotPosted
<1>6. CASE ~UNCHANGED <<state, linked, phone_refs>>
  <2>1. thr[t].call \in AllCalls
    BY <1>0, HandFacts DEF Preprocess, HolderPCs
  <2>2. PICK q : q = priv[thr[t].call]
    OBVIOUS
  <2>3. /\ q # None /\ state[q] = "CONNECTING"
        /\ state' = [state EXCEPT ![q] = "CONNECTED"] /\ linked' = [linked EXCEPT ![q] = TRUE]
        /\ phone_refs' = Add(phone_refs, q, 1)
    BY <1>6, <2>2 DEF Preprocess
  <2>4. q \in Phones /\ phone_refs \in [Phones -> Int] /\ phone_refs[q] \in Int /\ 1 \in Int
        /\ state \in [Phones -> PhoneStates] /\ linked \in [Phones -> BOOLEAN]
    BY <1>0, <2>1, <2>2, <2>3 DEF Types
  <2>5. ~linked[q]
    BY <1>0, <2>3, <2>4, LockFacts DEF PhoneOK
  <2>6. \A r \in Phones : phone_refs'[r] = phone_refs[r] + (IF r = q THEN 1 ELSE 0)
    BY <2>3, <2>4, AddVal
  <2>7. \A r \in Phones : r # q => /\ state'[r] = state[r] /\ lock'[r] = lock[r]
                                   /\ linked'[r] = linked[r] /\ phone_refs'[r] = phone_refs[r]
    BY <1>1, <2>3, <2>4, <2>6
  <2>8. state'[q] = "CONNECTED" /\ linked'[q]
    BY <2>3, <2>4
  <2>9. phone_refs'[q] + (IF linked[q] THEN 1 ELSE 0) + Hand(t, q)
         = phone_refs[q] + (IF linked'[q] THEN 1 ELSE 0) + Hand(t, q)'
    <3>1. Hand(t, q) \in Int /\ Hand(t, q)' = Hand(t, q)
      BY <1>3 DEF Hand
    <3>2. phone_refs'[q] = phone_refs[q] + 1
      BY <2>4, <2>6
    <3> QED BY <2>4, <2>5, <2>8, <3>1, <3>2
  <2>10. state'[q] # "FREE" /\ (state'[q] = "CONNECTED" /\ lock'[q] = None => linked'[q])
    BY <2>8
  <2> QED BY <1>1, <1>3, <1>4, <2>4, <2>7, <2>9, <2>10, OnePhoneBooks, ZenonT(60)
<1> QED BY <1>5, <1>6

\* IPC_M_CONNECT_ME_TO takes a free phone into use.
LEMMA ConnectBooks ==
    ASSUME NEW X, Ledger(X), IInv', NEW t \in Threads, NEW p \in Phones, NEW c \in Calls, NEW q \in Phones,
           ConnectMeTo(t, p, c, q)
    PROVE  Books(X)' /\ PhoneUse'
<1>0. Types /\ Types' /\ PhoneUse /\ Books(X) /\ IInv /\ c \in AllCalls
  BY Nones DEF IInv, Ledger
<1>1. /\ thr[t].pc = "user" /\ phone_cap[p] /\ state[q] = "FREE" /\ Unused(c)
      /\ UNCHANGED <<lock, linked, phone_cap, caller_phone, callerbox,
                     phone_active_calls, box_active_calls>>
      /\ UNCHANGED <<forget, active_calls, answers>>
      /\ state' = [state EXCEPT ![q] = "CONNECTING"] /\ priv' = [priv EXCEPT ![c] = q]
      /\ call_refs' = [call_refs EXCEPT ![c] = 1, ![q] = 1]
      /\ phone_refs' = [phone_refs EXCEPT ![p] = @ + 1, ![q] = 1]
  BY DEF ConnectMeTo, box
<1>2. thr[t].phone = None /\ thr[t].pc \notin AnswerPCs
  BY <1>0, <1>1, NoPhoneHeld DEF PhonePCs, SyncPCs, AnswerPCs
<1>3. /\ \A u \in Threads : u # t => thr'[u] = thr[u]
      /\ thr'[t].pc \notin AnswerPCs /\ thr'[t].phone = p
  BY <1>0, CallAsyncMove DEF AnswerPCs
<1>4. Due' = Due
  BY <1>1, <1>2, <1>3, DueSame
<1>5. /\ p # q /\ priv[c] = None /\ phone_refs[q] = 0 /\ ~phone_cap[q] /\ state[p] # "FREE"
      /\ caller_phone[c] = None /\ caller_phone[q] = None /\ q \in AllCalls /\ q # c
  <2>1. PhoneOK(q)
    BY <1>0, LockFacts
  <2> QED BY <1>0, <1>1, <2>1, Nones DEF PhoneUse, PhoneOK, Unused
<1>6. \A d \in AllCalls : /\ d # c => priv'[d] = priv[d]
                          /\ d # c /\ d # q => call_refs'[d] = call_refs[d]
                          /\ priv'[c] = q /\ call_refs'[c] = 1 /\ call_refs'[q] = 1
  BY <1>0, <1>1, <1>5 DEF Types
<1>7. \A d \in AllCalls : d # c => Unposted(d)
  BY <1>1, <1>4, <1>5, <1>6 DEF Unposted
<1>8. \A r \in Phones : /\ phone_refs[r] \in Int
                        /\ phone_refs'[r] = phone_refs[r] + (IF r = p THEN 1 ELSE 0) + (IF r = q THEN 1 ELSE 0)
  BY <1>0, <1>1, <1>5 DEF Types
<1>9. ASSUME NEW r \in Phones
      PROVE  /\ phone_refs'[r] + Own(r) + Hand(t, r) + Entry(c, r)
                  = phone_refs[r] + Own(r)' + Hand(t, r)' + Entry(c, r)'
             /\ phone_active_calls'[r] + DueEntry(c, r) = phone_active_calls[r] + DueEntry(c, r)'
  <2>1. Own(r)' = Own(r) /\ Own(r) \in Int
    BY <1>1 DEF Own
  <2>2. Hand(t, r) = 0 /\ Hand(t, r)' = (IF r = p THEN 1 ELSE 0)
    BY <1>2, <1>3, Nones DEF Hand
  <2>3. Entry(c, r) = 0 /\ Entry(c, r)' = (IF r = q THEN 1 ELSE 0)
    BY <1>1, <1>5, <1>6, Nones DEF Entry
  <2>4. DueEntry(c, r)' = DueEntry(c, r)
    BY <1>1, <1>4 DEF DueEntry
  <2>5. phone_active_calls'[r] + DueEntry(c, r) = phone_active_calls[r] + DueEntry(c, r)'
    BY <1>1, <2>4
  <2>6. phone_refs'[r] + Own(r) + Hand(t, r) + Entry(c, r)
          = phone_refs[r] + Own(r)' + Hand(t, r)' + Entry(c, r)'
    BY <1>8, <2>1, <2>2, <2>3
  <2> QED BY <2>5, <2>6
<1>10. \A b \in Boxes : box_active_calls'[b] + BoxEntry(c, b) = box_active_calls[b] + BoxEntry(c, b)'
  BY <1>1, <1>4 DEF BoxEntry
<1>11. Books(X)'
  BY <1>0, <1>3, <1>7, <1>9, <1>10, Posted, ZenonT(60)
<1>12. PhoneUse'
  <2>1. \A r \in Phones : state'[r] = (IF r = q THEN "CONNECTING" ELSE state[r])
    BY <1>0, <1>1 DEF Types
  <2>2. ASSUME NEW r \in Phones, state'[r] = "FREE" PROVE phone_refs'[r] = 0 /\ ~phone_cap'[r]
    <3>1. state[r] = "FREE" /\ r # q /\ r # p
      BY <1>5, <2>1, <2>2
    <3>2. phone_refs[r] = 0 /\ ~phone_cap[r]
      BY <1>0, <3>1 DEF PhoneUse
    <3>3. phone_refs'[r] = 0
      BY <1>8, <3>1, <3>2
    <3> QED BY <1>1, <3>2, <3>3
  <2>3. \A r \in Phones : state'[r] = "CONNECTED" /\ lock'[r] = None => linked'[r]
    BY <1>0, <1>1, <2>1 DEF PhoneUse
  <2>4. \A d \in AllCalls : caller_phone'[d] # None => state'[caller_phone'[d]] # "FREE"
    BY <1>0, <1>1, <2>1 DEF PhoneUse, Types
  <2>5. \A d \in AllCalls : d # c /\ priv[d] # None => priv[d] \in Phones /\ priv[d] # q
    BY <1>0, <1>1 DEF PhoneUse, Types
  <2>6. \A d \in AllCalls : priv'[d] # None =>
          /\ state'[priv'[d]] # "FREE" /\ ~phone_cap'[priv'[d]]
          /\ \A e \in AllCalls : priv'[e] = priv'[d] => e = d
    <3>1. \A d \in AllCalls : priv'[d] = (IF d = c THEN q ELSE priv[d])
      BY <1>0, <1>1 DEF Types
    <3>2. \A d \in AllCalls : priv'[d] # None => state'[priv'[d]] # "FREE" /\ ~phone_cap'[priv'[d]]
      BY <1>0, <1>1, <1>5, <2>1, <2>5, <3>1 DEF PhoneUse
    <3>3. \A d \in AllCalls, e \in AllCalls : priv'[d] # None /\ priv'[e] = priv'[d] => e = d
      BY <1>0, <2>5, <3>1 DEF PhoneUse
    <3> QED BY <3>2, <3>3
  <2>7. \A d \in AllCalls : Unused(d)' => priv'[d] = None
    BY <1>0, <1>1, <1>5, <1>6 DEF Unused, PhoneUse
  <2>8. \A u \in Threads : thr'[u].phone # None => state'[thr'[u].phone] # "FREE"
    <3>1. \A u \in Threads : thr[u].phone # None => thr[u].phone \in Phones
      BY <1>0, HandFacts
    <3> QED BY <1>0, <1>3, <1>5, <2>1, <3>1 DEF PhoneUse
  <2> QED BY <2>2, <2>3, <2>4, <2>6, <2>7, <2>8 DEF PhoneUse
<1> QED BY <1>11, <1>12

-----------------------------------------------------------------------------
(* Steps that send a call. *)

\* Call c is sent through p, or refused, and its answer is to come to box b.
LEMMA SentBooks ==
    ASSUME NEW X, Ledger(X), IInv', NEW t \in Threads, \A u \in Threads : u # t => thr'[u] = thr[u],
           NEW p \in Phones, thr[t].phone = p,
           NEW c \in AllCalls, caller_phone[c] = None, call_refs[c] > 0, c \notin Due, c \in Due',
           \A d \in AllCalls : d # c => (d \in Due' <=> d \in Due),
           NEW b \in Boxes, NEW n \in {0, 1}, CallActions(p, c, b, n),
           thr'[t].phone = IF n = 1 THEN None ELSE p,
           UNCHANGED <<linked, phone_cap, priv, call_refs>>,
           box_active_calls' = Add(box_active_calls, b, 1),
           \A r \in Phones : state'[r] = "FREE" => state[r] = "FREE",
           \A r \in Phones : state'[r] = "CONNECTED" /\ lock'[r] = None => linked'[r]
    PROVE  Books(X)' /\ PhoneUse'
<1>0. Types /\ Types' /\ PhoneUse /\ Books(X) /\ IInv
  BY DEF IInv, Ledger
<1>1. /\ caller_phone' = [caller_phone EXCEPT ![c] = p] /\ callerbox' = [callerbox EXCEPT ![c] = b]
      /\ phone_active_calls' = Add(phone_active_calls, p, 1)
      /\ phone_refs' = Add(phone_refs, p, 2 - n)
  BY DEF CallActions
<1>2. /\ phone_refs \in [Phones -> Int] /\ phone_active_calls \in [Phones -> Int]
      /\ box_active_calls \in [Boxes -> Int] /\ 1 \in Int /\ 2 - n \in Int
  BY <1>0 DEF Types
<1>3. \A r \in Phones : phone_refs'[r] = phone_refs[r] + (IF r = p THEN 2 - n ELSE 0)
  BY <1>1, <1>2, AddVal
<1>4. \A r \in Phones : phone_active_calls'[r] = phone_active_calls[r] + (IF r = p THEN 1 ELSE 0)
  BY <1>1, <1>2, AddVal
<1>5. \A a \in Boxes : box_active_calls'[a] = box_active_calls[a] + (IF a = b THEN 1 ELSE 0)
  BY <1>2, AddVal
<1>6. /\ caller_phone'[c] = p /\ callerbox'[c] = b
      /\ \A d \in AllCalls : d # c => caller_phone'[d] = caller_phone[d] /\ callerbox'[d] = callerbox[d]
  BY <1>0, <1>1 DEF Types
<1>7. \A d \in AllCalls : d # c => Unposted(d)
  BY <1>6 DEF Unposted
<1>8. ASSUME NEW r \in Phones
      PROVE  phone_refs'[r] + Own(r) + Hand(t, r) + Entry(c, r)
                  = phone_refs[r] + Own(r)' + Hand(t, r)' + Entry(c, r)'
  <2>1. Own(r)' = Own(r) /\ Own(r) \in Int
    BY DEF Own
  <2>2. Hand(t, r) = (IF r = p THEN 1 ELSE 0) /\ Hand(t, r)' = (IF r = p THEN 1 - n ELSE 0)
    BY Nones DEF Hand
  <2>3. PICK v \in {0, 1} : v = (IF priv[c] = r THEN 1 ELSE 0)
    OBVIOUS
  <2>4. Entry(c, r) = v
    BY <2>3, Nones DEF Entry
  <2>5. Entry(c, r)' = v + (IF r = p THEN 2 ELSE 0)
    BY <1>6, <2>3 DEF Entry
  <2>6. phone_refs[r] \in Int
    BY <1>2
  <2> QED BY <1>3, <2>1, <2>2, <2>4, <2>5, <2>6
<1>9. ASSUME NEW r \in Phones
      PROVE  phone_active_calls'[r] + DueEntry(c, r) = phone_active_calls[r] + DueEntry(c, r)'
  <2>1. DueEntry(c, r) = 0 /\ DueEntry(c, r)' = (IF r = p THEN 1 ELSE 0) /\ phone_active_calls[r] \in Int
    BY <1>2, <1>6 DEF DueEntry
  <2> QED BY <1>4, <2>1
<1>10. ASSUME NEW a \in Boxes
       PROVE  box_active_calls'[a] + BoxEntry(c, a) = box_active_calls[a] + BoxEntry(c, a)'
  <2>1. BoxEntry(c, a) = 0 /\ BoxEntry(c, a)' = (IF a = b THEN 1 ELSE 0) /\ box_active_calls[a] \in Int
    BY <1>2, <1>6 DEF BoxEntry
  <2> QED BY <1>5, <2>1
<1>11. Books(X)'
  BY <1>0, <1>7, <1>8, <1>9, <1>10, Posted, ZenonT(60)
<1>12. state[p] # "FREE"
  BY <1>0, Nones DEF PhoneUse
<1>13. \A r \in Phones : state'[r] = "FREE" => phone_refs'[r] = phone_refs[r]
  BY <1>2, <1>3, <1>12
<1>14. \A d \in AllCalls : Unused(d)' => Unused(d)
  BY <1>6, Nones DEF Unused
<1>15. \A d \in AllCalls : caller_phone'[d] = caller_phone[d] \/ (caller_phone'[d] \in Phones /\ state[caller_phone'[d]] # "FREE")
  BY <1>6, <1>12
<1>16. thr'[t].phone \in {thr[t].phone, None}
  OBVIOUS
<1>17. PhoneUse'
  BY <1>0, <1>13, <1>14, <1>15, <1>16, UseKept
<1> QED BY <1>11, <1>17

LEMMA SendBooks ==
    ASSUME NEW X, Ledger(X), IInv', NEW t \in Threads, Send(t)
    PROVE  Books(X)' /\ PhoneUse'
<1>0. IInv /\ Types /\ PhoneUse /\ thr \in [Threads -> ThreadType] /\ Shape(thr[t]) /\ thr[t].pc = "call"
  BY HandFacts DEF Ledger, IInv, Send
<1>1. PICK p \in Phones, c \in AllCalls : p = thr[t].phone /\ c = thr[t].call
  BY <1>0, HandFacts DEF HolderPCs, PhonePCs
<1>2. PICK k \in Tasks : k = TaskOf[t]
  BY Nones
<1>3. PICK b \in Boxes : b = ReplyBox(t, c)
  BY <1>2, Nones DEF ReplyBox
<1>4. PICK n \in {0, 1} : n = IF c \in SyncCalls THEN 0 ELSE 1
  OBVIOUS
<1>5. /\ CallActions(p, c, b, n) /\ box_active_calls' = Add(box_active_calls, b, 1)
      /\ active_calls' = [active_calls EXCEPT ![k] = @ \cup {c}]
      /\ UNCHANGED <<linked, phone_cap, priv, call_refs>>
      /\ UNCHANGED <<forget, answers, state, lock>>
  BY <1>1, <1>2, <1>3, <1>4 DEF Send
<1>6. (c \in SyncCalls => Goto(t, "sync")) /\ (c \notin SyncCalls => Return(t)) /\ "sync" \in PCs
  BY <1>1 DEF Send, PCs, SyscallPCs
<1>7. /\ \A u \in Threads : u # t => thr'[u] = thr[u]
      /\ thr'[t].pc \notin AnswerPCs /\ thr[t].pc \notin AnswerPCs
      /\ thr'[t].phone = IF n = 1 THEN None ELSE p
  <2>1. CASE c \in SyncCalls
    BY <1>0, <1>1, <1>4, <1>6, <2>1, GotoFacts DEF AnswerPCs
  <2>2. CASE c \notin SyncCalls
    BY <1>0, <1>1, <1>4, <1>6, <2>2, ReturnFacts DEF AnswerPCs
  <2> QED BY <2>1, <2>2
<1>8. Unsent(c, t)
  BY <1>0, <1>1, HandCall
<1>9. caller_phone[c] = None /\ call_refs[c] > 0 /\ c \notin Due /\ ~forget[c]
  BY <1>8, NotDue DEF Unsent, NotSent
<1>10. c \in Due' /\ \A d \in AllCalls : d # c => (d \in Due' <=> d \in Due)
  BY <1>0, <1>5, <1>7, <1>9, DueAdded
<1>11. /\ \A r \in Phones : state'[r] = "FREE" => state[r] = "FREE"
       /\ \A r \in Phones : state'[r] = "CONNECTED" /\ lock'[r] = None => linked'[r]
  BY <1>0, <1>5 DEF PhoneUse
<1>12. thr[t].phone = p
  BY <1>1
<1> QED BY <1>5, <1>7, <1>9, <1>10, <1>11, <1>12, SentBooks, ZenonT(60)

LEMMA BacksendBooks ==
    ASSUME NEW X, Ledger(X), IInv', NEW t \in Threads, Backsend(t)
    PROVE  Books(X)' /\ PhoneUse'
<1>0. IInv /\ Types /\ PhoneUse /\ thr \in [Threads -> ThreadType] /\ Shape(thr[t]) /\ thr[t].pc = "backsend"
  BY HandFacts DEF Ledger, IInv, Backsend
<1>1. PICK p \in Phones, c \in AllCalls : p = thr[t].phone /\ c = thr[t].call
  BY <1>0, HandFacts DEF HolderPCs, PhonePCs
<1>2. PICK k \in Tasks : k = TaskOf[t] /\ k \in Boxes
  BY Nones
<1>5. /\ CallActions(p, c, k, 1) /\ box_active_calls' = Add(box_active_calls, k, 1)
      /\ answers' = [answers EXCEPT ![k] = Append(@, c)]
      /\ UNCHANGED <<linked, phone_cap, priv, call_refs>>
      /\ UNCHANGED <<forget, active_calls, state, lock>>
      /\ Return(t)
  BY <1>1, <1>2 DEF Backsend
<1>7. /\ \A u \in Threads : u # t => thr'[u] = thr[u]
      /\ thr'[t].pc \notin AnswerPCs /\ thr[t].pc \notin AnswerPCs
      /\ thr'[t].phone = None
  BY <1>0, <1>5, ReturnFacts DEF AnswerPCs
<1>8. Unsent(c, t)
  BY <1>0, <1>1, HandCall
<1>9. caller_phone[c] = None /\ call_refs[c] > 0 /\ c \notin Due /\ ~forget[c]
  BY <1>8, NotDue DEF Unsent, NotSent
<1>10. c \in Due' /\ \A d \in AllCalls : d # c => (d \in Due' <=> d \in Due)
  BY <1>0, <1>5, <1>7, <1>9, DueAdded
<1>11. /\ \A r \in Phones : state'[r] = "FREE" => state[r] = "FREE"
       /\ \A r \in Phones : state'[r] = "CONNECTED" /\ lock'[r] = None => linked'[r]
  BY <1>0, <1>5 DEF PhoneUse
<1>12. thr[t].phone = p /\ 1 \in {0, 1} /\ thr'[t].phone = IF 1 = 1 THEN None ELSE p
  BY <1>1, <1>7
<1> QED BY <1>2, <1>5, <1>7, <1>9, <1>10, <1>11, <1>12, SentBooks, ZenonT(60)

LEMMA SendHungupBooks ==
    ASSUME NEW X, Ledger(X), IInv', NEW t \in Threads, SendHungup(t)
    PROVE  Books(X)' /\ PhoneUse'
<1>0. IInv /\ Types /\ PhoneUse /\ thr \in [Threads -> ThreadType] /\ Shape(thr[t]) /\ thr[t].pc = "hungup"
  BY HandFacts DEF Ledger, IInv, SendHungup
<1>1. PICK p \in Phones : p = thr[t].phone /\ p \in AllCalls
  BY <1>0, HandFacts, Nones DEF PhonePCs
<1>2. PICK k \in Tasks : k = TaskOf[t] /\ k \in Boxes
  BY Nones
<1>5. /\ CallActions(p, p, k, 1) /\ box_active_calls' = Add(box_active_calls, k, 1)
      /\ active_calls' = [active_calls EXCEPT ![k] = @ \cup {p}]
      /\ UNCHANGED <<linked, phone_cap, priv, call_refs>>
      /\ UNCHANGED <<forget, answers>>
      /\ state' = [state EXCEPT ![p] = "HUNGUP"] /\ lock' = [lock EXCEPT ![p] = None]
      /\ Return(t)
  BY <1>1, <1>2 DEF SendHungup
<1>7. /\ \A u \in Threads : u # t => thr'[u] = thr[u]
      /\ thr'[t].pc \notin AnswerPCs /\ thr[t].pc \notin AnswerPCs
      /\ thr'[t].phone = None
  BY <1>0, <1>5, ReturnFacts DEF AnswerPCs
<1>8. hangup_call[p] /\ PhoneOK(p)
  BY <1>0, <1>1, HandPhone DEF PhonePCs
<1>9. Fresh(p) /\ caller_phone[p] = None
  <2>1. CallOK(p) /\ caller_phone[p] = None
    BY <1>0, <1>1, <1>8 DEF IInv, CallInv, PhoneOK
  <2>2. \A u \in Threads : ~Unsent(p, u)
    BY Nones DEF Unsent
  <2> QED BY <1>1, <2>1, <2>2, UnsentCall
<1>10. call_refs[p] > 0 /\ p \notin Due /\ ~forget[p]
  BY <1>1, <1>8, <1>9, NotDue DEF Fresh
<1>11. p \in Due' /\ \A d \in AllCalls : d # p => (d \in Due' <=> d \in Due)
  BY <1>0, <1>1, <1>5, <1>7, <1>10, DueAdded
<1>12. /\ \A r \in Phones : state'[r] = "FREE" => state[r] = "FREE"
       /\ \A r \in Phones : state'[r] = "CONNECTED" /\ lock'[r] = None => linked'[r]
  <2>1. state \in [Phones -> PhoneStates] /\ lock \in [Phones -> Threads \cup {None}]
    BY <1>0 DEF Types
  <2>2. \A r \in Phones : /\ r # p => state'[r] = state[r] /\ lock'[r] = lock[r]
                          /\ state'[p] = "HUNGUP"
    BY <1>5, <2>1
  <2> QED BY <1>0, <1>5, <2>2 DEF PhoneUse
<1>13. thr[t].phone = p /\ 1 \in {0, 1} /\ thr'[t].phone = IF 1 = 1 THEN None ELSE p
  BY <1>1, <1>7
<1> QED BY <1>1, <1>2, <1>5, <1>7, <1>9, <1>10, <1>11, <1>12, <1>13, SentBooks, ZenonT(60)

-----------------------------------------------------------------------------
(* Steps that release a call. *)

\* Thread t is done with call c and drops, at the same time, its own phone; the
\* phone a of the call if the call no longer waits for an answer; the phone e in
\* call->priv, which otherwise becomes a capability; the phone g if this was
\* the last reference to the call.
Released(t, c, x, a, e, g, X) ==
    /\ \A u \in Threads : u # t => thr'[u] = thr[u]
    /\ thr'[t].phone = None
    /\ caller_phone[c] = x /\ call_refs[c] > 0
    /\ \A d \in AllCalls : d # c => (d \in Due' <=> d \in Due)
    /\ \A d \in AllCalls : d # c => priv'[d] = priv[d] /\ call_refs'[d] = call_refs[d]
    /\ UNCHANGED <<state, lock, linked, caller_phone, callerbox>>
    /\ a = x => c \in Due /\ c \notin Due'
    /\ a = None => (c \in Due' <=> c \in Due)
    /\ \/ priv'[c] = priv[c] /\ e = None /\ phone_cap' = phone_cap
       \/ priv'[c] = None /\ e = priv[c] /\ phone_cap' = phone_cap
       \/ /\ priv'[c] = None /\ e = None
          /\ phone_cap' = [r \in Phones |-> phone_cap[r] \/ r = priv[c]]
    /\ g = x <=> ~(call_refs'[c] > 0)
    /\ \A r \in Phones : phone_refs'[r] =
          phone_refs[r] - (IF r = a THEN 1 ELSE 0) - (IF r = thr[t].phone THEN 1 ELSE 0)
                        - (IF r = e THEN 1 ELSE 0) - (IF r = g THEN 1 ELSE 0)
    /\ \A r \in Phones : phone_active_calls'[r] = phone_active_calls[r] - (IF r = a THEN 1 ELSE 0)
    /\ "forgotten" \notin X => \A b \in Boxes : box_active_calls'[b] =
          box_active_calls[b] - (IF a = x /\ b = callerbox[c] THEN 1 ELSE 0)

LEMMA ReleaseBooks ==
    ASSUME NEW X, Ledger(X), IInv', NEW t \in Threads, NEW c \in AllCalls, NEW x \in Phones,
           NEW a \in {x, None}, NEW e \in Phones \cup {None}, NEW g \in {x, None},
           Released(t, c, x, a, e, g, X)
    PROVE  Books(X)' /\ PhoneUse'
<1> USE DEF Released
<1>0. Types /\ Types' /\ PhoneUse /\ Books(X) /\ IInv /\ x # None
  BY Nones DEF IInv, Ledger
<1>1. \A d \in AllCalls : d # c => Unposted(d)
  BY DEF Unposted
<1>2. PICK v \in Phones \cup {None} : v = priv[c]
  BY <1>0 DEF Types
<1>3. ASSUME NEW r \in Phones
      PROVE  phone_refs'[r] + Own(r) + Hand(t, r) + Entry(c, r)
                  = phone_refs[r] + Own(r)' + Hand(t, r)' + Entry(c, r)'
  <2>1. phone_refs[r] \in Int /\ r # None
    BY <1>0, <1>3, Nones DEF Types
  <2>2. Hand(t, r) = (IF r = thr[t].phone THEN 1 ELSE 0) /\ Hand(t, r)' = 0
    BY <2>1 DEF Hand
  <2>3. PICK ad \in {0, 1} : ad = IF r = a THEN 1 ELSE 0
    OBVIOUS
  <2>4. PICK hd \in {0, 1} : hd = IF r = thr[t].phone THEN 1 ELSE 0
    OBVIOUS
  <2>5. PICK ed \in {0, 1} : ed = IF r = e THEN 1 ELSE 0
    OBVIOUS
  <2>6. PICK gd \in {0, 1} : gd = IF r = g THEN 1 ELSE 0
    OBVIOUS
  <2>7. PICK du \in {0, 1} : du = IF caller_phone[c] = r /\ c \in Due THEN 1 ELSE 0
    OBVIOUS
  <2>8. PICK vd \in {0, 1} : vd = IF v = r THEN 1 ELSE 0
    OBVIOUS
  <2>9. PICK wd \in {0, 1} : wd = IF priv'[c] = r THEN 1 ELSE 0
    OBVIOUS
  <2>10. (IF caller_phone[c] = r /\ call_refs[c] > 0 THEN 1 ELSE 0) =
         (IF caller_phone'[c] = r /\ call_refs'[c] > 0 THEN 1 ELSE 0) + gd
    BY <1>0, <2>1, <2>6
  <2>11. du = (IF caller_phone'[c] = r /\ c \in Due' THEN 1 ELSE 0) + ad
    BY <1>0, <2>1, <2>3, <2>7
  <2>12. PICK md \in {0, 1} : md = IF caller_phone'[c] = r /\ call_refs'[c] > 0 THEN 1 ELSE 0
    OBVIOUS
  <2>13. PICK dd \in {0, 1} : dd = IF caller_phone'[c] = r /\ c \in Due' THEN 1 ELSE 0
    OBVIOUS
  <2>14. Entry(c, r) = md + gd + dd + ad + vd
    BY <1>2, <2>7, <2>8, <2>10, <2>11, <2>12, <2>13 DEF Entry
  <2>15. Entry(c, r)' = md + dd + wd
    BY <2>9, <2>12, <2>13 DEF Entry
  <2>16. Own(r)' + wd = Own(r) + vd - ed /\ Own(r) \in Int /\ Own(r)' \in Int
    <3>1. PICK ld \in {0, 1} : ld = IF linked[r] THEN 1 ELSE 0
      OBVIOUS
    <3>2. PICK cd \in {0, 1} : cd = IF phone_cap[r] THEN 1 ELSE 0
      OBVIOUS
    <3>3. PICK nd \in {0, 1} : nd = IF phone_cap'[r] THEN 1 ELSE 0
      OBVIOUS
    <3>4. Own(r) = cd + ld /\ Own(r)' = nd + ld
      BY <3>1, <3>2, <3>3 DEF Own
    <3>5. CASE priv'[c] = priv[c] /\ e = None /\ phone_cap' = phone_cap
      BY <1>2, <2>1, <2>5, <2>8, <2>9, <3>2, <3>3, <3>4, <3>5
    <3>6. CASE priv'[c] = None /\ e = priv[c] /\ phone_cap' = phone_cap
      BY <1>2, <2>1, <2>5, <2>8, <2>9, <3>2, <3>3, <3>4, <3>6
    <3>7. CASE /\ priv'[c] = None /\ e = None
               /\ phone_cap' = [s \in Phones |-> phone_cap[s] \/ s = priv[c]]
      <4>1. ed = 0 /\ wd = 0
        BY <2>1, <2>5, <2>9, <3>7
      <4>2. v = r => cd = 0 /\ nd = 1 /\ vd = 1
        BY <1>0, <1>2, <2>1, <2>8, <3>2, <3>3, <3>7 DEF PhoneUse
      <4>3. v # r => cd = nd /\ vd = 0
        BY <1>0, <1>2, <2>8, <3>2, <3>3, <3>7 DEF Types
      <4> QED BY <3>4, <4>1, <4>2, <4>3
    <3> QED BY <3>5, <3>6, <3>7
  <2>17. phone_refs'[r] = phone_refs[r] - ad - hd - ed - gd
    BY <2>3, <2>4, <2>5, <2>6
  <2>18. Hand(t, r) = hd /\ Hand(t, r)' = 0
    BY <2>2, <2>4
  <2>19. PICK o \in Int, n \in Int, f \in Int : o = Own(r) /\ n = Own(r)' /\ f = phone_refs[r]
    BY <2>1, <2>16
  <2>20. n + wd = o + vd - ed
    BY <2>16, <2>19
  <2>21. (f - ad - hd - ed - gd) + o + hd + (md + gd + dd + ad + vd) = f + n + 0 + (md + dd + wd)
    BY <2>20
  <2> QED BY <2>14, <2>15, <2>17, <2>18, <2>19, <2>21
<1>4. ASSUME NEW r \in Phones
      PROVE  phone_active_calls'[r] + DueEntry(c, r) = phone_active_calls[r] + DueEntry(c, r)'
  <2>1. phone_active_calls[r] \in Int /\ r # None
    BY <1>0, <1>4, Nones DEF Types
  <2>2. PICK ad \in {0, 1} : ad = IF r = a THEN 1 ELSE 0
    OBVIOUS
  <2>3. PICK dd \in {0, 1} : dd = DueEntry(c, r)'
    BY DEF DueEntry
  <2>4. DueEntry(c, r) = dd + ad
    BY <1>0, <2>1, <2>2, <2>3 DEF DueEntry
  <2>5. phone_active_calls'[r] = phone_active_calls[r] - ad
    BY <2>2
  <2> QED BY <2>1, <2>3, <2>4, <2>5
<1>5. ASSUME "forgotten" \notin X, NEW b \in Boxes
      PROVE  box_active_calls'[b] + BoxEntry(c, b) = box_active_calls[b] + BoxEntry(c, b)'
  <2>1. box_active_calls[b] \in Int
    BY <1>0 DEF Types
  <2>2. PICK ad \in {0, 1} : ad = IF a = x /\ b = callerbox[c] THEN 1 ELSE 0
    OBVIOUS
  <2>3. PICK dd \in {0, 1} : dd = BoxEntry(c, b)'
    BY DEF BoxEntry
  <2>4. BoxEntry(c, b) = dd + ad
    BY <1>0, <2>2, <2>3 DEF BoxEntry
  <2>5. box_active_calls'[b] = box_active_calls[b] - ad
    BY <1>5, <2>2
  <2> QED BY <2>1, <2>3, <2>4, <2>5
<1>6. Books(X)'
  BY <1>0, <1>1, <1>3, <1>4, <1>5, Posted, ZenonT(60)
<1>7. \A r \in Phones : state'[r] = "FREE" => /\ state[r] = "FREE" /\ phone_refs'[r] = phone_refs[r]
                                              /\ phone_cap'[r] = phone_cap[r]
  <2> SUFFICES ASSUME NEW r \in Phones, state[r] = "FREE"
               PROVE  phone_refs'[r] = phone_refs[r] /\ phone_cap'[r] = phone_cap[r]
    OBVIOUS
  <2>1. r # x /\ r # None /\ r # thr[t].phone /\ r # v /\ phone_refs[r] \in Int
    <3>1. r # None /\ phone_refs[r] \in Int
      BY <1>0, Nones DEF Types
    <3>2. r # x /\ r # v
      BY <1>0, <1>2, <3>1 DEF PhoneUse
    <3>3. r # thr[t].phone
      BY <1>0, <3>1 DEF PhoneUse
    <3> QED BY <3>1, <3>2, <3>3
  <2>2. r # a /\ r # e /\ r # g
    BY <1>2, <2>1
  <2>3. phone_refs'[r] = phone_refs[r]
    BY <2>1, <2>2
  <2>4. phone_cap'[r] = phone_cap[r]
    <3>1. CASE phone_cap' = [s \in Phones |-> phone_cap[s] \/ s = priv[c]]
      <4>1. phone_cap[r] \in BOOLEAN /\ phone_cap'[r] \in BOOLEAN
        BY <1>0 DEF Types
      <4>2. phone_cap'[r] <=> phone_cap[r]
        BY <1>2, <2>1, <3>1
      <4> QED BY <4>1, <4>2
    <3> QED BY <3>1
  <2> QED BY <2>3, <2>4
<1>8. \A r \in Phones : state'[r] = "CONNECTED" /\ lock'[r] = None => linked'[r]
  BY <1>0 DEF PhoneUse
<1>9. \A d \in AllCalls : priv'[d] \in {priv[d], None}
  OBVIOUS
<1>10. \A r \in Phones : phone_cap'[r] => phone_cap[r] \/ \A d \in AllCalls : priv'[d] # r
  <2> SUFFICES ASSUME NEW r \in Phones, phone_cap'[r], ~phone_cap[r], NEW d \in AllCalls PROVE priv'[d] # r
    OBVIOUS
  <2>1. priv'[c] = None /\ r = priv[c] /\ r # None
    BY Nones, ZenonT(60)
  <2>2. priv[d] = r => d = c
    BY <1>0, <2>1 DEF PhoneUse
  <2> QED BY <2>1, <2>2
<1>11. \A d \in AllCalls : Unused(d)' => Unused(d)
  BY <1>0 DEF Unused
<1>12. PhoneUse'
  BY <1>0, <1>7, <1>8, <1>9, <1>10, <1>11, UseKept
<1> QED BY <1>6, <1>12

\* References to a call are dropped, and with the last one its phone.
LEMMA PutCallVal ==
    ASSUME IInv, IInv', NEW c \in AllCalls, NEW x \in Phones, caller_phone[c] = x,
           NEW n \in {1, 2}, NEW f \in [Phones -> Int], PutCall(c, n, f)
    PROVE  /\ call_refs[c] > 0 /\ \A d \in AllCalls : d # c => call_refs'[d] = call_refs[d]
           /\ \E g \in {x, None} : /\ g = x <=> ~(call_refs'[c] > 0)
                                   /\ \A r \in Phones : phone_refs'[r] = f[r] - (IF r = g THEN 1 ELSE 0)
<1>1. call_refs \in [AllCalls -> Int] /\ -n \in Int /\ call_refs' = Add(call_refs, c, -n)
  BY DEF IInv, Types, PutCall
<1>2. \A d \in AllCalls : call_refs'[d] = call_refs[d] + (IF d = c THEN -n ELSE 0)
  BY <1>1, AddVal
<1>3. call_refs'[c] \in Nat /\ call_refs[c] \in Nat
  BY RefsNat, RefsNext DEF NatRefs
<1>4. call_refs[c] > 0 /\ (~(call_refs'[c] > 0) <=> call_refs[c] = n)
  BY <1>2, <1>3
<1>5. \A d \in AllCalls : d # c => call_refs'[d] = call_refs[d]
  BY <1>1, <1>2
<1>6. x # None
  BY Nones
<1>7. CASE call_refs[c] = n
  <2>1. phone_refs' = Put(f, x)
    BY <1>7 DEF PutCall
  <2>2. \A r \in Phones : phone_refs'[r] = f[r] - (IF r = x THEN 1 ELSE 0)
    BY <2>1, PutVal
  <2> QED BY <1>4, <1>5, <1>7, <2>2
<1>8. CASE call_refs[c] # n
  <2>1. phone_refs' = f
    BY <1>8 DEF PutCall
  <2>2. \A r \in Phones : phone_refs'[r] = f[r] - (IF r = None THEN 1 ELSE 0)
    BY <2>1, Nones
  <2> QED BY <1>4, <1>5, <1>6, <1>8, <2>2
<1> QED BY <1>7, <1>8

\* The call was not waiting for an answer that this step takes away.
LEMMA DropBooks ==
    ASSUME NEW X, Ledger(X), IInv', NEW t \in Threads, Return(t), NEW c \in AllCalls, c = thr[t].call,
           caller_phone[c] \in Phones, NEW n \in {1, 2},
           PutCall(c, n, Put(phone_refs, thr[t].phone)), Due' = Due,
           UNCHANGED <<state, lock, linked, phone_cap, caller_phone, callerbox, priv,
                       phone_active_calls, box_active_calls>>
    PROVE  Books(X)' /\ PhoneUse'
<1>0. IInv /\ thr \in [Threads -> ThreadType] /\ Shape(thr[t])
  BY HandFacts DEF Ledger
<1>1. (\A u \in Threads : u # t => thr'[u] = thr[u]) /\ thr'[t].phone = None
  BY <1>0, ReturnFacts
<1>2. PICK x \in Phones : x = caller_phone[c]
  OBVIOUS
<1>3. phone_refs \in [Phones -> Int] /\ phone_active_calls \in [Phones -> Int]
      /\ box_active_calls \in [Boxes -> Int]
  BY <1>0 DEF IInv, Types
<1>4. PICK f \in [Phones -> Int] : f = Put(phone_refs, thr[t].phone)
  BY <1>3, PutVal
<1>5. \A r \in Phones : f[r] = phone_refs[r] - (IF r = thr[t].phone THEN 1 ELSE 0)
  BY <1>3, <1>4, PutVal
<1>6. /\ call_refs[c] > 0 /\ \A d \in AllCalls : d # c => call_refs'[d] = call_refs[d]
      /\ \E g \in {x, None} : /\ g = x <=> ~(call_refs'[c] > 0)
                              /\ \A r \in Phones : phone_refs'[r] = f[r] - (IF r = g THEN 1 ELSE 0)
  BY <1>0, <1>2, <1>4, PutCallVal
<1>7. PICK g \in {x, None} : /\ g = x <=> ~(call_refs'[c] > 0)
                             /\ \A r \in Phones : phone_refs'[r] = f[r] - (IF r = g THEN 1 ELSE 0)
  BY <1>6
<1>8. PICK a \in {x, None}, e \in Phones \cup {None} : a = None /\ e = None
  OBVIOUS
<1>9. \A r \in Phones : phone_refs'[r] =
         phone_refs[r] - (IF r = a THEN 1 ELSE 0) - (IF r = thr[t].phone THEN 1 ELSE 0)
                       - (IF r = e THEN 1 ELSE 0) - (IF r = g THEN 1 ELSE 0)
  <2> TAKE r \in Phones
  <2>1. phone_refs[r] \in Int /\ r # None
    BY <1>3, Nones
  <2> QED BY <1>5, <1>7, <1>8, <2>1
<1>10. \A r \in Phones : phone_active_calls'[r] = phone_active_calls[r] - (IF r = a THEN 1 ELSE 0)
  BY <1>3, <1>8, Nones
<1>11. \A b \in Boxes : box_active_calls'[b] =
          box_active_calls[b] - (IF a = x /\ b = callerbox[c] THEN 1 ELSE 0)
  BY <1>3, <1>8, Nones
<1>12. /\ \A d \in AllCalls : d # c => (d \in Due' <=> d \in Due)
       /\ \A d \in AllCalls : d # c => priv'[d] = priv[d] /\ call_refs'[d] = call_refs[d]
  BY <1>6
<1>13. (a = x => c \in Due /\ c \notin Due') /\ (a = None => (c \in Due' <=> c \in Due))
  BY <1>8, Nones
<1>14. priv'[c] = priv[c] /\ e = None /\ phone_cap' = phone_cap /\ caller_phone[c] = x
  BY <1>2, <1>8
<1>15. Released(t, c, x, a, e, g, X)
  BY <1>1, <1>6, <1>7, <1>9, <1>10, <1>11, <1>12, <1>13, <1>14, Zenon DEF Released
<1> QED BY <1>15, ReleaseBooks

LEMMA AnswererBooks ==
    ASSUME NEW X, Ledger(X), IInv', NEW t \in Threads, Discard(t) \/ Wake(t) \/ ForwardSend(t)
    PROVE  Books(X)' /\ PhoneUse'
<1>0. /\ IInv /\ thr \in [Threads -> ThreadType] /\ Shape(thr[t]) /\ thr[t].ref \in {0, 1}
      /\ thr[t].pc \in {"deliver", "wake", "forward"} /\ Return(t)
  BY HandFacts DEF Ledger, Discard, Wake, ForwardSend
<1>1. PICK c \in AllCalls : c = thr[t].call
  BY <1>0, HandFacts DEF HolderPCs
<1>2. caller_phone[c] \in Phones
  BY <1>0, <1>1, HandCall DEF HolderPCs
<1>3. /\ UNCHANGED <<state, lock, linked, phone_cap, caller_phone, callerbox, priv,
                     phone_active_calls, box_active_calls>>
      /\ UNCHANGED <<forget, active_calls, answers>>
  BY DEF Discard, Wake, ForwardSend
<1>4. /\ \A u \in Threads : u # t => thr'[u] = thr[u]
      /\ thr'[t].pc \notin AnswerPCs /\ thr'[t].phone = None
  BY <1>0, ReturnFacts DEF AnswerPCs
<1>5. Due' = Due
  <2>1. CASE Discard(t)
    BY <1>0, <2>1, DueAnswering
  <2>2. CASE Wake(t) \/ ForwardSend(t)
    <3>1. thr[t].pc \notin AnswerPCs
      BY <2>2 DEF Wake, ForwardSend, AnswerPCs
    <3> QED BY <1>3, <1>4, <3>1, DueSame
  <2> QED BY <2>1, <2>2
<1>6. CASE Wake(t) /\ thr[t].ref = 0
  <2>1. thr[t].phone = None /\ UNCHANGED <<call_refs, phone_refs>>
    BY <1>0, <1>6 DEF Wake, Shape, PhonePCs, SyncPCs
  <2> QED BY <1>3, <1>4, <1>5, <2>1, NotPosted
<1>7. CASE ~(Wake(t) /\ thr[t].ref = 0)
  <2>1. PICK n \in {1, 2} : PutCall(c, n, Put(phone_refs, thr[t].phone))
    BY <1>0, <1>1, <1>7 DEF Discard, Wake, ForwardSend
  <2> QED BY <1>0, <1>1, <1>2, <1>3, <1>5, <2>1, DropBooks
<1> QED BY <1>6, <1>7

LEMMA PutsVal ==
    ASSUME NEW f \in [Phones -> Int], NEW x, NEW y, NEW z
    PROVE  /\ Put(Put(Put(f, x), y), z) \in [Phones -> Int]
           /\ \A r \in Phones : Put(Put(Put(f, x), y), z)[r] =
                 f[r] - (IF r = x THEN 1 ELSE 0) - (IF r = y THEN 1 ELSE 0) - (IF r = z THEN 1 ELSE 0)
<1>1. PICK g : g = Put(f, x) /\ g \in [Phones -> Int]
               /\ \A r \in Phones : g[r] = f[r] - (IF r = x THEN 1 ELSE 0)
  BY PutVal
<1>2. PICK h : h = Put(g, y) /\ h \in [Phones -> Int]
               /\ \A r \in Phones : h[r] = g[r] - (IF r = y THEN 1 ELSE 0)
  BY <1>1, PutVal
<1>3. PICK i : i = Put(h, z) /\ i \in [Phones -> Int]
               /\ \A r \in Phones : i[r] = h[r] - (IF r = z THEN 1 ELSE 0)
  BY <1>2, PutVal
<1> QED BY <1>1, <1>2, <1>3

\* Put() of no phone.
LEMMA PutNone == \A f : Put(f, None) = f
BY Nones DEF Put

\* The first answer in box b is received.
LEMMA ReceiveBooks ==
    ASSUME NEW X, Ledger(X), IInv', NEW t \in Threads, NEW b \in Boxes, answers[b] # <<>>,
           NEW n \in {1, 2}, ReceiveAnswer(b, n, thr[t].phone),
           \A u \in Threads : u # t => thr'[u] = thr[u],
           thr'[t].phone = None, thr[t].pc \notin AnswerPCs, thr'[t].pc \notin AnswerPCs,
           UNCHANGED <<state, lock, linked, caller_phone, callerbox, forget, active_calls>>
    PROVE  Books(X)' /\ PhoneUse'
<1>0. IInv /\ Types
  BY DEF Ledger, IInv
<1>1. PICK c : c = Head(answers[b])
  OBVIOUS
<1>2. answers' = [answers EXCEPT ![b] = Tail(@)]
  BY DEF ReceiveAnswer
<1>3. /\ c \in AllCalls /\ c \in Due /\ c \notin Due'
      /\ callerbox[c] = b /\ caller_phone[c] \in Phones
      /\ \A d \in AllCalls : d # c => (d \in Due' <=> d \in Due)
  BY <1>0, <1>1, <1>2, DueReceived
<1>4. PICK x \in Phones, q \in Phones \cup {None}, p \in Phones \cup {None} :
         x = caller_phone[c] /\ q = priv[c] /\ p = thr[t].phone
  BY <1>0, <1>3, HandFacts DEF Types
<1>5. /\ phone_refs \in [Phones -> Int] /\ phone_active_calls \in [Phones -> Int]
      /\ box_active_calls \in [Boxes -> Int] /\ phone_cap \in [Phones -> BOOLEAN]
      /\ priv \in [AllCalls -> Phones \cup {None}] /\ -1 \in Int
  BY <1>0 DEF Types
<1>6. /\ phone_active_calls' = Add(phone_active_calls, x, -1)
      /\ box_active_calls' = Add(box_active_calls, b, -1)
      /\ priv' = [priv EXCEPT ![c] = None]
      /\ phone_cap' = [r \in Phones |-> phone_cap[r] \/ (r = q /\ retval[c] = "EOK")]
      /\ PutCall(c, n, IF retval[c] = "EOK" THEN Put(Put(phone_refs, x), p)
                       ELSE Put(Put(Put(phone_refs, x), p), q))
  BY <1>1, <1>4 DEF ReceiveAnswer
<1>7. PICK e \in Phones \cup {None} : e = IF retval[c] = "EOK" THEN None ELSE q
  BY <1>4
<1>8. PICK f \in [Phones -> Int] :
         /\ PutCall(c, n, f)
         /\ \A r \in Phones : f[r] =
              phone_refs[r] - (IF r = x THEN 1 ELSE 0) - (IF r = p THEN 1 ELSE 0) - (IF r = e THEN 1 ELSE 0)
  <2>1. PICK f : f = Put(Put(Put(phone_refs, x), p), e)
    OBVIOUS
  <2>2. PutCall(c, n, f)
    <3>1. CASE retval[c] = "EOK"
      BY <1>6, <1>7, <2>1, <3>1, PutNone
    <3>2. CASE retval[c] # "EOK"
      BY <1>6, <1>7, <2>1, <3>2
    <3> QED BY <3>1, <3>2
  <2>3. phone_refs \in [Phones -> Int]
    BY <1>5
  <2>4. /\ f \in [Phones -> Int]
        /\ \A r \in Phones : f[r] =
              phone_refs[r] - (IF r = x THEN 1 ELSE 0) - (IF r = p THEN 1 ELSE 0) - (IF r = e THEN 1 ELSE 0)
    BY <2>1, <2>3, PutsVal
  <2> QED BY <2>2, <2>4
<1>9. /\ call_refs[c] > 0 /\ \A d \in AllCalls : d # c => call_refs'[d] = call_refs[d]
      /\ \E g \in {x, None} : /\ g = x <=> ~(call_refs'[c] > 0)
                              /\ \A r \in Phones : phone_refs'[r] = f[r] - (IF r = g THEN 1 ELSE 0)
  BY <1>0, <1>3, <1>4, <1>8, PutCallVal
<1>10. PICK g \in {x, None} : /\ g = x <=> ~(call_refs'[c] > 0)
                              /\ \A r \in Phones : phone_refs'[r] = f[r] - (IF r = g THEN 1 ELSE 0)
  BY <1>9
<1>11. \A r \in Phones : phone_refs'[r] =
          phone_refs[r] - (IF r = x THEN 1 ELSE 0) - (IF r = thr[t].phone THEN 1 ELSE 0)
                        - (IF r = e THEN 1 ELSE 0) - (IF r = g THEN 1 ELSE 0)
  BY <1>4, <1>8, <1>10
<1>12. \A r \in Phones : phone_active_calls'[r] = phone_active_calls[r] - (IF r = x THEN 1 ELSE 0)
  <2>1. phone_active_calls' = Add(phone_active_calls, x, -1) /\ phone_active_calls \in [Phones -> Int]
    BY <1>5, <1>6
  <2> QED BY <2>1, SubVal
<1>13. \A a \in Boxes : box_active_calls'[a] =
          box_active_calls[a] - (IF x = x /\ a = callerbox[c] THEN 1 ELSE 0)
  <2>1. box_active_calls' = Add(box_active_calls, b, -1) /\ box_active_calls \in [Boxes -> Int]
    BY <1>5, <1>6
  <2>2. \A a \in Boxes : box_active_calls'[a] = box_active_calls[a] - (IF a = b THEN 1 ELSE 0)
    BY <2>1, SubVal
  <2> QED BY <1>3, <2>2
<1>14. priv'[c] = None /\ \A d \in AllCalls : d # c => priv'[d] = priv[d] /\ call_refs'[d] = call_refs[d]
  BY <1>3, <1>5, <1>6, <1>9
<1>15. \/ e = priv[c] /\ phone_cap' = phone_cap
       \/ e = None /\ phone_cap' = [r \in Phones |-> phone_cap[r] \/ r = priv[c]]
  <2>1. CASE retval[c] = "EOK"
    BY <1>4, <1>6, <1>7, <2>1
  <2>2. CASE retval[c] # "EOK"
    <3>1. \A r \in Phones : phone_cap'[r] = phone_cap[r]
      BY <1>5, <1>6, <2>2
    <3>2. phone_cap' = [r \in Phones |-> phone_cap'[r]] /\ phone_cap = [r \in Phones |-> phone_cap[r]]
      BY <1>5, <1>6
    <3> QED BY <1>4, <1>7, <2>2, <3>1, <3>2
  <2> QED BY <2>1, <2>2
<1>16. Released(t, c, x, x, e, g, X)
  BY <1>3, <1>4, <1>9, <1>10, <1>11, <1>12, <1>13, <1>14, <1>15, Nones, ZenonT(60) DEF Released
<1> QED BY <1>3, <1>16, ReleaseBooks

LEMMA AnswerTakenBooks ==
    ASSUME NEW X, Ledger(X), IInv', NEW t \in Threads, DequeueAnswer(t) \/ WaitAllAnswer(t) \/ SyncReceive(t)
    PROVE  Books(X)' /\ PhoneUse'
<1>0. IInv /\ thr \in [Threads -> ThreadType] /\ Shape(thr[t])
  BY HandFacts DEF Ledger
<1>1. /\ UNCHANGED <<state, lock, linked, caller_phone, callerbox, forget, active_calls>>
      /\ thr[t].pc \notin AnswerPCs
  BY DEF DequeueAnswer, WaitAllAnswer, SyncReceive, AnswerPCs
<1>2. CASE DequeueAnswer(t) \/ WaitAllAnswer(t)
  <2>1. PICK k \in Boxes : k = TaskOf[t]
    BY Nones
  <2>2. answers[k] # <<>> /\ thr[t].pc \in {"dequeue", "dequeue_all"} /\ ReceiveAnswer(k, 1, None)
    BY <1>2, <2>1 DEF DequeueAnswer, WaitAllAnswer
  <2>3. thr[t].phone = None
    BY <1>0, <2>2, NoPhoneHeld DEF PhonePCs, SyncPCs
  <2>4. Return(t) \/ Goto(t, "wait") \/ Goto(t, "rehang")
    BY <1>2 DEF DequeueAnswer, WaitAllAnswer
  <2>5. "wait" \in PCs /\ "rehang" \in PCs
    BY DEF PCs, SyscallPCs, CleanupPCs
  <2>6. /\ \A u \in Threads : u # t => thr'[u] = thr[u]
        /\ thr'[t].phone = None /\ thr'[t].pc \notin AnswerPCs
    <3>1. CASE Return(t)
      BY <1>0, <3>1, ReturnFacts DEF AnswerPCs
    <3>2. CASE Goto(t, "wait") \/ Goto(t, "rehang")
      BY <1>0, <2>3, <2>5, <3>2, GotoFacts DEF AnswerPCs
    <3> QED BY <2>4, <3>1, <3>2
  <2> QED BY <1>1, <2>2, <2>3, <2>6, ReceiveBooks
<1>3. CASE SyncReceive(t)
  <2>1. t \in Boxes /\ wq[t] > 0 /\ ReceiveAnswer(t, 2, thr[t].phone) /\ Return(t)
    BY <1>3, Nones DEF SyncReceive
  <2>2. answers[t] # <<>>
    BY <1>0, <2>1 DEF IInv, ListInv
  <2>3. /\ \A u \in Threads : u # t => thr'[u] = thr[u]
        /\ thr'[t].phone = None /\ thr'[t].pc \notin AnswerPCs
    BY <1>0, <2>1, ReturnFacts DEF AnswerPCs
  <2> QED BY <1>1, <2>1, <2>2, <2>3, ReceiveBooks
<1> QED BY <1>2, <1>3

\* Active call c of task k is forgotten; h are the counters of active calls of
\* the answerboxes that are left once mybox is freed.
LEMMA ForgetBooks ==
    ASSUME NEW X, Ledger(X), IInv', NEW t \in Threads, \A u \in Threads : u # t => thr'[u] = thr[u],
           thr'[t].phone = None, thr[t].pc \notin AnswerPCs, thr'[t].pc \notin AnswerPCs,
           answers' = answers, NEW k \in Tasks, NEW c \in AllCalls, c \in active_calls[k],
           NEW h, ForgetCall(k, c, h), "forgotten" \notin X => h = box_active_calls /\ callerbox[c] = k,
           UNCHANGED <<state, lock, linked, phone_cap, caller_phone, callerbox>>,
           NEW f \in [Phones -> Int], f = Put(ForgetPuts(c), thr[t].phone),
           PutCall(c, 1, f) \/ (phone_refs' = f /\ call_refs' = call_refs)
    PROVE  Books(X)' /\ PhoneUse'
<1>0. IInv /\ Types
  BY DEF Ledger, IInv
<1>1. /\ forget' = [forget EXCEPT ![c] = TRUE] /\ active_calls' = [active_calls EXCEPT ![k] = @ \ {c}]
      /\ priv' = [priv EXCEPT ![c] = None]
  BY DEF ForgetCall
<1>2. /\ c \in Due /\ c \notin Due' /\ caller_phone[c] \in Phones
      /\ k = Owner(c) /\ (c \notin SyncCalls => callerbox[c] = k)
      /\ \A d \in AllCalls : d # c => (d \in Due' <=> d \in Due)
  BY <1>0, <1>1, DueForgotten
<1>3. PICK x \in Phones, e \in Phones \cup {None}, p \in Phones \cup {None} :
         x = caller_phone[c] /\ e = priv[c] /\ p = thr[t].phone
  BY <1>0, <1>2, HandFacts DEF Types
<1>4. /\ phone_refs \in [Phones -> Int] /\ phone_active_calls \in [Phones -> Int]
      /\ box_active_calls \in [Boxes -> Int] /\ priv \in [AllCalls -> Phones \cup {None}]
  BY <1>0 DEF Types
<1>5. \A r \in Phones : f[r] =
         phone_refs[r] - (IF r = x THEN 1 ELSE 0) - (IF r = e THEN 1 ELSE 0) - (IF r = p THEN 1 ELSE 0)
  <2>1. phone_refs \in [Phones -> Int] /\ f = Put(Put(Put(phone_refs, x), e), p)
    BY <1>3, <1>4 DEF ForgetPuts
  <2> QED BY <2>1, PutsVal
<1>6. /\ call_refs[c] > 0 /\ \A d \in AllCalls : d # c => call_refs'[d] = call_refs[d]
      /\ \E g \in {x, None} : /\ g = x <=> ~(call_refs'[c] > 0)
                              /\ \A r \in Phones : phone_refs'[r] = f[r] - (IF r = g THEN 1 ELSE 0)
  <2>1. CASE PutCall(c, 1, f)
    BY <1>0, <1>3, <2>1, PutCallVal
  <2>2. CASE phone_refs' = f /\ call_refs' = call_refs
    <3>1. call_refs[c] > 0
      <4>1. CallerRef(c) \in Nat /\ \A u \in Threads : thr[u].ref \in Nat
        BY <1>0, HandFacts DEF CallerRef
      <4>2. \/ \E j \in Tasks : Queued(c, j) \/ Open(c, j)
            \/ \E u \in Threads : Handled(c, u)
        BY <1>0, ActiveCall DEF IInv, CallInv
      <4>3. \A j \in Tasks : Queued(c, j) \/ Open(c, j) => call_refs[c] > 0
        BY <4>1 DEF Queued, Open
      <4>4. \A u \in Threads : Handled(c, u) => call_refs[c] > 0
        BY <4>1 DEF Handled
      <4> QED BY <4>2, <4>3, <4>4
    <3>2. \A r \in Phones : phone_refs'[r] = f[r] - (IF r = None THEN 1 ELSE 0)
      BY <2>2, Nones
    <3>3. x # None
      BY Nones
    <3> QED BY <2>2, <3>1, <3>2, <3>3
  <2> QED BY <2>1, <2>2
<1>7. PICK g \in {x, None} : /\ g = x <=> ~(call_refs'[c] > 0)
                             /\ \A r \in Phones : phone_refs'[r] = f[r] - (IF r = g THEN 1 ELSE 0)
  BY <1>6
<1>8. \A r \in Phones : phone_refs'[r] =
          phone_refs[r] - (IF r = x THEN 1 ELSE 0) - (IF r = thr[t].phone THEN 1 ELSE 0)
                        - (IF r = e THEN 1 ELSE 0) - (IF r = g THEN 1 ELSE 0)
  <2> TAKE r \in Phones
  <2>1. phone_refs[r] \in Int
    BY <1>4
  <2> QED BY <1>3, <1>5, <1>7, <2>1
<1>9. \A r \in Phones : phone_active_calls'[r] = phone_active_calls[r] - (IF r = x THEN 1 ELSE 0)
  <2>1. phone_active_calls' = Add(phone_active_calls, x, -1) /\ phone_active_calls \in [Phones -> Int]
    BY <1>3, <1>4 DEF ForgetCall
  <2> QED BY <2>1, SubVal
<1>10. "forgotten" \notin X => \A a \in Boxes : box_active_calls'[a] =
          box_active_calls[a] - (IF x = x /\ a = callerbox[c] THEN 1 ELSE 0)
  <2> SUFFICES ASSUME "forgotten" \notin X
               PROVE  \A a \in Boxes : box_active_calls'[a] =
                         box_active_calls[a] - (IF x = x /\ a = callerbox[c] THEN 1 ELSE 0)
    OBVIOUS
  <2>1. box_active_calls' = Add(box_active_calls, k, -1) /\ box_active_calls \in [Boxes -> Int]
    BY <1>4 DEF ForgetCall
  <2>2. \A a \in Boxes : box_active_calls'[a] = box_active_calls[a] - (IF a = k THEN 1 ELSE 0)
    BY <2>1, SubVal
  <2> QED BY <2>2
<1>11. priv'[c] = None /\ \A d \in AllCalls : d # c => priv'[d] = priv[d] /\ call_refs'[d] = call_refs[d]
  BY <1>1, <1>4, <1>6
<1>12. Released(t, c, x, x, e, g, X)
  BY <1>2, <1>3, <1>6, <1>7, <1>8, <1>9, <1>10, <1>11, Nones, ZenonT(180) DEF Released
<1> QED BY <1>12, ReleaseBooks

LEMMA SyncForgetBooks ==
    ASSUME NEW X, Ledger(X), IInv', NEW t \in Threads, SyncForget(t), "forgotten" \in X
    PROVE  Books(X)' /\ PhoneUse'
<1>0. IInv /\ thr \in [Threads -> ThreadType] /\ Shape(thr[t]) /\ thr[t].pc = "race"
  BY HandFacts DEF Ledger, SyncForget
<1>1. PICK c \in AllCalls : c = thr[t].call
  BY <1>0, HandFacts DEF SyncPCs
<1>2. PICK k \in Tasks : k = TaskOf[t]
  BY Nones
<1>3. PICK h : h = FreeMybox(box_active_calls, t, 0)
  OBVIOUS
<1>4. /\ active[c] /\ ForgetCall(k, c, h) /\ Return(t) /\ answers' = answers
      /\ PutCall(c, 1, Put(ForgetPuts(c), thr[t].phone))
      /\ UNCHANGED <<state, lock, linked, phone_cap, caller_phone, callerbox>>
  BY <1>1, <1>2, <1>3 DEF SyncForget
<1>5. /\ \A u \in Threads : u # t => thr'[u] = thr[u]
      /\ thr'[t].phone = None /\ thr[t].pc \notin AnswerPCs /\ thr'[t].pc \notin AnswerPCs
  BY <1>0, <1>4, ReturnFacts DEF AnswerPCs
<1>6. CallOK(c) /\ Waits(t, c)
  BY <1>0, <1>1, HandFacts DEF IInv, CallInv, SyncPCs
<1>7. c \in SyncCalls /\ ~forget[c] /\ callerbox[c] = t
  BY <1>6, WaitedCall
<1>8. c \in active_calls[k]
  <2>1. \A H \in OneOrNone : ~Answered(c, H)
    BY <1>4, <1>7 DEF Answered
  <2>2. \A u \in Threads : Handled(c, u) => Pending(c)
    BY <1>4, <1>7 DEF Handled, Decided
  <2>3. Pending(c)
    BY <1>6, <2>1, <2>2, WaitedCall DEF Queued, Open
  <2>4. Owner(c) = k
    BY <1>2, <1>7 DEF Owner
  <2> QED BY <1>7, <2>3, <2>4 DEF Pending, ActiveIn
<1>9. PICK f \in [Phones -> Int] : f = Put(ForgetPuts(c), thr[t].phone)
  <2>1. phone_refs \in [Phones -> Int]
    BY <1>0 DEF IInv, Types
  <2> QED BY <2>1, PutsVal DEF ForgetPuts
<1>10. PutCall(c, 1, f)
  BY <1>4, <1>9
<1> QED BY <1>4, <1>5, <1>8, <1>9, <1>10, ForgetBooks

LEMMA ForgetAllBooks ==
    ASSUME NEW X, Ledger(X), IInv', NEW t \in Threads, NEW c \in AllCalls, ForgetAll(t, c)
    PROVE  Books(X)' /\ PhoneUse'
<1>0. IInv /\ thr[t].pc = "forget_all" /\ thr' = thr
  BY DEF Ledger, ForgetAll
<1>1. thr[t].phone = None
  BY <1>0, NoPhoneHeld DEF PhonePCs, SyncPCs
<1>2. PICK k \in Tasks : k = TaskOf[t]
  BY Nones
<1>3. PICK h : h = box_active_calls
  OBVIOUS
<1>4. /\ c \in active_calls[k] /\ ForgetCall(k, c, h) /\ answers' = answers
      /\ phone_refs' = ForgetPuts(c) /\ call_refs' = call_refs
      /\ UNCHANGED <<state, lock, linked, phone_cap, caller_phone, callerbox>>
  BY <1>2, <1>3 DEF ForgetAll
<1>5. /\ \A u \in Threads : u # t => thr'[u] = thr[u]
      /\ thr'[t].phone = None /\ thr[t].pc \notin AnswerPCs /\ thr'[t].pc \notin AnswerPCs
  BY <1>0, <1>1 DEF AnswerPCs
<1>6. PICK f \in [Phones -> Int] : f = Put(ForgetPuts(c), thr[t].phone)
  <2>1. phone_refs \in [Phones -> Int]
    BY <1>0 DEF IInv, Types
  <2> QED BY <2>1, PutsVal DEF ForgetPuts
<1>7. phone_refs' = f
  BY <1>1, <1>4, <1>6, PutNone
<1>8. callerbox[c] = k
  <2>1. Pending(c) /\ ~forget[c] /\ k = Owner(c)
    BY <1>0, <1>4, ActiveCall DEF IInv, CallInv
  <2>2. c \notin SyncCalls
    <3> SUFFICES ASSUME c \in SyncCalls PROVE FALSE
      OBVIOUS
    <3>1. PICK u \in Threads : u = callerbox[c] /\ TaskOf[u] = k
      BY <2>1 DEF Pending, Sent, Owner
    <3>2. thr[u].pc \in SyncPCs
      BY <2>1, <3>1 DEF Pending, CallerWaits, WaitedBy, Waits
    <3>3. u # t /\ thr[u].pc # "dead"
      BY <1>0, <3>2 DEF SyncPCs
    <3>4. Cleaning(thr[t]) /\ ThreadOK(t)
      BY <1>0 DEF Cleaning, CleanupPCs, IInv, ThreadInv
    <3> QED BY <1>2, <3>1, <3>3, <3>4 DEF ThreadOK
  <2> QED BY <2>1, <2>2 DEF Owner
<1> QED BY <1>3, <1>4, <1>5, <1>6, <1>7, <1>8, ForgetBooks

\* A refused synchronous call: the reference to the phone that its answer was
\* to drop is never dropped, and phone->active_calls is not decremented.
LEMMA BacksendSyncBooks ==
    ASSUME NEW X, Ledger(X), IInv', NEW t \in Threads, BacksendSync(t), "refused" \in X
    PROVE  Books(X)' /\ PhoneUse'
<1>0. /\ IInv /\ Types /\ Types' /\ PhoneUse /\ Books(X)
      /\ thr \in [Threads -> ThreadType] /\ Shape(thr[t]) /\ thr[t].pc = "backsend"
  BY HandFacts DEF Ledger, IInv, BacksendSync
<1>1. PICK p \in Phones, c \in AllCalls : p = thr[t].phone /\ c = thr[t].call
  BY <1>0, HandFacts DEF HolderPCs, PhonePCs
<1>2. /\ CallActions(p, c, t, 2) /\ call_refs' = Add(call_refs, c, -2) /\ Return(t) /\ c \in SyncCalls
      /\ UNCHANGED <<linked, phone_cap, priv, state, lock, box_active_calls>>
      /\ UNCHANGED <<forget, active_calls, answers>>
  BY <1>1 DEF BacksendSync, box
<1>3. /\ \A u \in Threads : u # t => thr'[u] = thr[u]
      /\ thr'[t].pc \notin AnswerPCs /\ thr[t].pc \notin AnswerPCs /\ thr'[t].phone = None
  BY <1>0, <1>2, ReturnFacts DEF AnswerPCs
<1>4. Unsent(c, t)
  BY <1>0, <1>1, HandCall
<1>5. caller_phone[c] = None /\ call_refs[c] = 2 /\ c \notin Due
  BY <1>2, <1>4, NotDue DEF Unsent, NotSent
<1>6. Due' = Due
  BY <1>2, <1>3, DueSame
<1>7. call_refs \in [AllCalls -> Int] /\ phone_refs \in [Phones -> Int]
      /\ caller_phone \in [AllCalls -> Phones \cup {None}] /\ callerbox \in [AllCalls -> Boxes \cup {None}]
  BY <1>0 DEF Types
<1>8. call_refs'[c] = 0 /\ \A d \in AllCalls : d # c => call_refs'[d] = call_refs[d]
  BY <1>2, <1>5, <1>7 DEF Add
<1>9. \A r \in Phones : phone_refs'[r] = phone_refs[r]
  BY <1>2, <1>7 DEF CallActions, Add
<1>10. /\ caller_phone'[c] = p /\ callerbox'[c] = t
       /\ \A d \in AllCalls : d # c => caller_phone'[d] = caller_phone[d] /\ callerbox'[d] = callerbox[d]
  BY <1>2, <1>7 DEF CallActions
<1>11. \A d \in AllCalls : d # c => Unposted(d)
  BY <1>2, <1>6, <1>8, <1>10 DEF Unposted
<1>12. ASSUME NEW r \in Phones PROVE PhoneBook(r, X)'
  <2>1. PICK e \in {0, 1} : e = IF r = p THEN 1 ELSE 0
    OBVIOUS
  <2>2. Own(r)' = Own(r) /\ Own(r) \in Int /\ phone_refs[r] \in Int
    BY <1>2, <1>7 DEF Own
  <2>3. Hand(t, r) = e /\ Hand(t, r)' = 0
    BY <1>1, <1>3, <2>1, Nones DEF Hand
  <2>4. Entry(c, r)' = Entry(c, r) /\ Entry(c, r) \in Int
    <3>1. ~(caller_phone[c] = r /\ call_refs[c] > 0) /\ ~(caller_phone'[c] = r /\ call_refs'[c] > 0)
      BY <1>5, <1>8, Nones
    <3> QED BY <1>2, <1>5, <1>6, <3>1 DEF Entry
  <2>5. phone_refs'[r] + Own(r) + Hand(t, r) + Entry(c, r)
          = phone_refs[r] + Own(r)' + Hand(t, r)' + Entry(c, r)' + e
    BY <1>9, <2>2, <2>3, <2>4
  <2>6. e \in Nat /\ PhoneBook(r, X)
    BY <1>0 DEF Books
  <2> QED BY <1>0, <1>3, <1>11, <2>5, <2>6, PhoneDelta, ZenonT(60)
<1>13. ASSUME NEW b \in Boxes PROVE BoxBook(b, X)'
  <2>1. BoxBook(b, X)
    BY <1>0 DEF Books
  <2>2. box_active_calls'[b] + BoxEntry(c, b) = box_active_calls[b] + BoxEntry(c, b)'
    BY <1>2, <1>5, <1>6 DEF BoxEntry
  <2> QED BY <1>0, <1>11, <2>1, <2>2, BoxDelta, ZenonT(60)
<1>14. Books(X)'
  BY <1>12, <1>13 DEF Books
<1>15. state[p] # "FREE" /\ p # None
  BY <1>0, <1>1, Nones DEF PhoneUse
<1>16. \A d \in AllCalls : caller_phone'[d] = caller_phone[d] \/ (caller_phone'[d] \in Phones /\ state[caller_phone'[d]] # "FREE")
  BY <1>10, <1>15
<1>17. \A d \in AllCalls : Unused(d)' => Unused(d)
  BY <1>8, <1>10, <1>15 DEF Unused
<1>18. \A r \in Phones : state'[r] = "CONNECTED" /\ lock'[r] = None => linked'[r]
  BY <1>0, <1>2 DEF PhoneUse
<1>19. PhoneUse'
  BY <1>0, <1>2, <1>3, <1>9, <1>16, <1>17, <1>18, UseKept
<1> QED BY <1>14, <1>19

-----------------------------------------------------------------------------
(* The books are right in every state. *)

LEMMA RequestBooks ==
    ASSUME NEW X, Ledger(X), IInv', NEW t \in Threads, Request(t)
    PROVE  Books(X)' /\ PhoneUse'
<1>1. ASSUME NEW p \in Phones, NEW c \in Calls,
             CallAsync(t, p, c) \/ CallSync(t, p, c) \/ \E q \in Phones : ConnectMeTo(t, p, c, q)
      PROVE  Books(X)' /\ PhoneUse'
  BY <1>1, TakePhoneBooks, ConnectBooks
<1>2. ASSUME NEW p \in Phones, (\E c \in AllCalls : Forward(t, c, p)) \/ SysHangup(t, p)
      PROVE  Books(X)' /\ PhoneUse'
  BY <1>2, TakePhoneBooks
<1>3. ASSUME NEW c \in AllCalls, (\E rv \in UserRetvals : Answer(t, c, rv)) \/ ForwardRefused(t, c)
      PROVE  Books(X)' /\ PhoneUse'
  BY <1>3, TakeUpBooks
<1>4. CASE WaitForCall(t)
  BY <1>4, GotoBooks
<1>5. CASE Poke(t)
  BY <1>5, TakeUpBooks
<1> QED BY <1>1, <1>2, <1>3, <1>4, <1>5 DEF Request

LEMMA KernelBooks ==
    ASSUME NEW X, Ledger(X), IInv', NEW t \in Threads, KernelStep(t),
           BacksendSync(t) => "refused" \in X, SyncForget(t) => "forgotten" \in X
    PROVE  Books(X)' /\ PhoneUse'
<1>1. CASE \/ SendRefused(t) \/ Wakeup(t) \/ PublishFails(t) \/ ForwardFails(t)
           \/ SyncInterrupted(t) \/ SyncAnswered(t)
  BY <1>1, GotoBooks
<1>2. CASE WaitFails(t) \/ DequeueNothing(t) \/ Publish(t)
  BY <1>2, ReturnBooks
<1>3. CASE DequeueRequest(t)
  BY <1>3, TakeUpBooks
<1>4. CASE PreprocessForgotten(t) \/ Deliver(t)
  BY <1>4, DeliverBooks
<1>5. CASE Unlist(t) \/ HangupSlammed(t)
  BY <1>5, HangupBooks
<1>6. CASE Discard(t) \/ Wake(t) \/ ForwardSend(t)
  BY <1>6, AnswererBooks
<1>7. CASE DequeueAnswer(t) \/ SyncReceive(t)
  BY <1>7, AnswerTakenBooks
<1> QED BY <1>1, <1>2, <1>3, <1>4, <1>5, <1>6, <1>7, SendBooks, BacksendBooks, BacksendSyncBooks,
           PreprocessBooks, SlamCallerBooks, SyncForgetBooks, SendHungupBooks DEF KernelStep

LEMMA CleanupBooks ==
    ASSUME NEW X, Ledger(X), IInv', NEW t \in Threads, CleanupStep(t)
    PROVE  Books(X)' /\ PhoneUse'
<1>1. CASE \/ Leave(t) \/ Exit(t) \/ HangAllDone(t) \/ CleanupDone(t) \/ ForgetAllDone(t)
           \/ WaitAllDone(t) \/ WaitAll(t) \/ WaitAllNothing(t) \/ WaitAllRequest(t)
  BY <1>1, GotoBooks
<1>2. CASE SlamDone(t)
  BY <1>2, DeliverBooks
<1>3. ASSUME NEW p \in Phones, HangAll(t, p) \/ SlamPhone(t, p) PROVE Books(X)' /\ PhoneUse'
  BY <1>3, TakePhoneBooks, SlamPhoneBooks
<1>4. CASE CleanupCalls(t) \/ \E c \in AllCalls : CleanupDispatched(t, c)
  BY <1>4, TakeUpBooks
<1>5. ASSUME NEW c \in AllCalls, ForgetAll(t, c) PROVE Books(X)' /\ PhoneUse'
  BY <1>5, ForgetAllBooks
<1>6. CASE WaitAllAnswer(t)
  BY <1>6, AnswerTakenBooks
<1> QED BY <1>1, <1>2, <1>3, <1>4, <1>5, <1>6 DEF CleanupStep

LEMMA IInvStep == IInv /\ [Next]_vars => IInv'
BY TypesStep, ThreadStep, PhoneStep, ListStep, CallStep DEF IInv

\* What spoils the books: a synchronous call is refused, or forgotten.
NoneRefused   == \A t \in Threads : ~BacksendSync(t)
NoneForgotten == \A t \in Threads : ~SyncForget(t)

Clean(X) == ("refused" \notin X => NoneRefused) /\ ("forgotten" \notin X => NoneForgotten)

LEMMA LedgerStep ==
    ASSUME NEW X, Ledger(X), [Next /\ Clean(X)]_vars
    PROVE  Ledger(X)'
<1>0. [Next]_vars
  OBVIOUS
<1>1. IInv'
  BY <1>0, IInvStep DEF Ledger
<1>2. ASSUME UNCHANGED <<box_active_calls, answers, state, lock, linked, phone_active_calls,
                         phone_refs, phone_cap, call_refs, caller_phone, callerbox, forget,
                         priv, active_calls, thr>>
      PROVE  Books(X)' /\ PhoneUse'
  <2>1. Books(X) /\ PhoneUse
    BY DEF Ledger
  <2>3. Books(X)'
    BY <1>2, <2>1 DEF Books, PhoneBook, BoxBook, PhoneHolders, Made, DueOn, NewFor, DueAt, Due, Outstanding
  <2>4. PhoneUse'
    BY <1>2, <2>1 DEF PhoneUse, Unused
  <2> QED BY <2>3, <2>4
<1>3. ASSUME NEW k \in Tasks, Kill(k) PROVE Books(X)' /\ PhoneUse'
  <2>1. UNCHANGED <<box_active_calls, answers, state, lock, linked, phone_active_calls,
                         phone_refs, phone_cap, call_refs, caller_phone, callerbox, forget,
                         priv, active_calls, thr>>
    BY <1>3 DEF Kill, box, phone, call
  <2> QED BY <1>2, <2>1, Zenon
<1>4. ASSUME UNCHANGED vars PROVE Books(X)' /\ PhoneUse'
  <2>1. UNCHANGED <<box_active_calls, answers, state, lock, linked, phone_active_calls,
                         phone_refs, phone_cap, call_refs, caller_phone, callerbox, forget,
                         priv, active_calls, thr>>
    BY <1>4 DEF vars
  <2> QED BY <1>2, <2>1, Zenon
<1>5. ASSUME NEW t \in Threads, KernelStep(t), Clean(X) PROVE Books(X)' /\ PhoneUse'
  BY <1>1, <1>5, KernelBooks DEF Clean, NoneRefused, NoneForgotten
<1>6. Books(X)' /\ PhoneUse'
  BY <1>1, <1>3, <1>4, <1>5, RequestBooks, CleanupBooks DEF Next
<1> QED BY <1>1, <1>6 DEF Ledger

LEMMA InitLedger ==
    ASSUME NEW X, Init
    PROVE  Ledger(X)
<1>1. \A c \in AllCalls : caller_phone[c] = None /\ priv[c] = None /\ callerbox[c] = None
  BY DEF Init
<1>2. \A t \in Threads : thr[t].phone = None
  BY UserFacts DEF Init
<1>3. ASSUME NEW p \in Phones PROVE PhoneBook(p, X)
  <2>1. p # None
    BY Nones
  <2>2. Made(p) = {} /\ DueOn(p) = {} /\ NewFor(p) = {} /\ Users(p) = {}
    BY <1>1, <1>2, <2>1 DEF Made, DueOn, NewFor, Users
  <2>3. IsFiniteSet({}) /\ Cardinality({}) = 0
    BY FS_EmptySet
  <2>4. phone_refs[p] = Own(p) /\ Own(p) \in Int
    <3>1. /\ phone_refs[p] = IF p \in BootPhones THEN 2 ELSE 0
          /\ phone_cap[p] <=> p \in BootPhones
          /\ linked[p] <=> p \in BootPhones
      BY DEF Init
    <3>2. CASE p \in BootPhones
      BY <3>1, <3>2 DEF Own
    <3>3. CASE p \notin BootPhones
      BY <3>1, <3>3 DEF Own
    <3> QED BY <3>2, <3>3
  <2>5. phone_active_calls[p] = 0
    BY DEF Init
  <2>6. PhoneHolders(p) = Own(p)
    <3>1. PhoneHolders(p) = Own(p) + Cardinality(Made(p)) + Cardinality(DueOn(p))
                              + Cardinality(NewFor(p)) + Cardinality(Users(p))
      BY HoldersSum
    <3>2. /\ Cardinality(Made(p)) = 0 /\ Cardinality(DueOn(p)) = 0
          /\ Cardinality(NewFor(p)) = 0 /\ Cardinality(Users(p)) = 0
      BY <2>2, <2>3
    <3> QED BY <2>4, <3>1, <3>2
  <2> QED BY <2>2, <2>3, <2>4, <2>5, <2>6 DEF PhoneBook
<1>4. ASSUME NEW b \in Boxes PROVE BoxBook(b, X)
  <2>1. DueAt(b) = {}
    BY <1>1, Nones DEF DueAt
  <2>2. IsFiniteSet({}) /\ Cardinality({}) = 0
    BY FS_EmptySet
  <2>3. box_active_calls[b] = 0
    BY DEF Init
  <2> QED BY <2>1, <2>2, <2>3 DEF BoxBook
<1>5. PhoneUse
  BY <1>1, <1>2 DEF PhoneUse, Init
<1> QED BY <1>3, <1>4, <1>5, InitIInv DEF Books, Ledger

-----------------------------------------------------------------------------
(* What the books show. *)

\* Whatever faults occur.
Faults == {"refused", "forgotten"}

\* The books at any time: those of the phones as long as no synchronous call is
\* refused, those of the boxes as long as none is forgotten.
LEMMA LedgerAlways == Spec => []Ledger(Faults)
<1>1. Init => Ledger(Faults)
  BY InitLedger
<1>2. Ledger(Faults) /\ [Next]_vars => Ledger(Faults)'
  <2>1. [Next]_vars => [Next /\ Clean(Faults)]_vars
    BY DEF Clean, Faults
  <2> QED BY <2>1, LedgerStep
<1> QED BY <1>1, <1>2, PTL DEF Spec

LEMMA LedgerUnlessRefused == Spec /\ [][NoneRefused]_vars => []Ledger({"forgotten"})
<1>1. Init => Ledger({"forgotten"})
  BY InitLedger
<1>2. Ledger({"forgotten"}) /\ [Next]_vars /\ [NoneRefused]_vars => Ledger({"forgotten"})'
  <2>1. [Next]_vars /\ [NoneRefused]_vars => [Next /\ Clean({"forgotten"})]_vars
    BY DEF Clean
  <2> QED BY <2>1, LedgerStep
<1> QED BY <1>1, <1>2, PTL DEF Spec

LEMMA LedgerUnlessForgotten == Spec /\ [][NoneForgotten]_vars => []Ledger({"refused"})
<1>1. Init => Ledger({"refused"})
  BY InitLedger
<1>2. Ledger({"refused"}) /\ [Next]_vars /\ [NoneForgotten]_vars => Ledger({"refused"})'
  <2>1. [Next]_vars /\ [NoneForgotten]_vars => [Next /\ Clean({"refused"})]_vars
    BY DEF Clean
  <2> QED BY <2>1, LedgerStep
<1> QED BY <1>1, <1>2, PTL DEF Spec

\* No phone_t is destroyed while somebody still refers to it, whatever faults
\* ipc_call_sync() makes: kobject_put() never drops a reference that a
\* capability, connected_phones, a call or a system call still relies on.
THEOREM PhoneNotDanglingAlways == Spec => []PhoneNotDangling
<1>1. Ledger(Faults) => PhoneNotDangling
  BY DEF Ledger, Books, PhoneBook, PhoneNotDangling
<1> QED BY <1>1, LedgerAlways, PTL

\* The types of the state of the kernel's IPC; in particular no reference count
\* of a call_t or of a phone_t ever drops below zero.
THEOREM TypeOKAlways == Spec => []TypeOK
<1>1. Ledger(Faults) => TypeOK
  <2> SUFFICES ASSUME Ledger(Faults) PROVE TypeOK
    OBVIOUS
  <2>1. Types /\ NatRefs
    BY RefsNat DEF Ledger, IInv
  <2>2. call_refs \in [AllCalls -> Nat]
    BY <2>1 DEF Types, NatRefs
  <2>3. ASSUME NEW p \in Phones PROVE phone_refs[p] \in Nat
    <3>1. /\ IsFiniteSet(Made(p)) /\ IsFiniteSet(DueOn(p)) /\ IsFiniteSet(NewFor(p))
          /\ phone_refs[p] >= PhoneHolders(p)
      BY DEF Ledger, Books, PhoneBook
    <3>2. /\ Cardinality(Made(p)) \in Nat /\ Cardinality(DueOn(p)) \in Nat
          /\ Cardinality(NewFor(p)) \in Nat /\ Cardinality(Users(p)) \in Nat
      BY <3>1, UsersFinite, FS_CardinalityType
    <3>3. Own(p) \in Nat
      BY DEF Own
    <3>4. phone_refs[p] \in Int
      BY <2>1 DEF Types
    <3> QED BY <3>1, <3>2, <3>3, <3>4, HoldersSum
  <2>4. phone_refs \in [Phones -> Nat]
    BY <2>1, <2>3 DEF Types
  <2> QED BY <2>1, <2>2, <2>4 DEF Types, TypeOK
<1> QED BY <1>1, LedgerAlways, PTL

\* No reference to a phone leaks, unless ipc_req_internal() is refused
\* (ipc_backsend_err() of a synchronous call, the only step that leaks one).
THEOREM PhoneLifetimeAlways == Spec /\ [][NoneRefused]_vars => []PhoneLifetime
<1>1. Ledger({"forgotten"}) => PhoneLifetime
  BY DEF Ledger, Books, PhoneBook, PhoneLifetime
<1> QED BY <1>1, LedgerUnlessRefused, PTL

\* phone->active_calls counts the calls whose answer is to be received: with
\* the same exception, each of ipc_call(), ipc_backsend_err(), the receipt of
\* an answer and ipc_forget_call() changes the counter exactly when it should.
THEOREM PhoneAccountingAlways == Spec /\ [][NoneRefused]_vars => []PhoneAccounting
<1>1. Ledger({"forgotten"}) => PhoneAccounting
  BY DEF Ledger, Books, PhoneBook, PhoneAccounting, DueOn, Due
<1> QED BY <1>1, LedgerUnlessRefused, PTL

\* answerbox_t.active_calls counts the answers the answerbox is expecting,
\* unless ipc_call_sync() forgets a call (ipc_forget_call() then decrements the
\* counter of another box, the only step that miscounts).
THEOREM BoxAccountingAlways == Spec /\ [][NoneForgotten]_vars => []BoxAccounting
<1>1. Ledger({"refused"}) => BoxAccounting
  BY DEF Ledger, Books, BoxBook, BoxAccounting, DueAt, Due
<1> QED BY <1>1, LedgerUnlessForgotten, PTL

-----------------------------------------------------------------------------
(* A task that is gone. *)

\* A system call of t goes on or ends: outside ipc_cleanup() it stays outside,
\* inside it returns to where it was called.
Onward(t) ==
    /\ \A u \in Threads : u # t => thr'[u] = thr[u]
    /\ thr[t].pc \in SyscallPCs /\ thr'[t].next \in {"user", thr[t].next}
    /\ thr'[t].pc \in SyscallPCs \cup {"exit", thr[t].next}

LEMMA RequestOnward ==
    ASSUME IInv, NEW t \in Threads, Request(t)
    PROVE  Onward(t) /\ thr[t].pc = "user"
<1>0. Types /\ thr \in [Threads -> ThreadType] /\ Shape(thr[t])
  BY HandFacts DEF IInv
<1>1. "user" \in SyscallPCs /\ (thr[t].pc = "user" => thr[t].next = "user")
  BY <1>0 DEF Shape, SyscallPCs
<1>2. ASSUME NEW p \in Phones, NEW c \in Calls,
             CallAsync(t, p, c) \/ CallSync(t, p, c) \/ \E q \in Phones : ConnectMeTo(t, p, c, q)
      PROVE  Onward(t) /\ thr[t].pc = "user"
  <2>1. thr[t].pc = "user"
    BY <1>2 DEF CallAsync, CallSync, ConnectMeTo
  <2> QED BY <1>0, <1>1, <1>2, <2>1, CallAsyncMove DEF Onward, SyscallPCs
<1>3. ASSUME NEW p \in Phones, NEW c \in AllCalls, Forward(t, c, p)
      PROVE  Onward(t) /\ thr[t].pc = "user"
  <2>1. thr[t].pc = "user"
    BY <1>3 DEF Forward
  <2> QED BY <1>0, <1>1, <1>3, <2>1, ForwardMove DEF Onward, SyscallPCs
<1>4. ASSUME NEW p \in Phones, SysHangup(t, p) PROVE Onward(t) /\ thr[t].pc = "user"
  <2>1. thr[t].pc = "user"
    BY <1>4 DEF SysHangup
  <2> QED BY <1>0, <1>1, <1>4, <2>1, SysHangupMove DEF Onward, SyscallPCs
<1>5. ASSUME NEW c \in AllCalls, (\E rv \in UserRetvals : Answer(t, c, rv)) \/ ForwardRefused(t, c)
      PROVE  Onward(t) /\ thr[t].pc = "user"
  <2>1. thr[t].pc = "user"
    BY <1>5 DEF Answer, ForwardRefused
  <2> QED BY <1>0, <1>1, <1>5, <2>1, AnswerMove DEF Onward, SyscallPCs
<1>6. CASE WaitForCall(t)
  <2>1. thr[t].pc = "user" /\ Goto(t, "wait") /\ "wait" \in PCs /\ "wait" \in SyscallPCs
    BY <1>6 DEF WaitForCall, PCs, SyscallPCs
  <2> QED BY <1>0, <1>1, <2>1, GotoFacts DEF Onward
<1>7. CASE Poke(t)
  BY <1>1, <1>7 DEF Poke, Onward
<1> QED BY <1>2, <1>3, <1>4, <1>5, <1>6, <1>7 DEF Request

LEMMA KernelGoes ==
    ASSUME NEW t \in Threads, KernelStep(t)
    PROVE  Return(t) \/ DequeueRequest(t) \/ \E pc \in SyscallPCs : Goto(t, pc)
BY DEF KernelStep, Send, SendRefused, Backsend, BacksendSync, Wakeup, WaitFails,
        DequeueAnswer, DequeueNothing, Publish, PublishFails, Preprocess,
        PreprocessForgotten, SlamCaller, Deliver, Discard, Wake, ForwardSend, ForwardFails,
        SyncReceive, SyncInterrupted, SyncForget, SyncAnswered, Unlist, SendHungup, HangupSlammed,
        SyscallPCs

LEMMA KernelOnward ==
    ASSUME IInv, NEW t \in Threads, KernelStep(t)
    PROVE  Onward(t) /\ thr[t].pc # "user"
<1>0. /\ thr \in [Threads -> ThreadType] /\ Shape(thr[t]) /\ Types /\ ListInv
      /\ SyscallPCs \subseteq PCs
  BY HandFacts DEF IInv, PCs
<1>1. thr[t].pc \in SyscallPCs \ {"user"}
  BY DEF KernelStep, Send, SendRefused, Backsend, BacksendSync, Wakeup, WaitFails,
        DequeueAnswer, DequeueRequest, DequeueNothing, Publish, PublishFails, Preprocess,
        PreprocessForgotten, SlamCaller, Deliver, Discard, Wake, ForwardSend, ForwardFails,
        SyncReceive, SyncInterrupted, SyncForget, SyncAnswered, Unlist, SendHungup, HangupSlammed,
        SyscallPCs
<1>2. CASE DequeueRequest(t)
  BY <1>0, <1>1, <1>2, DequeueMove DEF Onward, SyscallPCs
<1>3. CASE Return(t)
  BY <1>0, <1>1, <1>3, ReturnFacts DEF Onward, SyscallPCs
<1>4. ASSUME NEW pc \in SyscallPCs, Goto(t, pc) PROVE Onward(t)
  BY <1>0, <1>1, <1>4, GotoFacts DEF Onward
<1>5. Return(t) \/ DequeueRequest(t) \/ \E pc \in SyscallPCs : Goto(t, pc)
  BY KernelGoes
<1> QED BY <1>1, <1>2, <1>3, <1>4, <1>5

\* A request leaves the messages and the counters alone.
LEMMA RequestFrame ==
    ASSUME NEW t \in Threads, Request(t)
    PROVE  UNCHANGED <<box_active, box_active_calls, calls, answers, callee, callerbox>>
<1>1. ASSUME NEW p \in Phones, NEW c \in Calls, CallAsync(t, p, c) \/ CallSync(t, p, c)
      PROVE  UNCHANGED <<box_active, box_active_calls, calls, answers, callee, callerbox>>
  BY <1>1 DEF CallAsync, CallSync, box
<1>2. ASSUME NEW p \in Phones, NEW c \in Calls, NEW q \in Phones, ConnectMeTo(t, p, c, q)
      PROVE  UNCHANGED <<box_active, box_active_calls, calls, answers, callee, callerbox>>
  BY <1>2 DEF ConnectMeTo, box
<1>3. ASSUME NEW p \in Phones, (\E c \in AllCalls : Forward(t, c, p)) \/ SysHangup(t, p)
      PROVE  UNCHANGED <<box_active, box_active_calls, calls, answers, callee, callerbox>>
  BY <1>3 DEF Forward, SysHangup, box, call
<1>4. ASSUME NEW c \in AllCalls, (\E rv \in UserRetvals : Answer(t, c, rv)) \/ ForwardRefused(t, c)
      PROVE  UNCHANGED <<box_active, box_active_calls, calls, answers, callee, callerbox>>
  BY <1>4 DEF Answer, ForwardRefused, box, phone
<1>5. CASE WaitForCall(t) \/ Poke(t)
  BY <1>5 DEF WaitForCall, Poke, box, phone, call
<1> QED BY <1>1, <1>2, <1>3, <1>4, <1>5 DEF Request

\* A step of t changes, of the counters of expected answers, at most those of
\* its task and of t itself.
LEMMA OwnCounters ==
    ASSUME IInv, NEW t \in Threads, Request(t) \/ KernelStep(t) \/ CleanupStep(t)
    PROVE  \A k \in Tasks : k # TaskOf[t] => box_active_calls'[k] = box_active_calls[k]
<1>0. box_active_calls \in [Boxes -> Int] /\ TaskOf[t] \in Boxes /\ t \in Boxes
  BY HandFacts DEF IInv, Types
<1>1. ASSUME NEW b \in {t, TaskOf[t]}, NEW n,
             \/ box_active_calls' = Add(box_active_calls, b, n)
             \/ box_active_calls' = Add(FreeMybox(box_active_calls, t, 0), TaskOf[t], n)
             \/ box_active_calls' = box_active_calls
      PROVE  \A k \in Tasks : k # TaskOf[t] => box_active_calls'[k] = box_active_calls[k]
  BY <1>0, <1>1, Nones DEF Add, FreeMybox
<1>2. Request(t) => box_active_calls' = box_active_calls
  BY RequestFrame
<1>3. KernelStep(t) => \E b \in {t, TaskOf[t]}, n \in {1, -1} :
             \/ box_active_calls' = Add(box_active_calls, b, n)
             \/ box_active_calls' = Add(FreeMybox(box_active_calls, t, 0), TaskOf[t], n)
             \/ box_active_calls' = box_active_calls
  BY DEF KernelStep, Send, SendRefused, Backsend, BacksendSync, Wakeup, WaitFails,
        DequeueAnswer, DequeueRequest, DequeueNothing, Publish, PublishFails, Preprocess,
        PreprocessForgotten, SlamCaller, Deliver, Discard, Wake, ForwardSend, ForwardFails,
        SyncReceive, SyncInterrupted, SyncForget, SyncAnswered, Unlist, SendHungup, HangupSlammed,
        ReplyBox, ReceiveAnswer, ForgetCall, box
<1>4. CleanupStep(t) => \E b \in {t, TaskOf[t]}, n \in {1, -1} :
             \/ box_active_calls' = Add(box_active_calls, b, n)
             \/ box_active_calls' = box_active_calls
  BY DEF CleanupStep, Leave, Exit, HangAllDone, SlamDone, CleanupDone, ForgetAllDone, WaitAllDone,
         WaitAll, WaitAllAnswer, WaitAllNothing, WaitAllRequest, HangAll, SlamPhone, CleanupCalls,
         CleanupDispatched, ForgetAll, AnswerCall, ReceiveAnswer, ForgetCall, box
<1>5. 1 \in {1, -1} /\ t \in {t, TaskOf[t]}
  OBVIOUS
<1> QED BY <1>1, <1>2, <1>3, <1>4, <1>5, ZenonT(60)

\* A thread dies with its task only when no answer is expected.
Left == \A k \in Tasks : Gone(k) => box_active_calls[k] = 0

LEMMA DeadStep ==
    ASSUME IInv, NEW t \in Threads, Request(t) \/ KernelStep(t) \/ CleanupStep(t)
    PROVE  /\ thr[t].pc # "dead" /\ \A u \in Threads : u # t => thr'[u] = thr[u]
           /\ \A k \in Tasks : Gone(k)' /\ ~Gone(k) => k = TaskOf[t] /\ WaitAllDone(t)
           /\ \A k \in Tasks : Gone(k) => k # TaskOf[t] /\ Gone(k)'
<1>0. thr \in [Threads -> ThreadType] /\ Shape(thr[t]) /\ Types /\ ListInv
  BY HandFacts DEF IInv
<1>1. thr[t].pc # "dead" /\ \A u \in Threads : u # t => thr'[u] = thr[u]
  <2>1. Request(t) \/ KernelStep(t) => Onward(t)
    BY RequestOnward, KernelOnward
  <2>2. Onward(t) => thr[t].pc # "dead" /\ \A u \in Threads : u # t => thr'[u] = thr[u]
    BY DEF Onward, SyscallPCs
  <2>3. CleanupStep(t) => thr[t].pc # "dead"
    <3>1. CleanupCalls(t) \/ CleanupDone(t) \/ Leave(t) \/ Exit(t) => thr[t].pc # "dead"
      BY DEF CleanupCalls, CleanupDone, Leave, Exit
    <3>2. \A p \in Phones : HangAll(t, p) \/ SlamPhone(t, p) => thr[t].pc # "dead"
      BY DEF HangAll, SlamPhone
    <3>3. \A c \in AllCalls : CleanupDispatched(t, c) \/ ForgetAll(t, c) => thr[t].pc # "dead"
      BY DEF CleanupDispatched, ForgetAll
    <3>4. HangAllDone(t) \/ SlamDone(t) \/ ForgetAllDone(t) \/ WaitAllDone(t) => thr[t].pc # "dead"
      BY DEF HangAllDone, SlamDone, ForgetAllDone, WaitAllDone
    <3>5. WaitAll(t) \/ WaitAllAnswer(t) \/ WaitAllNothing(t) \/ WaitAllRequest(t) => thr[t].pc # "dead"
      BY DEF WaitAll, WaitAllAnswer, WaitAllNothing, WaitAllRequest
    <3> QED BY <3>1, <3>2, <3>3, <3>4, <3>5 DEF CleanupStep
  <2>4. CleanupStep(t) => \A u \in Threads : u # t => thr'[u] = thr[u]
    BY OthersStay
  <2> QED BY <2>1, <2>2, <2>3, <2>4
<1>2. ASSUME thr'[t].pc = "dead" PROVE Exit(t) \/ WaitAllDone(t)
  <2>1. CASE Request(t) \/ KernelStep(t)
    <3>1. Onward(t) /\ thr[t].next # "dead" /\ "dead" \notin SyscallPCs
      BY <1>0, <2>1, RequestOnward, KernelOnward DEF Shape, SyscallPCs
    <3> QED BY <1>2, <3>1 DEF Onward
  <2>2. ASSUME NEW pc \in PCs \ {"dead"}, Goto(t, pc) PROVE FALSE
    BY <1>0, <1>2, <2>2, GotoFacts
  <2>3. ASSUME NEW c \in AllCalls, CleanupDispatched(t, c) \/ ForgetAll(t, c) PROVE FALSE
    <3>1. AnswerCall(t, c) \/ thr' = thr
      BY <2>3 DEF CleanupDispatched, ForgetAll
    <3> QED BY <1>0, <1>1, <1>2, <3>1, AnswerCallMove
  <2>4. ASSUME NEW p \in Phones, HangAll(t, p) \/ SlamPhone(t, p) PROVE FALSE
    <3>1. HangAll(t, p) \/ thr' = thr
      BY <2>4 DEF SlamPhone
    <3> QED BY <1>0, <1>1, <1>2, <3>1, HangAllMove
  <2>5. ASSUME CleanupCalls(t) PROVE FALSE
    <3>1. PICK c \in AllCalls : AnswerCall(t, c)
      BY <1>0, <2>5, Nones, TakeFrom DEF CleanupCalls, Types, ListInv
    <3> QED BY <1>0, <1>2, <3>1, AnswerCallMove
  <2>6. ASSUME \/ Leave(t) \/ HangAllDone(t) \/ SlamDone(t) \/ CleanupDone(t) \/ ForgetAllDone(t)
               \/ WaitAll(t) \/ WaitAllAnswer(t) \/ WaitAllNothing(t) \/ WaitAllRequest(t)
        PROVE  \E pc \in PCs \ {"dead"} : Goto(t, pc)
    BY <2>6 DEF Leave, HangAllDone, SlamDone, CleanupDone, ForgetAllDone, WaitAll, WaitAllAnswer,
                WaitAllNothing, WaitAllRequest, PCs, CleanupPCs
  <2> QED BY <2>1, <2>2, <2>3, <2>4, <2>5, <2>6 DEF CleanupStep
<1>3. ASSUME NEW k \in Tasks, Gone(k)', ~Gone(k) PROVE k = TaskOf[t] /\ WaitAllDone(t)
  <2>1. PICK u \in Threads : TaskOf[u] = k /\ thr[u].pc # "dead"
    BY <1>3 DEF Gone
  <2>2. thr'[u].pc = "dead"
    BY <1>3, <2>1 DEF Gone
  <2>3. u = t
    BY <1>1, <2>1, <2>2
  <2>4. ASSUME Exit(t) PROVE FALSE
    <3> DEFINE last == \A v \in Threads \ {t} : TaskOf[v] = k => thr[v].pc = "dead"
    <3>1. Goto(t, IF last THEN "hang_all" ELSE "dead")
      BY <2>1, <2>3, <2>4 DEF Exit
    <3>2. last
      BY <1>1, <1>3 DEF Gone
    <3>3. Goto(t, "hang_all") /\ "hang_all" \in PCs
      BY <3>1, <3>2 DEF PCs, CleanupPCs
    <3>4. thr'[t].pc = "hang_all"
      BY <1>0, <3>3, GotoFacts
    <3> QED BY <2>2, <2>3, <3>4
  <2> QED BY <1>2, <2>1, <2>2, <2>3, <2>4
<1>4. ASSUME NEW k \in Tasks, Gone(k) PROVE k # TaskOf[t] /\ Gone(k)'
  <2>1. k # TaskOf[t]
    BY <1>1, <1>4 DEF Gone
  <2> QED BY <1>1, <1>4, <2>1 DEF Gone
<1> QED BY <1>1, <1>3, <1>4

LEMMA LeftStep == IInv /\ Left /\ [Next]_vars => Left'
<1> SUFFICES ASSUME IInv, Left, [Next]_vars, NEW k \in Tasks, Gone(k)'
             PROVE  box_active_calls'[k] = 0
  BY DEF Left
<1>1. ASSUME UNCHANGED <<thr, box_active_calls>> PROVE box_active_calls'[k] = 0
  BY <1>1 DEF Left, Gone
<1>2. CASE UNCHANGED vars
  BY <1>1, <1>2 DEF vars
<1>3. ASSUME NEW j \in Tasks, Kill(j) PROVE box_active_calls'[k] = 0
  BY <1>1, <1>3 DEF Kill, box
<1>4. ASSUME NEW t \in Threads, Request(t) \/ KernelStep(t) \/ CleanupStep(t)
      PROVE  box_active_calls'[k] = 0
  <2>1. CASE Gone(k)
    BY <1>4, <2>1, DeadStep, OwnCounters DEF Left
  <2>2. CASE ~Gone(k)
    <3>1. k = TaskOf[t] /\ WaitAllDone(t)
      BY <1>4, <2>2, DeadStep
    <3> QED BY <3>1 DEF WaitAllDone, box
  <2> QED BY <2>1, <2>2
<1> QED BY <1>2, <1>3, <1>4 DEF Next

LEMMA InitLeft == Init => Left
BY Nones DEF Init, Left

LEMMA LeftAlways == Spec => []Left
BY InitLeft, LeftStep, Invariance, PTL DEF Spec

\* No answer is in the box, or on its way, when the counter is zero.
LEMMA NoneDue ==
    ASSUME Ledger({"refused"}), NEW k \in Tasks, box_active_calls[k] = 0
    PROVE  DueAt(k) = {} /\ answers[k] = <<>>
<1>1. k \in Boxes /\ answers[k] \in Seq(AllCalls) /\ IInv
  BY Nones DEF Ledger, IInv, Types
<1>2. IsFiniteSet(DueAt(k)) /\ Cardinality(DueAt(k)) = 0
  BY <1>1 DEF Ledger, Books, BoxBook
<1>3. DueAt(k) = {}
  BY <1>2, FS_EmptySet
<1>4. ASSUME NEW c \in Elements(answers[k]) PROVE FALSE
  <2>1. c \in AllCalls /\ CallOK(c)
    BY <1>1, ElementsFacts DEF IInv, CallInv
  <2>2. callerbox[c] = k /\ ~forget[c]
    BY <1>1, <2>1, AnsweredCall DEF Answered
  <2>3. Outstanding(c)
    BY <1>1, <2>2 DEF Outstanding
  <2> QED BY <1>3, <2>1, <2>2, <2>3 DEF DueAt, Due
<1>5. Elements(answers[k]) = {}
  BY <1>4
<1> QED BY <1>1, <1>3, <1>5, ElementsFacts

\* A task that is gone expects no answer.
LEMMA GoneExpectsNone ==
    ASSUME Ledger({"refused"}), Left, NEW k \in Tasks, Gone(k)
    PROVE  DueAt(k) = {}
BY NoneDue DEF Left

\* ipc_wait_for_all_answered_calls() keeps its promise, unless ipc_call_sync()
\* forgets a call: when it returns, and the last thread of the task dies, no
\* answer is on its way to the answerbox that is freed next.
THEOREM AllAnswersArrivedAlways == Spec /\ [][NoneForgotten]_vars => []AllAnswersArrived
<1>1. Ledger({"refused"}) /\ Left => AllAnswersArrived
  <2> SUFFICES ASSUME Ledger({"refused"}), Left, NEW c \in AllCalls, NEW k \in Tasks,
                      Outstanding(c), callerbox[c] = k, Gone(k)
               PROVE  FALSE
    BY DEF AllAnswersArrived
  <2> QED BY GoneExpectsNone DEF DueAt, Due
<1> QED BY <1>1, LedgerUnlessForgotten, LeftAlways, PTL

-----------------------------------------------------------------------------
(* The requests of a task that cleans up. *)

\* The kernel has answered what was in box->calls.
Drained(x) ==
    \/ x.next \in {"dispatched", "rehang"}
    \/ x.pc \in {"dispatched", "forget_all", "wait_all", "dequeue_all", "rehang", "panic"}

\* No phone leads to task k, so that nobody can send it a request.
Unreachable(k) == \A p \in Phones : state[p] = "CONNECTED" => callee[p] # k

\* A connected phone is in the list of its callee, or somebody is hanging it up.
Tied == \A p \in Phones : state[p] = "CONNECTED" => linked[p] \/ lock[p] # None

ShutInv ==
    /\ Tied
    /\ \A t \in Threads : /\ Cleaning(thr[t]) => ~box_active[TaskOf[t]]
                          /\ Late(thr[t]) => Unreachable(TaskOf[t])
                          /\ Drained(thr[t]) => calls[TaskOf[t]] = <<>>
                          /\ thr[t].pc # "panic"

\* No task slams the phones in its list while somebody hangs up a phone that
\* leads to it (ipc_hangup_race): ipc_phone_hangup() has taken that phone off
\* the list and has not yet sent IPC_M_PHONE_HUNGUP.
NoHangupRace ==
    \A t \in Threads : SlamDone(t) =>
        \A u \in Threads : thr[u].pc = "hungup" => callee[thr[u].phone] # TaskOf[t]

\* A step of t connects no phone but to its own task, whose box is active, and
\* only in answer_preprocess().
Connects(t) ==
    \A p \in Phones : state'[p] = "CONNECTED" =>
        \/ state[p] = "CONNECTED" /\ callee'[p] = callee[p]
        \/ callee'[p] = TaskOf[t] /\ box_active[TaskOf[t]] /\ thr[t].pc = "preprocess"

LEMMA RequestTies ==
    ASSUME IInv, Tied, NEW t \in Threads, Request(t)
    PROVE  Tied' /\ Connects(t)
<1>1. ASSUME UNCHANGED <<state, lock, linked, callee>> PROVE Tied' /\ Connects(t)
  BY <1>1 DEF Tied, Connects
<1>2. ASSUME NEW p \in Phones, NEW c \in Calls, CallAsync(t, p, c) \/ CallSync(t, p, c)
      PROVE  Tied' /\ Connects(t)
  BY <1>1, <1>2 DEF CallAsync, CallSync
<1>3. ASSUME NEW p \in Phones, NEW c \in Calls, NEW q \in Phones, ConnectMeTo(t, p, c, q)
      PROVE  Tied' /\ Connects(t)
  <2>1. /\ UNCHANGED <<lock, linked, callee>> /\ state' = [state EXCEPT ![q] = "CONNECTING"]
        /\ state \in [Phones -> PhoneStates]
    BY <1>3 DEF ConnectMeTo, IInv, Types
  <2>2. \A r \in Phones : state'[r] = "CONNECTED" => state[r] = "CONNECTED"
    BY <2>1
  <2> QED BY <2>1, <2>2 DEF Tied, Connects
<1>4. ASSUME NEW p \in Phones, (\E c \in AllCalls : Forward(t, c, p)) \/ SysHangup(t, p)
      PROVE  Tied' /\ Connects(t)
  BY <1>1, <1>4 DEF Forward, SysHangup
<1>5. ASSUME NEW c \in AllCalls, (\E rv \in UserRetvals : Answer(t, c, rv)) \/ ForwardRefused(t, c)
      PROVE  Tied' /\ Connects(t)
  BY <1>1, <1>5 DEF Answer, ForwardRefused, phone
<1>6. CASE WaitForCall(t) \/ Poke(t)
  BY <1>1, <1>6 DEF WaitForCall, Poke, phone
<1> QED BY <1>2, <1>3, <1>4, <1>5, <1>6 DEF Request

LEMMA KernelTies ==
    ASSUME IInv, Tied, NEW t \in Threads, KernelStep(t)
    PROVE  Tied' /\ Connects(t)
<1>0. /\ state \in [Phones -> PhoneStates] /\ linked \in [Phones -> BOOLEAN]
      /\ lock \in [Phones -> Threads \cup {None}] /\ callee \in [Phones -> Tasks \cup {None}]
      /\ t # None
  BY Nones DEF IInv, Types
<1>1. ASSUME UNCHANGED <<state, lock, linked, callee>> PROVE Tied' /\ Connects(t)
  BY <1>1 DEF Tied, Connects
<1>2. ASSUME NEW q, callee' = callee, lock' = lock \/ lock' = [lock EXCEPT ![q] = None],
             linked' = linked \/ linked' = [linked EXCEPT ![q] = FALSE],
             NEW s \in {"SLAMMED", "HUNGUP"}, state' = [state EXCEPT ![q] = s]
      PROVE  Tied' /\ Connects(t)
  <2>1. ASSUME NEW p \in Phones, state'[p] = "CONNECTED"
        PROVE  p # q /\ state[p] = "CONNECTED" /\ linked'[p] = linked[p] /\ lock'[p] = lock[p]
    BY <1>0, <1>2, <2>1
  <2> QED BY <1>2, <2>1 DEF Tied, Connects
<1>3. CASE Preprocess(t)
  <2> DEFINE q == priv[thr[t].call]
  <2>1. \/ UNCHANGED <<state, lock, linked, callee>>
        \/ /\ state' = [state EXCEPT ![q] = "CONNECTED"] /\ callee' = [callee EXCEPT ![q] = TaskOf[t]]
           /\ linked' = [linked EXCEPT ![q] = TRUE] /\ lock' = lock /\ box_active[TaskOf[t]]
           /\ thr[t].pc = "preprocess"
    BY <1>3 DEF Preprocess
  <2> HIDE DEF q
  <2>2. ASSUME state' = [state EXCEPT ![q] = "CONNECTED"], callee' = [callee EXCEPT ![q] = TaskOf[t]],
               linked' = [linked EXCEPT ![q] = TRUE], lock' = lock, box_active[TaskOf[t]],
               thr[t].pc = "preprocess"
        PROVE  Tied' /\ Connects(t)
    <3>1. ASSUME NEW p \in Phones, p # q
          PROVE  state'[p] = state[p] /\ callee'[p] = callee[p] /\ linked'[p] = linked[p]
      BY <1>0, <2>2, <3>1
    <3>2. q \in Phones => callee'[q] = TaskOf[t] /\ linked'[q]
      BY <1>0, <2>2
    <3> QED BY <2>2, <3>1, <3>2 DEF Tied, Connects
  <2> QED BY <1>1, <2>1, <2>2
<1>4. CASE SlamCaller(t)
  <2> DEFINE q == caller_phone[thr[t].call]
  <2>1. \/ UNCHANGED <<state, lock, linked, callee>>
        \/ /\ state' = [state EXCEPT ![q] = "SLAMMED"] /\ callee' = callee
           /\ linked' = [linked EXCEPT ![q] = FALSE] /\ lock' = lock
    BY <1>4 DEF SlamCaller
  <2> HIDE DEF q
  <2> QED BY <1>1, <1>2, <2>1
<1>5. CASE Unlist(t)
  <2> DEFINE q == thr[t].phone
  <2>1. /\ state' = state /\ callee' = callee
        /\ linked' = [linked EXCEPT ![q] = FALSE] /\ lock' = [lock EXCEPT ![q] = t]
    BY <1>5 DEF Unlist
  <2> HIDE DEF q
  <2>2. \A p \in Phones : IF p = q THEN lock'[p] # None
                          ELSE lock'[p] = lock[p] /\ linked'[p] = linked[p]
    BY <1>0, <2>1
  <2> QED BY <2>1, <2>2 DEF Tied, Connects
<1>6. CASE SendHungup(t)
  <2> DEFINE q == thr[t].phone
  <2>1. /\ state' = [state EXCEPT ![q] = "HUNGUP"] /\ callee' = callee
        /\ linked' = linked /\ lock' = [lock EXCEPT ![q] = None]
    BY <1>6 DEF SendHungup
  <2> HIDE DEF q
  <2> QED BY <1>2, <2>1
<1>7. CASE HangupSlammed(t)
  <2> DEFINE q == thr[t].phone
  <2>1. /\ state' = [state EXCEPT ![q] = IF @ = "SLAMMED" THEN "HUNGUP" ELSE @]
        /\ UNCHANGED <<callee, linked, lock>>
    BY <1>7 DEF HangupSlammed
  <2> HIDE DEF q
  <2>2. \A p \in Phones : state'[p] = "CONNECTED" => state[p] = "CONNECTED"
    BY <1>0, <2>1
  <2> QED BY <2>1, <2>2 DEF Tied, Connects
<1>8. CASE \/ Send(t) \/ SendRefused(t) \/ Backsend(t) \/ BacksendSync(t)
           \/ Wakeup(t) \/ WaitFails(t) \/ DequeueAnswer(t) \/ DequeueRequest(t)
           \/ DequeueNothing(t) \/ Publish(t) \/ PublishFails(t) \/ PreprocessForgotten(t)
           \/ Deliver(t) \/ Discard(t) \/ Wake(t) \/ ForwardSend(t) \/ ForwardFails(t)
           \/ SyncReceive(t) \/ SyncInterrupted(t) \/ SyncForget(t) \/ SyncAnswered(t)
  BY <1>1, <1>8 DEF Send, SendRefused, Backsend, BacksendSync, Wakeup, WaitFails, DequeueAnswer,
        DequeueRequest, DequeueNothing, Publish, PublishFails, PreprocessForgotten, Deliver,
        Discard, Wake, ForwardSend, ForwardFails, SyncReceive, SyncInterrupted, SyncForget,
        SyncAnswered, phone
<1> QED BY <1>3, <1>4, <1>5, <1>6, <1>7, <1>8 DEF KernelStep

LEMMA CleanupTies ==
    ASSUME IInv, Tied, NEW t \in Threads, CleanupStep(t)
    PROVE  Tied' /\ Connects(t)
<1>1. ASSUME UNCHANGED <<state, lock, linked, callee>> PROVE Tied' /\ Connects(t)
  BY <1>1 DEF Tied, Connects
<1>2. ASSUME NEW q \in Phones, SlamPhone(t, q) PROVE Tied' /\ Connects(t)
  <2>1. /\ state' = [state EXCEPT ![q] = "SLAMMED"] /\ UNCHANGED <<callee, lock>>
        /\ linked' = [linked EXCEPT ![q] = FALSE]
        /\ state \in [Phones -> PhoneStates] /\ linked \in [Phones -> BOOLEAN]
    BY <1>2 DEF SlamPhone, IInv, Types
  <2>2. ASSUME NEW p \in Phones, state'[p] = "CONNECTED"
        PROVE  state[p] = "CONNECTED" /\ linked'[p] = linked[p]
    BY <2>1, <2>2
  <2> QED BY <2>1, <2>2 DEF Tied, Connects
<1>3. ASSUME NEW q \in Phones, HangAll(t, q) PROVE Tied' /\ Connects(t)
  BY <1>1, <1>3 DEF HangAll
<1>4. ASSUME NEW c \in AllCalls, CleanupDispatched(t, c) \/ ForgetAll(t, c)
      PROVE  Tied' /\ Connects(t)
  BY <1>1, <1>4 DEF CleanupDispatched, ForgetAll, AnswerCall, phone
<1>5. CASE \/ Leave(t) \/ Exit(t) \/ HangAllDone(t) \/ SlamDone(t) \/ CleanupCalls(t)
           \/ CleanupDone(t) \/ ForgetAllDone(t) \/ WaitAllDone(t) \/ WaitAll(t)
           \/ WaitAllAnswer(t) \/ WaitAllNothing(t) \/ WaitAllRequest(t)
  BY <1>1, <1>5 DEF Leave, Exit, HangAllDone, SlamDone, CleanupCalls, CleanupDone, ForgetAllDone,
        WaitAllDone, WaitAll, WaitAllAnswer, WaitAllNothing, WaitAllRequest, AnswerCall, phone
<1> QED BY <1>2, <1>3, <1>4, <1>5 DEF CleanupStep

\* A step puts a request only in the box of a task that some phone leads to.
LEMMA RequestsArrive ==
    ASSUME IInv, NEW t \in Threads, Request(t) \/ KernelStep(t) \/ CleanupStep(t),
           NEW k \in Tasks, calls[k] = <<>>, Unreachable(k)
    PROVE  calls'[k] = <<>>
<1>0. calls \in [Tasks -> Seq(AllCalls)]
  BY DEF IInv, Types
<1>1. ASSUME NEW p \in Phones, state[p] = "CONNECTED", NEW c,
             calls' = [calls EXCEPT ![callee[p]] = Append(@, c)]
      PROVE  calls'[k] = <<>>
  BY <1>0, <1>1 DEF Unreachable
<1>2. ASSUME NEW j, calls[j] # <<>>, calls' = [calls EXCEPT ![j] = Tail(@)]
      PROVE  calls'[k] = <<>>
  BY <1>0, <1>2
<1>3. CASE Request(t)
  BY <1>3, RequestFrame
<1>4. CASE Send(t) \/ ForwardSend(t) \/ SendHungup(t)
  <2>1. thr[t].pc \in PhonePCs /\ (thr[t].pc = "hungup" \/ state[thr[t].phone] = "CONNECTED")
    BY <1>4 DEF Send, ForwardSend, SendHungup, PhonePCs
  <2>2. PICK p \in Phones : p = thr[t].phone /\ state[p] = "CONNECTED"
    BY <2>1, HandPhone
  <2>3. \E c : calls' = [calls EXCEPT ![callee[p]] = Append(@, c)]
    BY <1>4, <2>2 DEF Send, ForwardSend, SendHungup
  <2> QED BY <1>1, <2>2, <2>3
<1>5. CASE DequeueRequest(t) \/ CleanupCalls(t) \/ WaitAllRequest(t)
  BY <1>2, <1>5 DEF DequeueRequest, CleanupCalls, WaitAllRequest
<1>6. CASE \/ SendRefused(t) \/ Backsend(t) \/ BacksendSync(t)
           \/ Wakeup(t) \/ WaitFails(t) \/ DequeueAnswer(t)
           \/ DequeueNothing(t) \/ Publish(t) \/ PublishFails(t) \/ PreprocessForgotten(t)
           \/ Deliver(t) \/ Discard(t) \/ Wake(t) \/ ForwardFails(t)
           \/ SyncReceive(t) \/ SyncInterrupted(t) \/ SyncForget(t) \/ SyncAnswered(t)
           \/ Preprocess(t) \/ SlamCaller(t) \/ Unlist(t) \/ HangupSlammed(t)
  <2>1. calls' = calls
    BY <1>6 DEF SendRefused, Backsend, BacksendSync, Wakeup, WaitFails, DequeueAnswer,
        DequeueNothing, Publish, PublishFails, PreprocessForgotten, Deliver, Discard, Wake,
        ForwardFails, SyncReceive, SyncInterrupted, SyncForget, SyncAnswered, Preprocess,
        SlamCaller, Unlist, HangupSlammed, box
  <2> QED BY <2>1
<1>7. CASE \/ Leave(t) \/ Exit(t) \/ HangAllDone(t) \/ SlamDone(t)
           \/ (\E p \in Phones : HangAll(t, p) \/ SlamPhone(t, p))
           \/ CleanupDone(t) \/ ForgetAllDone(t)
           \/ (\E c \in AllCalls : CleanupDispatched(t, c) \/ ForgetAll(t, c))
           \/ WaitAllDone(t) \/ WaitAll(t) \/ WaitAllAnswer(t) \/ WaitAllNothing(t)
  <2>1. calls' = calls
    BY <1>7 DEF Leave, Exit, HangAllDone, SlamDone, HangAll, SlamPhone, CleanupDone, ForgetAllDone,
        CleanupDispatched, ForgetAll, WaitAllDone, WaitAll, WaitAllAnswer, WaitAllNothing, box
  <2> QED BY <2>1
<1> QED BY <1>3, <1>4, <1>5, <1>6, <1>7 DEF KernelStep, CleanupStep

\* Where a thread goes in ipc_cleanup().
LEMMA CleanupMoves ==
    ASSUME IInv, NEW t \in Threads, CleanupStep(t)
    PROVE  /\ \A u \in Threads : u # t => thr'[u] = thr[u]
           /\ Cleaning(thr'[t]) => Cleaning(thr[t]) \/ (Exit(t) /\ ~box_active'[TaskOf[t]])
           /\ Late(thr'[t]) => Late(thr[t]) \/ SlamDone(t)
           /\ Drained(thr'[t]) => Drained(thr[t]) \/ (thr[t].pc = "calls" /\ calls[TaskOf[t]] = <<>>)
           /\ thr'[t].pc = "panic" => WaitAllRequest(t) \/ thr[t].pc = "panic"
<1> DEFINE Goal == /\ Cleaning(thr'[t]) => Cleaning(thr[t]) \/ (Exit(t) /\ ~box_active'[TaskOf[t]])
                   /\ Late(thr'[t]) => Late(thr[t]) \/ SlamDone(t)
                   /\ Drained(thr'[t]) => Drained(thr[t]) \/ (thr[t].pc = "calls" /\ calls[TaskOf[t]] = <<>>)
                   /\ thr'[t].pc = "panic" => WaitAllRequest(t) \/ thr[t].pc = "panic"
<1> SUFFICES Goal
  BY OthersStay
<1>0. /\ thr \in [Threads -> ThreadType] /\ Shape(thr[t]) /\ Types /\ ListInv
      /\ CleanupPCs \subseteq PCs /\ TaskOf[t] \in Tasks
  BY HandFacts DEF IInv, PCs
<1>1. ASSUME NEW pc \in CleanupPCs, Goto(t, pc)
      PROVE  thr'[t].pc = pc /\ thr'[t].next = thr[t].next
  BY <1>0, <1>1, GotoFacts
<1>2. CASE Leave(t) \/ HangAllDone(t) \/ SlamDone(t) \/ CleanupDone(t) \/ ForgetAllDone(t)
  <2>1. PICK pc \in CleanupPCs :
           /\ Goto(t, pc)
           /\ \/ thr[t].pc = "user" /\ pc = "exit"
              \/ thr[t].pc = "hang_all" /\ pc = "slam_all"
              \/ thr[t].pc = "rehang" /\ pc = "forget_all"
              \/ thr[t].pc = "slam_all" /\ pc = "calls" /\ SlamDone(t)
              \/ thr[t].pc = "calls" /\ pc = "dispatched" /\ calls[TaskOf[t]] = <<>>
              \/ thr[t].pc = "dispatched" /\ pc = "forget_all"
              \/ thr[t].pc = "forget_all" /\ pc = "wait_all"
    BY <1>2 DEF Leave, HangAllDone, SlamDone, CleanupDone, ForgetAllDone, CleanupPCs
  <2> QED BY <1>1, <2>1 DEF Cleaning, Late, Drained, CleanupPCs
<1>3. CASE \/ WaitAllDone(t) \/ WaitAll(t) \/ WaitAllAnswer(t) \/ WaitAllNothing(t)
           \/ WaitAllRequest(t)
  <2>1. PICK pc \in CleanupPCs :
           /\ Goto(t, pc)
           /\ thr[t].pc \in {"wait_all", "dequeue_all"} /\ (pc = "panic" => WaitAllRequest(t))
           /\ pc \in {"dead", "dequeue_all", "rehang", "wait_all", "panic"}
    BY <1>3 DEF WaitAllDone, WaitAll, WaitAllAnswer, WaitAllNothing, WaitAllRequest, CleanupPCs
  <2> QED BY <1>1, <2>1 DEF Cleaning, Late, Drained, CleanupPCs
<1>4. CASE Exit(t)
  <2> DEFINE last == \A u \in Threads \ {t} : TaskOf[u] = TaskOf[t] => thr[u].pc = "dead"
  <2>1. /\ box_active' = [box_active EXCEPT ![TaskOf[t]] = @ /\ ~last]
        /\ Goto(t, IF last THEN "hang_all" ELSE "dead") /\ thr[t].pc = "exit"
    BY <1>4 DEF Exit
  <2> HIDE DEF last
  <2>2. box_active \in [Tasks -> BOOLEAN] /\ "hang_all" \in CleanupPCs /\ "dead" \in CleanupPCs
    BY <1>0 DEF Types, CleanupPCs
  <2>3. CASE last
    <3>1. thr'[t].pc = "hang_all" /\ thr'[t].next = thr[t].next
      BY <1>1, <2>1, <2>2, <2>3
    <3>2. ~box_active'[TaskOf[t]]
      BY <1>0, <2>1, <2>2, <2>3
    <3> QED BY <1>4, <3>1, <3>2 DEF Cleaning, Late, Drained, CleanupPCs
  <2>4. CASE ~last
    <3>1. thr'[t].pc = "dead" /\ thr'[t].next = thr[t].next
      BY <1>1, <2>1, <2>2, <2>4
    <3> QED BY <3>1 DEF Cleaning, Late, Drained, CleanupPCs
  <2> QED BY <2>3, <2>4
<1>5. ASSUME thr' = thr PROVE Goal
  BY <1>5
<1>6. ASSUME NEW c \in AllCalls, AnswerCall(t, c), thr[t].pc \in {"calls", "dispatched"} PROVE Goal
  <2>1. thr'[t].pc = "preprocess" /\ thr'[t].next = thr[t].pc
    BY <1>0, <1>6, AnswerCallMove
  <2> QED BY <1>6, <2>1 DEF Cleaning, Late, Drained, CleanupPCs
<1>7. ASSUME NEW p \in Phones, HangAll(t, p) PROVE Goal
  <2>1. thr'[t].pc = "hangup" /\ thr'[t].next = thr[t].pc /\ thr[t].pc \in {"hang_all", "rehang"}
    BY <1>0, <1>7, HangAllMove DEF HangAll
  <2> QED BY <2>1 DEF Cleaning, Late, Drained, CleanupPCs
<1>8. ASSUME CleanupCalls(t) PROVE Goal
  <2>1. thr[t].pc = "calls" /\ AnswerCall(t, Head(calls[TaskOf[t]])) /\ Head(calls[TaskOf[t]]) \in AllCalls
    BY <1>0, <1>8, TakeFrom DEF CleanupCalls, Types, ListInv
  <2>2. PICK c \in AllCalls : AnswerCall(t, c)
    BY <2>1
  <2>3. thr[t].pc \in {"calls", "dispatched"}
    BY <2>1
  <2> HIDE DEF Goal
  <2> QED BY <1>6, <2>2, <2>3
<1>9. ASSUME NEW c \in AllCalls, CleanupDispatched(t, c) \/ ForgetAll(t, c) PROVE Goal
  <2>1. thr' = thr \/ (AnswerCall(t, c) /\ thr[t].pc = "dispatched")
    BY <1>9 DEF CleanupDispatched, ForgetAll
  <2> QED BY <1>5, <1>6, <2>1
<1>10. ASSUME NEW p \in Phones, SlamPhone(t, p) PROVE thr' = thr
  BY <1>10 DEF SlamPhone
<1> HIDE DEF Goal
<1> QED BY <1>2, <1>3, <1>4, <1>5, <1>7, <1>8, <1>9, <1>10 DEF CleanupStep

LEMMA OnwardMoves ==
    ASSUME IInv, NEW t \in Threads, Onward(t)
    PROVE  /\ Cleaning(thr'[t]) => Cleaning(thr[t])
           /\ Late(thr'[t]) => Late(thr[t])
           /\ Drained(thr'[t]) => Drained(thr[t])
           /\ thr'[t].pc # "panic"
<1>1. Shape(thr[t])
  BY HandFacts
<1> QED BY <1>1 DEF Onward, Shape, Cleaning, Late, Drained, SyscallPCs, CleanupPCs

LEMMA DrainedIsLate == \A x : (Drained(x) => Late(x)) /\ (Late(x) => Cleaning(x))
BY LateCleans DEF Drained, Late, CleanupPCs

\* Boxes only become inactive.
LEMMA BoxesClose ==
    ASSUME IInv, NEW t \in Threads, Request(t) \/ KernelStep(t) \/ CleanupStep(t), NEW k \in Tasks
    PROVE  box_active'[k] => box_active[k]
<1>1. box_active' = box_active \/ Exit(t)
  <2>1. Request(t) => box_active' = box_active
    BY RequestFrame
  <2>2. KernelStep(t) => box_active' = box_active
    BY DEF KernelStep, Send, SendRefused, Backsend, BacksendSync, Wakeup, WaitFails,
        DequeueAnswer, DequeueRequest, DequeueNothing, Publish, PublishFails, Preprocess,
        PreprocessForgotten, SlamCaller, Deliver, Discard, Wake, ForwardSend, ForwardFails,
        SyncReceive, SyncInterrupted, SyncForget, SyncAnswered, Unlist, SendHungup, HangupSlammed, box
  <2>3. CleanupStep(t) => box_active' = box_active \/ Exit(t)
    BY DEF CleanupStep, Leave, HangAllDone, SlamDone, CleanupDone, ForgetAllDone, WaitAllDone,
         WaitAll, WaitAllAnswer, WaitAllNothing, WaitAllRequest, HangAll, SlamPhone, CleanupCalls,
         CleanupDispatched, ForgetAll, AnswerCall, box
  <2> QED BY <2>1, <2>2, <2>3
<1>2. ASSUME Exit(t) PROVE box_active'[k] => box_active[k]
  <2> DEFINE last == \A u \in Threads \ {t} : TaskOf[u] = TaskOf[t] => thr[u].pc = "dead"
  <2>1. box_active' = [box_active EXCEPT ![TaskOf[t]] = @ /\ ~last] /\ box_active \in [Tasks -> BOOLEAN]
    BY <1>2 DEF Exit, IInv, Types
  <2> HIDE DEF last
  <2> QED BY <2>1, Zenon
<1> QED BY <1>1, <1>2

LEMMA ShutThreads ==
    ASSUME IInv, ShutInv, NEW t \in Threads, Request(t) \/ KernelStep(t) \/ CleanupStep(t),
           Tied', Connects(t), NoHangupRace
    PROVE  ShutInv'
<1> SUFFICES ASSUME NEW u \in Threads
             PROVE  /\ Cleaning(thr'[u]) => ~box_active'[TaskOf[u]]
                    /\ Late(thr'[u]) => Unreachable(TaskOf[u])'
                    /\ Drained(thr'[u]) => calls'[TaskOf[u]] = <<>>
                    /\ thr'[u].pc # "panic"
  BY DEF ShutInv
<1>0. TaskOf[u] \in Tasks /\ TaskOf[t] \in Tasks
  BY Nones
<1>1. /\ Cleaning(thr[u]) => ~box_active[TaskOf[u]]
      /\ Late(thr[u]) => Unreachable(TaskOf[u])
      /\ Drained(thr[u]) => calls[TaskOf[u]] = <<>>
      /\ thr[u].pc # "panic"
  BY DEF ShutInv
<1>2. ASSUME Unreachable(TaskOf[u]), ~box_active[TaskOf[u]] PROVE Unreachable(TaskOf[u])'
  <2> SUFFICES ASSUME NEW p \in Phones, state'[p] = "CONNECTED", callee'[p] = TaskOf[u] PROVE FALSE
    BY DEF Unreachable
  <2>1. \/ state[p] = "CONNECTED" /\ callee'[p] = callee[p]
        \/ callee'[p] = TaskOf[t] /\ box_active[TaskOf[t]]
    BY DEF Connects
  <2> QED BY <1>2, <2>1 DEF Unreachable
<1>3. ASSUME Late(thr[u]) PROVE Unreachable(TaskOf[u])'
  <2>1. Cleaning(thr[u])
    BY <1>3, DrainedIsLate
  <2> QED BY <1>1, <1>2, <1>3, <2>1
<1>4. ASSUME Drained(thr[u]) PROVE calls'[TaskOf[u]] = <<>>
  <2>1. Late(thr[u])
    BY <1>4, DrainedIsLate
  <2> QED BY <1>0, <1>1, <1>4, <2>1, RequestsArrive
<1>5. Cleaning(thr[u]) => ~box_active'[TaskOf[u]]
  BY <1>0, <1>1, BoxesClose
<1>6. CASE u # t
  <2>1. thr'[u] = thr[u]
    BY <1>6, DeadStep
  <2> QED BY <1>1, <1>3, <1>4, <1>5, <2>1
<1>7. CASE u = t /\ (Request(t) \/ KernelStep(t))
  <2>1. Onward(t)
    BY <1>7, RequestOnward, KernelOnward
  <2>2. /\ Cleaning(thr'[t]) => Cleaning(thr[t])
        /\ Late(thr'[t]) => Late(thr[t])
        /\ Drained(thr'[t]) => Drained(thr[t])
        /\ thr'[t].pc # "panic"
    BY <2>1, OnwardMoves
  <2> QED BY <1>3, <1>4, <1>5, <1>7, <2>2
<1>8. CASE u = t /\ CleanupStep(t)
  <2>1. /\ Cleaning(thr'[t]) => Cleaning(thr[t]) \/ (Exit(t) /\ ~box_active'[TaskOf[t]])
        /\ Late(thr'[t]) => Late(thr[t]) \/ SlamDone(t)
        /\ Drained(thr'[t]) => Drained(thr[t]) \/ (thr[t].pc = "calls" /\ calls[TaskOf[t]] = <<>>)
        /\ thr'[t].pc = "panic" => WaitAllRequest(t) \/ thr[t].pc = "panic"
    BY <1>8, CleanupMoves
  <2>2. ASSUME SlamDone(t) PROVE Unreachable(TaskOf[t])'
    <3>1. /\ thr[t].pc = "slam_all" /\ \A p \in Phones : ~(linked[p] /\ callee[p] = TaskOf[t])
      BY <2>2 DEF SlamDone
    <3>2. ASSUME NEW p \in Phones, state[p] = "CONNECTED", callee[p] = TaskOf[t] PROVE FALSE
      <4>1. lock[p] # None
        BY <3>1, <3>2 DEF ShutInv, Tied
      <4>2. lock[p] \in Threads /\ thr[lock[p]].pc = "hungup" /\ thr[lock[p]].phone = p
        BY <4>1, LockFacts
      <4> QED BY <2>2, <3>2, <4>2 DEF NoHangupRace
    <3>3. Cleaning(thr[t])
      BY <3>1 DEF Cleaning, CleanupPCs
    <3> QED BY <1>1, <1>2, <1>8, <3>2, <3>3 DEF Unreachable
  <2>3. ASSUME thr[t].pc = "calls", calls[TaskOf[t]] = <<>> PROVE calls'[TaskOf[t]] = <<>>
    <3>1. Late(thr[t])
      BY <2>3 DEF Late, CleanupPCs
    <3> QED BY <1>0, <1>1, <1>8, <2>3, <3>1, RequestsArrive
  <2>4. ASSUME WaitAllRequest(t) PROVE FALSE
    <3>1. Drained(thr[t]) /\ calls[TaskOf[t]] # <<>>
      BY <2>4 DEF WaitAllRequest, Drained
    <3> QED BY <1>1, <1>8, <3>1
  <2> QED BY <1>1, <1>3, <1>4, <1>5, <1>8, <2>1, <2>2, <2>3, <2>4
<1> QED BY <1>6, <1>7, <1>8

LEMMA ShutStep == IInv /\ ShutInv /\ [Next /\ NoHangupRace]_vars => ShutInv'
<1> SUFFICES ASSUME IInv, ShutInv, [Next /\ NoHangupRace]_vars PROVE ShutInv'
  OBVIOUS
<1>1. ASSUME UNCHANGED <<state, lock, linked, callee, box_active, calls, thr>> PROVE ShutInv'
  BY <1>1 DEF ShutInv, Tied, Unreachable
<1>2. CASE UNCHANGED vars
  BY <1>1, <1>2 DEF vars
<1>3. ASSUME NEW j \in Tasks, Kill(j) PROVE ShutInv'
  BY <1>1, <1>3 DEF Kill, box, phone
<1>4. ASSUME NEW t \in Threads, Request(t) \/ KernelStep(t) \/ CleanupStep(t), NoHangupRace
      PROVE  ShutInv'
  <2>1. Tied
    BY DEF ShutInv
  <2>2. Tied' /\ Connects(t)
    BY <1>4, <2>1, RequestTies, KernelTies, CleanupTies
  <2> QED BY <1>4, <2>2, ShutThreads
<1> QED BY <1>2, <1>3, <1>4 DEF Next

LEMMA InitShut == Init => ShutInv
<1> SUFFICES ASSUME Init PROVE ShutInv
  OBVIOUS
<1>1. \A t \in Threads : thr[t].pc = "user" /\ thr[t].next = "user"
  BY UserFacts DEF Init
<1>2. Tied
  BY DEF Init, Tied
<1> QED BY <1>1, <1>2 DEF ShutInv, Cleaning, Late, Drained, CleanupPCs

LEMMA ShutAlways == Spec /\ [][NoHangupRace]_vars => []ShutInv
<1>1. [Next]_vars /\ [NoHangupRace]_vars => [Next /\ NoHangupRace]_vars
  OBVIOUS
<1> QED BY <1>1, InitShut, ShutStep, Invariance, PTL DEF Spec

\* Once phones are slammed and calls answered, ipc_cleanup() receives answers
\* only, and its assertion holds, unless ipc_answerbox_slam_phones() finishes
\* while another task is in the middle of ipc_phone_hangup(): no other order of
\* sending, forwarding, connecting and hanging up leads to the failed assertion.
THEOREM CleanupGetsAnswersOnlyAlways ==
    Spec /\ [][NoHangupRace]_vars => []CleanupGetsAnswersOnly
<1>1. ShutInv => CleanupGetsAnswersOnly
  BY DEF ShutInv, CleanupGetsAnswersOnly
<1> QED BY <1>1, ShutAlways, PTL

-----------------------------------------------------------------------------
(* The answerbox of a task that is gone. *)

\* Without spare wakeups, an empty box has none, stored or on its way.
LEMMA NoneOnTheWay ==
    ASSUME Types, NEW k \in Tasks, Awaited(k, TRUE), calls[k] = <<>>, answers[k] = <<>>
    PROVE  \A t \in Threads : ~Token(t, k)
<1>1. PICK S : S = {t \in Threads : Token(t, k)}
  OBVIOUS
<1>2. IsFiniteSet(S)
  BY <1>1, TokensFinite
<1>3. Cardinality(S) \in Nat /\ wq[k] \in Nat /\ Len(calls[k]) = 0 /\ Len(answers[k]) = 0
  BY <1>2, Nones, FS_CardinalityType DEF Types
<1>4. wq[k] + Cardinality(S) <= Len(calls[k]) + Len(answers[k])
  BY <1>1 DEF Awaited
<1>5. Cardinality(S) = 0
  BY <1>3, <1>4
<1>6. S = {}
  BY <1>2, <1>5, FS_EmptySet
<1> QED BY <1>1, <1>6

\* The other threads mean the same boxes after a step of t.
LEMMA StepTokens ==
    ASSUME IInv, NEW t \in Threads, Request(t) \/ KernelStep(t) \/ CleanupStep(t)
    PROVE  \A k \in Tasks : \A u \in Threads : u # t => (Token(u, k)' <=> Token(u, k))
<1>1. \A u \in Threads : u # t => thr'[u] = thr[u]
  BY DeadStep
<1>2. CASE callerbox' = callerbox
  BY <1>1, <1>2, OtherTokens
<1>3. ASSUME NEW c, caller_phone[c] = None, NEW b, callerbox' = [callerbox EXCEPT ![c] = b]
      PROVE  \A k \in Tasks : \A u \in Threads : u # t => (Token(u, k)' <=> Token(u, k))
  BY <1>1, <1>3, FreshTokens
<1>4. CASE Send(t) \/ Backsend(t) \/ BacksendSync(t)
  <2>1. thr[t].pc \in {"call", "backsend"} /\ \E b : callerbox' = [callerbox EXCEPT ![thr[t].call] = b]
    BY <1>4 DEF Send, Backsend, BacksendSync, CallActions
  <2>2. caller_phone[thr[t].call] = None
    BY <2>1, HandCall DEF Unsent, NotSent
  <2> QED BY <1>3, <2>1, <2>2
<1>5. CASE SendHungup(t)
  <2>1. thr[t].pc = "hungup" /\ callerbox' = [callerbox EXCEPT ![thr[t].phone] = TaskOf[t]]
    BY <1>5 DEF SendHungup, CallActions
  <2>2. caller_phone[thr[t].phone] = None
    BY <2>1, HandPhone DEF PhonePCs, PhoneOK
  <2> QED BY <1>3, <2>1, <2>2
<1>6. Request(t) => callerbox' = callerbox
  BY RequestFrame
<1>7. CleanupStep(t) => callerbox' = callerbox
  BY DEF CleanupStep, Leave, Exit, HangAllDone, SlamDone, CleanupDone, ForgetAllDone, WaitAllDone,
         WaitAll, WaitAllAnswer, WaitAllNothing, WaitAllRequest, HangAll, SlamPhone, CleanupCalls,
         CleanupDispatched, ForgetAll, AnswerCall, call
<1>8. ASSUME \/ SendRefused(t) \/ Wakeup(t) \/ WaitFails(t) \/ DequeueAnswer(t) \/ DequeueRequest(t)
             \/ DequeueNothing(t) \/ Publish(t) \/ PublishFails(t) \/ Preprocess(t)
             \/ PreprocessForgotten(t) \/ SlamCaller(t) \/ Deliver(t) \/ Discard(t) \/ Wake(t)
             \/ ForwardSend(t) \/ ForwardFails(t) \/ SyncReceive(t) \/ SyncInterrupted(t)
             \/ SyncForget(t) \/ SyncAnswered(t) \/ Unlist(t) \/ HangupSlammed(t)
      PROVE  callerbox' = callerbox
  BY <1>8 DEF SendRefused, Wakeup, WaitFails, DequeueAnswer, DequeueRequest, DequeueNothing, Publish,
        PublishFails, Preprocess, PreprocessForgotten, SlamCaller, Deliver, Discard, Wake, ForwardSend,
        ForwardFails, SyncReceive, SyncInterrupted, SyncForget, SyncAnswered, Unlist, HangupSlammed, call
<1> QED BY <1>2, <1>4, <1>5, <1>6, <1>7, <1>8 DEF KernelStep

\* Only _ipc_answer_free_call() is going to wake up somebody.
LEMMA WakersDeliver ==
    ASSUME IInv, NEW t \in Threads, Request(t) \/ KernelStep(t) \/ CleanupStep(t), thr'[t].pc = "wake"
    PROVE  Deliver(t)
<1>0. thr \in [Threads -> ThreadType] /\ Shape(thr[t]) /\ Types /\ ListInv /\ TaskOf[t] \in Tasks
  BY HandFacts DEF IInv
<1>1. ~Request(t)
  <2>1. ASSUME NEW p \in Phones, NEW c \in Calls,
               CallAsync(t, p, c) \/ CallSync(t, p, c) \/ \E q \in Phones : ConnectMeTo(t, p, c, q)
        PROVE  FALSE
    BY <1>0, <2>1, CallAsyncMove
  <2>2. ASSUME NEW p \in Phones, NEW c \in AllCalls, Forward(t, c, p) PROVE FALSE
    BY <1>0, <2>2, ForwardMove
  <2>3. ASSUME NEW p \in Phones, SysHangup(t, p) PROVE FALSE
    BY <1>0, <2>3, SysHangupMove
  <2>4. ASSUME NEW c \in AllCalls, (\E rv \in UserRetvals : Answer(t, c, rv)) \/ ForwardRefused(t, c)
        PROVE  FALSE
    BY <1>0, <2>4, AnswerMove
  <2>5. ~WaitForCall(t)
    <3>1. WaitForCall(t) => Goto(t, "wait") /\ "wait" \in PCs
      BY DEF WaitForCall, PCs, SyscallPCs
    <3> QED BY <1>0, <3>1, GotoFacts
  <2>6. ~Poke(t)
    BY DEF Poke
  <2> QED BY <2>1, <2>2, <2>3, <2>4, <2>5, <2>6 DEF Request
<1>2. ~CleanupStep(t)
  <2>2. ASSUME NEW c \in AllCalls, CleanupDispatched(t, c) \/ ForgetAll(t, c) PROVE FALSE
    <3>1. AnswerCall(t, c) \/ (thr' = thr /\ thr[t].pc = "forget_all")
      BY <2>2 DEF CleanupDispatched, ForgetAll
    <3> QED BY <1>0, <3>1, AnswerCallMove
  <2>3. ASSUME NEW p \in Phones, HangAll(t, p) \/ SlamPhone(t, p) PROVE FALSE
    <3>1. HangAll(t, p) \/ (thr' = thr /\ thr[t].pc = "slam_all")
      BY <2>3 DEF SlamPhone
    <3> QED BY <1>0, <3>1, HangAllMove
  <2>4. ASSUME CleanupCalls(t) PROVE FALSE
    <3>1. PICK c \in AllCalls : AnswerCall(t, c)
      BY <1>0, <2>4, TakeFrom DEF CleanupCalls, Types, ListInv
    <3> QED BY <1>0, <3>1, AnswerCallMove
  <2>5. ASSUME \/ Leave(t) \/ Exit(t) \/ HangAllDone(t) \/ SlamDone(t) \/ CleanupDone(t)
               \/ ForgetAllDone(t) \/ WaitAllDone(t) \/ WaitAll(t) \/ WaitAllAnswer(t)
               \/ WaitAllNothing(t) \/ WaitAllRequest(t)
        PROVE  \E pc \in PCs \ {"wake"} : Goto(t, pc)
    BY <2>5 DEF Leave, Exit, HangAllDone, SlamDone, CleanupDone, ForgetAllDone, WaitAllDone, WaitAll,
                WaitAllAnswer, WaitAllNothing, WaitAllRequest, PCs, CleanupPCs
  <2>6. ASSUME NEW pc \in PCs \ {"wake"}, Goto(t, pc) PROVE FALSE
    BY <1>0, <2>6, GotoFacts
  <2> QED BY <2>2, <2>3, <2>4, <2>5, <2>6 DEF CleanupStep
<1>3. ASSUME \/ Send(t) \/ SendRefused(t) \/ Backsend(t) \/ BacksendSync(t) \/ Wakeup(t)
             \/ WaitFails(t) \/ DequeueAnswer(t) \/ DequeueNothing(t) \/ Publish(t)
             \/ PublishFails(t) \/ Preprocess(t) \/ PreprocessForgotten(t) \/ SlamCaller(t)
             \/ Discard(t) \/ Wake(t) \/ ForwardSend(t) \/ ForwardFails(t) \/ SyncReceive(t)
             \/ SyncInterrupted(t) \/ SyncForget(t) \/ SyncAnswered(t) \/ Unlist(t)
             \/ SendHungup(t) \/ HangupSlammed(t)
      PROVE  Return(t) \/ \E pc \in PCs \ {"wake"} : Goto(t, pc)
  BY <1>3 DEF Send, SendRefused, Backsend, BacksendSync, Wakeup, WaitFails, DequeueAnswer,
        DequeueNothing, Publish, PublishFails, Preprocess, PreprocessForgotten, SlamCaller, Discard,
        Wake, ForwardSend, ForwardFails, SyncReceive, SyncInterrupted, SyncForget, SyncAnswered,
        Unlist, SendHungup, HangupSlammed, PCs, SyscallPCs
<1>4. ASSUME Return(t) \/ \E pc \in PCs \ {"wake"} : Goto(t, pc) PROVE FALSE
  BY <1>0, <1>4, GotoFacts, ReturnFacts
<1>5. ~DequeueRequest(t)
  BY <1>0, DequeueMove
<1> QED BY <1>1, <1>2, <1>3, <1>4, <1>5 DEF KernelStep

\* Nobody can reach a task that is gone, or is going to wake up its answerbox.
Sealed(k) == ~box_active[k] /\ Unreachable(k) /\ \A t \in Threads : ~(thr[t].pc = "wake" /\ Token(t, k))
SealInv   == \A k \in Tasks : Gone(k) => Sealed(k)

LEMMA SealThreads ==
    ASSUME Ledger({"refused"}), Left, ShutInv, \A k \in Tasks : Awaited(k, TRUE), SealInv,
           NEW t \in Threads, Request(t) \/ KernelStep(t) \/ CleanupStep(t)
    PROVE  SealInv'
<1> SUFFICES ASSUME NEW k \in Tasks, Gone(k)' PROVE Sealed(k)'
  BY DEF SealInv
<1>0. IInv /\ Types /\ TaskOf[t] \in Tasks
  BY HandFacts DEF Ledger, IInv
<1>1. ASSUME ~Gone(k) PROVE Sealed(k)'
  <2>1. k = TaskOf[t] /\ WaitAllDone(t)
    BY <1>0, <1>1, DeadStep
  <2>2. /\ thr[t].pc = "wait_all" /\ box_active_calls[k] = 0 /\ Goto(t, "dead") /\ "dead" \in PCs
        /\ UNCHANGED <<box_active, state, callee, callerbox>>
    BY <2>1 DEF WaitAllDone, box, phone, call, PCs, CleanupPCs
  <2>3. Drained(thr[t]) /\ Late(thr[t]) /\ Cleaning(thr[t])
    BY <2>2, DrainedIsLate DEF Drained
  <2>4. ~box_active[k] /\ Unreachable(k) /\ calls[k] = <<>>
    BY <2>1, <2>3 DEF ShutInv
  <2>5. \A u \in Threads : ~Token(u, k)
    BY <1>0, <2>2, <2>4, NoneDue, NoneOnTheWay
  <2>6. \A u \in Threads : u # t => (Token(u, k)' <=> Token(u, k))
    BY <1>0, StepTokens
  <2>7. thr'[t].pc = "dead"
    BY <1>0, <2>2, GotoFacts DEF Types
  <2> QED BY <2>2, <2>4, <2>5, <2>6, <2>7 DEF Sealed, Unreachable
<1>2. ASSUME Gone(k) PROVE Sealed(k)'
  <2>1. k # TaskOf[t] /\ Sealed(k) /\ DueAt(k) = {} /\ \A u \in Threads : u # t => thr'[u] = thr[u]
    BY <1>0, <1>2, DeadStep, GoneExpectsNone DEF SealInv
  <2>2. ~box_active'[k]
    BY <1>0, <2>1, BoxesClose DEF Sealed
  <2>3. Unreachable(k)'
    <3>1. Connects(t)
      BY <1>0, RequestTies, KernelTies, CleanupTies DEF ShutInv
    <3> QED BY <2>1, <3>1 DEF Connects, Unreachable, Sealed
  <2>4. ASSUME NEW u \in Threads, u # t PROVE ~(thr'[u].pc = "wake" /\ Token(u, k)')
    BY <1>0, <2>1, <2>4, StepTokens DEF Sealed
  <2>5. ASSUME thr'[t].pc = "wake", Token(t, k)' PROVE FALSE
    <3> DEFINE c == thr[t].call
    <3>1. Deliver(t)
      BY <1>0, <2>5, WakersDeliver
    <3>2. /\ thr[t].pc = "deliver" /\ ~forget[c] /\ callerbox' = callerbox /\ Goto(t, "wake")
          /\ "wake" \in PCs
      BY <3>1 DEF Deliver, call, PCs, SyscallPCs
    <3>3. thr'[t].call = c
      BY <1>0, <3>2, GotoFacts DEF Types
    <3>4. callerbox[c] = k
      BY <2>5, <3>2, <3>3 DEF Token
    <3>5. c \in AllCalls /\ Outstanding(c)
      BY <1>0, <3>2, HandFacts DEF Outstanding, HolderPCs
    <3> QED BY <2>1, <3>4, <3>5 DEF DueAt, Due
  <2> QED BY <2>2, <2>3, <2>4, <2>5 DEF Sealed
<1> QED BY <1>1, <1>2

LEMMA SealStep ==
    Ledger({"refused"}) /\ Left /\ ShutInv /\ (\A k \in Tasks : Awaited(k, TRUE)) /\ SealInv
        /\ [Next]_vars => SealInv'
<1> SUFFICES ASSUME Ledger({"refused"}), Left, ShutInv, \A k \in Tasks : Awaited(k, TRUE), SealInv,
                    [Next]_vars
             PROVE  SealInv'
  OBVIOUS
<1>1. ASSUME UNCHANGED <<thr, box_active, state, callee, callerbox>> PROVE SealInv'
  BY <1>1 DEF SealInv, Sealed, Gone, Unreachable, Token
<1>2. CASE UNCHANGED vars
  BY <1>1, <1>2 DEF vars
<1>3. ASSUME NEW j \in Tasks, Kill(j) PROVE SealInv'
  BY <1>1, <1>3 DEF Kill, box, phone, call
<1> QED BY <1>2, <1>3, SealThreads DEF Next

\* What the invariants say of BoxAlive.
LEMMA SealedIsAlive ==
    ASSUME Ledger({"refused"}), Left, SealInv
    PROVE  BoxAlive
<1> SUFFICES ASSUME NEW t \in Threads
             PROVE  /\ thr[t].pc = "deliver" /\ ~forget[thr[t].call] => BoxExists(callerbox[thr[t].call])
                    /\ thr[t].pc = "wake" => BoxExists(callerbox[thr[t].call])
                    /\ thr[t].pc = "hungup" => BoxExists(callee[thr[t].phone])
  BY DEF BoxAlive
<1> DEFINE c == thr[t].call
<1>0. IInv
  BY DEF Ledger
<1>1. ASSUME callerbox[c] \in Threads, Waits(callerbox[c], c) PROVE BoxExists(callerbox[c])
  BY <1>1, Nones DEF BoxExists, Waits, SyncPCs
<1>2. ASSUME thr[t].pc = "deliver", ~forget[c] PROVE BoxExists(callerbox[c])
  <2>1. c \in AllCalls /\ Sent(c) /\ CallerWaits(c)
    BY <1>0, <1>2, HandFacts, HandCall DEF HolderPCs, Handled, Pending, Decided
  <2>2. Outstanding(c)
    BY <1>2 DEF Outstanding
  <2>3. CASE c \in SyncCalls
    BY <1>1, <1>2, <2>1, <2>3 DEF CallerWaits, WaitedBy, Sent
  <2>4. CASE c \notin SyncCalls
    <3>1. callerbox[c] \in Tasks /\ c \in DueAt(callerbox[c])
      BY <2>1, <2>2, <2>4 DEF Sent, DueAt, Due
    <3>2. ~Gone(callerbox[c])
      BY <3>1, GoneExpectsNone
    <3> QED BY <3>1, <3>2 DEF BoxExists
  <2> QED BY <2>3, <2>4
<1>3. ASSUME thr[t].pc = "wake" PROVE BoxExists(callerbox[c])
  <2>1. Answered(c, {t}) \/ Done(c, {t})
    BY <1>0, <1>3, HandCall
  <2>2. CASE c \in SyncCalls
    <3>1. Answered(c, {t})
      BY <2>1, <2>2 DEF Done
    <3> QED BY <1>1, <2>2, <3>1 DEF Answered, CallerWaits, WaitedBy, Sent
  <2>3. CASE c \notin SyncCalls
    <3>1. callerbox[c] \in Tasks
      BY <2>1, <2>3 DEF Answered, Done, Sent
    <3>2. Token(t, callerbox[c])
      BY <1>3 DEF Token
    <3>3. ~Gone(callerbox[c])
      BY <1>3, <3>1, <3>2 DEF SealInv, Sealed
    <3> QED BY <3>1, <3>3 DEF BoxExists
  <2> QED BY <2>2, <2>3
<1>4. ASSUME thr[t].pc = "hungup" PROVE BoxExists(callee[thr[t].phone])
  <2>1. /\ thr[t].phone \in Phones /\ state[thr[t].phone] = "CONNECTED"
        /\ callee[thr[t].phone] \in Tasks
    BY <1>0, <1>4, HandPhone DEF PhonePCs
  <2>2. ~Gone(callee[thr[t].phone])
    BY <2>1 DEF SealInv, Sealed, Unreachable
  <2> QED BY <2>1, <2>2 DEF BoxExists
<1> QED BY <1>2, <1>3, <1>4

LEMMA AwaitedExactly == Spec /\ [][NoSpareWakeup]_vars => [](\A k \in Tasks : Awaited(k, TRUE))
<1> DEFINE Inv == \A k \in Tasks : Awaited(k, TRUE)
<1>1. Init => Inv
  BY BoxStart
<1>2. IInv /\ Inv /\ [Next]_vars /\ [NoSpareWakeup]_vars => Inv'
  BY BoxStep
<1> HIDE DEF Inv
<1>3. Spec /\ [][NoSpareWakeup]_vars => []Inv
  BY <1>1, <1>2, Invariance, PTL DEF Spec
<1> QED BY <1>3 DEF Inv

\* In a system where every task has a thread when it starts, no message is put
\* in, and nobody wakes up, an answerbox that may be freed.  The order of the
\* last steps of _ipc_answer_free_call(), ipc_phone_hangup() and ipc_cleanup()
\* is safe because three things do not happen: ipc_call_sync() forgets a call
\* (ipc_forget_sync), a task slams its phones while one of them is being hung up
\* (ipc_hangup_race), and a wakeup is stored that no message belongs to, by
\* sys_ipc_poke() or by ipc_cleanup_call_list().
THEOREM BoxAliveAlways ==
    ASSUME \A k \in Tasks : \E t \in Threads : TaskOf[t] = k
    PROVE  Spec /\ [][NoneForgotten /\ NoHangupRace /\ NoSpareWakeup]_vars => []BoxAlive
<1> DEFINE Exact == \A k \in Tasks : Awaited(k, TRUE)
<1>1. Init => SealInv
  <2> SUFFICES ASSUME Init, NEW k \in Tasks PROVE ~Gone(k)
    BY DEF SealInv
  <2>1. PICK t \in Threads : TaskOf[t] = k
    OBVIOUS
  <2> QED BY <2>1, UserFacts DEF Init, Gone
<1>2. Ledger({"refused"}) /\ Left /\ ShutInv /\ Exact /\ SealInv /\ [Next]_vars => SealInv'
  BY SealStep
<1>3. Ledger({"refused"}) /\ Left /\ SealInv => BoxAlive
  BY SealedIsAlive
<1>4. Spec /\ [][NoSpareWakeup]_vars => []Exact
  BY AwaitedExactly
<1>5. [NoneForgotten /\ NoHangupRace /\ NoSpareWakeup]_vars =>
          [NoneForgotten]_vars /\ [NoHangupRace]_vars /\ [NoSpareWakeup]_vars
  OBVIOUS
<1> HIDE DEF Exact
<1> QED BY <1>1, <1>2, <1>3, <1>4, <1>5, LedgerUnlessForgotten, LeftAlways, ShutAlways, PTL DEF Spec

-----------------------------------------------------------------------------
(* Systems without the exceptions. *)

\* Without synchronous calls nothing spoils the books, however calls are sent,
\* forwarded, answered, refused and forgotten, phones connected, slammed and
\* hung up, and tasks killed.
THEOREM BooksWithoutSyncCalls ==
    ASSUME SyncCalls = {}
    PROVE  Spec => [](PhoneAccounting /\ BoxAccounting /\ PhoneLifetime /\ AllAnswersArrived)
<1>1. IInv => NoneRefused /\ NoneForgotten
  <2> SUFFICES ASSUME IInv, NEW t \in Threads PROVE ~BacksendSync(t) /\ ~SyncForget(t)
    BY DEF NoneRefused, NoneForgotten
  <2>1. thr[t].pc # "race"
    BY HandCall DEF SyncPCs
  <2> QED BY <2>1 DEF BacksendSync, SyncForget
<1> QED BY <1>1, Invariance, PhoneAccountingAlways, BoxAccountingAlways, PhoneLifetimeAlways,
           AllAnswersArrivedAlways, PTL

\* Where a thread deals with a call of another task.
ServerPCs == {"publish", "forward", "preprocess", "slam", "deliver", "wake"}

\* Task k is a client: nobody sends it a request.
Client(k) ==
    /\ Unreachable(k) /\ calls[k] = <<>> /\ dispatched[k] = {}
    /\ \A c \in AllCalls : call_cap[c] # k

\* Only threads of tasks that are killed are interrupted and run ipc_cleanup().
ClientThread(t) ==
    IF TaskOf[t] \in Mortal THEN thr[t].pc \notin ServerPCs
    ELSE ~interrupted[t] /\ thr[t].pc \in SyscallPCs /\ thr[t].next = "user"

ClientInv == Tied /\ (\A k \in Mortal : Client(k)) /\ (\A t \in Threads : ClientThread(t))

LEMMA ClientsStay ==
    ASSUME IInv, ClientInv, NEW t \in Threads, Request(t) \/ KernelStep(t) \/ CleanupStep(t)
    PROVE  Tied' /\ \A k \in Mortal : Client(k)'
<1>0. Tied' /\ Connects(t)
  BY RequestTies, KernelTies, CleanupTies DEF ClientInv
<1> SUFFICES ASSUME NEW k \in Mortal PROVE Client(k)'
  BY <1>0
<1>1. /\ k \in Tasks /\ Client(k) /\ (k = TaskOf[t] => thr[t].pc \notin ServerPCs)
      /\ TaskOf[t] \in Tasks
  BY IpcAssumption, Nones DEF ClientInv, ClientThread
<1>2. Unreachable(k)'
  BY <1>0, <1>1 DEF Connects, Unreachable, Client, ServerPCs
<1>3. calls'[k] = <<>>
  BY <1>1, RequestsArrive DEF Client
<1>4. dispatched'[k] = {} /\ \A c \in AllCalls : call_cap'[c] # k
  <2>0. dispatched \in [Tasks -> SUBSET AllCalls] /\ call_cap \in [AllCalls -> Tasks \cup {None}]
        /\ dispatched[k] = {} /\ \A c \in AllCalls : call_cap[c] # k
    BY <1>1 DEF IInv, Types, Client
  <2>1. ASSUME NEW j, NEW c, \/ dispatched' = dispatched
                             \/ dispatched' = [dispatched EXCEPT ![j] = @ \ {c}]
                             \/ j # k /\ dispatched' = [dispatched EXCEPT ![j] = @ \cup {c}]
        PROVE  dispatched'[k] = {}
    BY <1>1, <2>0, <2>1
  <2>2. ASSUME NEW j, j # k, NEW c, \/ call_cap' = call_cap
                                    \/ call_cap' = [call_cap EXCEPT ![c] = j]
                                    \/ call_cap' = [d \in AllCalls |-> IF call_cap[d] = TaskOf[t] THEN None
                                                                       ELSE call_cap[d]]
        PROVE  \A d \in AllCalls : call_cap'[d] # k
    BY <1>1, <2>0, <2>2, Nones
  <2>3. None # k
    BY <1>1, Nones
  <2>4. CASE Request(t)
    <3>1. ASSUME NEW p \in Phones, NEW c \in Calls, CallAsync(t, p, c) \/ CallSync(t, p, c)
          PROVE  UNCHANGED <<dispatched, call_cap>>
      BY <3>1 DEF CallAsync, CallSync, box
    <3>2. ASSUME NEW p \in Phones, NEW c \in Calls, NEW q \in Phones, ConnectMeTo(t, p, c, q)
          PROVE  UNCHANGED <<dispatched, call_cap>>
      BY <3>2 DEF ConnectMeTo, box
    <3>3. ASSUME NEW p \in Phones, NEW c \in AllCalls, Forward(t, c, p)
          PROVE  dispatched' = [dispatched EXCEPT ![TaskOf[t]] = @ \ {c}]
                 /\ call_cap' = [call_cap EXCEPT ![c] = None]
      BY <3>3 DEF Forward
    <3>4. ASSUME NEW p \in Phones, SysHangup(t, p) PROVE UNCHANGED <<dispatched, call_cap>>
      BY <3>4 DEF SysHangup, box, call
    <3>5. ASSUME NEW c \in AllCalls, (\E rv \in UserRetvals : Answer(t, c, rv)) \/ ForwardRefused(t, c)
          PROVE  dispatched' = dispatched /\ call_cap' = [call_cap EXCEPT ![c] = None]
      BY <3>5 DEF Answer, ForwardRefused, box
    <3>6. WaitForCall(t) \/ Poke(t) => UNCHANGED <<dispatched, call_cap>>
      BY DEF WaitForCall, Poke, box, call
    <3>7. \E c : \/ UNCHANGED <<dispatched, call_cap>>
                 \/ /\ dispatched' = dispatched \/ dispatched' = [dispatched EXCEPT ![TaskOf[t]] = @ \ {c}]
                    /\ call_cap' = [call_cap EXCEPT ![c] = None]
      BY <2>4, <3>1, <3>2, <3>3, <3>4, <3>5, <3>6 DEF Request
    <3> QED BY <2>1, <2>2, <2>3, <3>7
  <2>5. CASE DequeueRequest(t) \/ WaitAllRequest(t)
    <3>1. /\ calls[TaskOf[t]] # <<>> /\ call_cap' = call_cap
          /\ \E c : dispatched' = [dispatched EXCEPT ![TaskOf[t]] = @ \cup {c}]
      BY <2>5 DEF DequeueRequest, WaitAllRequest, call
    <3>2. TaskOf[t] # k
      BY <1>1, <3>1 DEF Client
    <3> QED BY <2>1, <2>2, <3>1, <3>2
  <2>6. CASE Publish(t)
    <3>1. /\ TaskOf[t] # k /\ dispatched' = dispatched
          /\ call_cap' = [call_cap EXCEPT ![thr[t].call] = TaskOf[t]]
      BY <1>1, <2>6 DEF Publish, ServerPCs, box
    <3> QED BY <2>1, <2>2, <3>1
  <2>7. CASE Deliver(t) \/ Discard(t)
    <3>1. /\ call_cap' = call_cap
          /\ dispatched' = [dispatched EXCEPT ![TaskOf[t]] = @ \ {thr[t].call}]
      BY <2>7 DEF Deliver, Discard, call
    <3> QED BY <2>1, <2>2, <2>3, <3>1
  <2>8. CASE \/ Send(t) \/ SendRefused(t) \/ Backsend(t) \/ BacksendSync(t)
             \/ Wakeup(t) \/ WaitFails(t) \/ DequeueAnswer(t)
             \/ DequeueNothing(t) \/ PublishFails(t)
             \/ Preprocess(t) \/ PreprocessForgotten(t) \/ SlamCaller(t)
             \/ Wake(t) \/ ForwardSend(t) \/ ForwardFails(t)
             \/ SyncReceive(t) \/ SyncInterrupted(t) \/ SyncForget(t) \/ SyncAnswered(t)
             \/ Unlist(t) \/ SendHungup(t) \/ HangupSlammed(t)
    <3>1. UNCHANGED <<dispatched, call_cap>>
      BY <2>8 DEF Send, SendRefused, Backsend, BacksendSync, Wakeup, WaitFails, DequeueAnswer,
            DequeueNothing, PublishFails, Preprocess, PreprocessForgotten, SlamCaller, Wake,
            ForwardSend, ForwardFails, SyncReceive, SyncInterrupted, SyncForget, SyncAnswered,
            Unlist, SendHungup, HangupSlammed, box, call
    <3> QED BY <2>0, <3>1
  <2>9. ASSUME NEW c \in AllCalls, CleanupDispatched(t, c) \/ ForgetAll(t, c)
        PROVE  dispatched'[k] = {} /\ \A d \in AllCalls : call_cap'[d] # k
    <3>1. /\ call_cap' = call_cap
          /\ dispatched' = dispatched \/ dispatched' = [dispatched EXCEPT ![TaskOf[t]] = @ \ {c}]
      BY <2>9 DEF CleanupDispatched, ForgetAll, AnswerCall
    <3> QED BY <2>1, <2>2, <2>3, <3>1
  <2>10. ASSUME NEW p \in Phones, HangAll(t, p) \/ SlamPhone(t, p)
         PROVE  dispatched'[k] = {} /\ \A d \in AllCalls : call_cap'[d] # k
    <3>1. UNCHANGED <<dispatched, call_cap>>
      BY <2>10 DEF HangAll, SlamPhone, box, call
    <3> QED BY <2>0, <3>1
  <2>11. CASE SlamDone(t)
    <3>1. /\ dispatched' = dispatched
          /\ call_cap' = [d \in AllCalls |-> IF call_cap[d] = TaskOf[t] THEN None ELSE call_cap[d]]
      BY <2>11 DEF SlamDone, box
    <3> QED BY <2>1, <2>2, <2>3, <3>1
  <2>12. CASE \/ Leave(t) \/ Exit(t) \/ HangAllDone(t) \/ CleanupCalls(t) \/ CleanupDone(t)
              \/ ForgetAllDone(t) \/ WaitAllDone(t) \/ WaitAll(t) \/ WaitAllAnswer(t) \/ WaitAllNothing(t)
    <3>1. UNCHANGED <<dispatched, call_cap>>
      BY <2>12 DEF Leave, Exit, HangAllDone, CleanupCalls, CleanupDone, ForgetAllDone, WaitAllDone,
            WaitAll, WaitAllAnswer, WaitAllNothing, AnswerCall, box, call
    <3> QED BY <2>0, <3>1
  <2> QED BY <2>4, <2>5, <2>6, <2>7, <2>8, <2>9, <2>10, <2>11, <2>12 DEF KernelStep, CleanupStep
<1> QED BY <1>2, <1>3, <1>4 DEF Client

LEMMA ClientThreads ==
    ASSUME IInv, ClientInv, NEW t \in Threads, Request(t) \/ KernelStep(t) \/ CleanupStep(t)
    PROVE  \A u \in Threads : ClientThread(u)'
<1>0. /\ thr \in [Threads -> ThreadType] /\ Shape(thr[t]) /\ Types /\ ListInv /\ TaskOf[t] \in Tasks
      /\ SyscallPCs \subseteq PCs /\ CleanupPCs \subseteq PCs
  BY HandFacts DEF IInv, PCs
<1>1. interrupted' = interrupted
  <2>1. Request(t) => interrupted' = interrupted
    <3>1. ASSUME NEW p \in Phones, NEW c \in Calls, CallAsync(t, p, c) \/ CallSync(t, p, c)
          PROVE  interrupted' = interrupted
      BY <3>1 DEF CallAsync, CallSync
    <3>2. ASSUME NEW p \in Phones, NEW c \in Calls, NEW q \in Phones, ConnectMeTo(t, p, c, q)
          PROVE  interrupted' = interrupted
      BY <3>2 DEF ConnectMeTo
    <3>3. ASSUME NEW p \in Phones, (\E c \in AllCalls : Forward(t, c, p)) \/ SysHangup(t, p)
          PROVE  interrupted' = interrupted
      BY <3>3 DEF Forward, SysHangup
    <3>4. ASSUME NEW c \in AllCalls, (\E rv \in UserRetvals : Answer(t, c, rv)) \/ ForwardRefused(t, c)
          PROVE  interrupted' = interrupted
      BY <3>4 DEF Answer, ForwardRefused
    <3>5. WaitForCall(t) \/ Poke(t) => interrupted' = interrupted
      BY DEF WaitForCall, Poke
    <3> QED BY <3>1, <3>2, <3>3, <3>4, <3>5 DEF Request
  <2>2. KernelStep(t) => interrupted' = interrupted
    BY DEF KernelStep, Send, SendRefused, Backsend, BacksendSync, Wakeup, WaitFails,
        DequeueAnswer, DequeueRequest, DequeueNothing, Publish, PublishFails, Preprocess,
        PreprocessForgotten, SlamCaller, Deliver, Discard, Wake, ForwardSend, ForwardFails,
        SyncReceive, SyncInterrupted, SyncForget, SyncAnswered, Unlist, SendHungup, HangupSlammed
  <2>3. CleanupStep(t) => interrupted' = interrupted
    BY DEF CleanupStep, Leave, Exit, HangAllDone, SlamDone, CleanupDone, ForgetAllDone, WaitAllDone,
         WaitAll, WaitAllAnswer, WaitAllNothing, WaitAllRequest, HangAll, SlamPhone, CleanupCalls,
         CleanupDispatched, ForgetAll, AnswerCall
  <2> QED BY <2>1, <2>2, <2>3
<1>2. \A u \in Threads : u # t => ClientThread(u)'
  BY <1>1, DeadStep DEF ClientInv, ClientThread
<1>3. ASSUME TaskOf[t] \notin Mortal PROVE ClientThread(t)'
  <2>1. ~interrupted[t] /\ thr[t].pc \in SyscallPCs /\ thr[t].next = "user"
    BY <1>3 DEF ClientInv, ClientThread
  <2>2. CASE Request(t)
    <3>1. thr'[t].pc # "exit" /\ thr'[t].pc \in SyscallPCs \cup {"exit"} /\ thr'[t].next = "user"
      <4>1. ASSUME NEW p \in Phones, NEW c \in Calls,
                   CallAsync(t, p, c) \/ CallSync(t, p, c) \/ \E q \in Phones : ConnectMeTo(t, p, c, q)
            PROVE  thr'[t].pc # "exit"
        BY <1>0, <4>1, CallAsyncMove
      <4>2. ASSUME NEW p \in Phones, NEW c \in AllCalls, Forward(t, c, p) PROVE thr'[t].pc # "exit"
        BY <1>0, <4>2, ForwardMove
      <4>3. ASSUME NEW p \in Phones, SysHangup(t, p) PROVE thr'[t].pc # "exit"
        BY <1>0, <4>3, SysHangupMove
      <4>4. ASSUME NEW c \in AllCalls, (\E rv \in UserRetvals : Answer(t, c, rv)) \/ ForwardRefused(t, c)
            PROVE  thr'[t].pc # "exit"
        BY <1>0, <4>4, AnswerMove
      <4>5. ASSUME WaitForCall(t) PROVE thr'[t].pc # "exit"
        <5>1. Goto(t, "wait") /\ "wait" \in PCs
          BY <1>0, <4>5 DEF WaitForCall, SyscallPCs
        <5> QED BY <1>0, <5>1, GotoFacts
      <4>6. ASSUME Poke(t) PROVE thr'[t].pc # "exit"
        BY <4>6 DEF Poke
      <4>7. thr'[t].pc # "exit"
        BY <2>2, <4>1, <4>2, <4>3, <4>4, <4>5, <4>6 DEF Request
      <4>8. "user" \in SyscallPCs
        BY DEF SyscallPCs
      <4> QED BY <2>1, <2>2, <4>7, <4>8, RequestOnward DEF Onward
    <3> QED BY <1>1, <1>3, <2>1, <3>1 DEF ClientThread
  <2>3. CASE KernelStep(t)
    <3>1. Onward(t)
      BY <2>3, KernelOnward
    <3>2. CASE Return(t)
      <4> DEFINE r == [User EXCEPT !.pc = "user"]
      <4>1. thr' = [thr EXCEPT ![t] = r]
        BY <2>1, <3>2 DEF Return
      <4>2. r.pc = "user" /\ r.next = "user"
        BY DEF User
      <4> HIDE DEF r
      <4>3. thr'[t].pc = "user" /\ thr'[t].next = "user" /\ "user" \in SyscallPCs
        BY <1>0, <4>1, <4>2 DEF SyscallPCs
      <4> QED BY <1>1, <1>3, <2>1, <4>3 DEF ClientThread
    <3>3. CASE DequeueRequest(t)
      <4>1. thr'[t].pc \in SyscallPCs /\ thr'[t].next = "user"
        BY <1>0, <2>1, <3>3, DequeueMove DEF SyscallPCs
      <4> QED BY <1>1, <1>3, <2>1, <4>1 DEF ClientThread
    <3>4. ASSUME NEW pc \in SyscallPCs, Goto(t, pc) PROVE ClientThread(t)'
      <4>1. thr'[t].pc \in SyscallPCs /\ thr'[t].next = "user"
        BY <1>0, <2>1, <3>4, GotoFacts
      <4> QED BY <1>1, <1>3, <2>1, <4>1 DEF ClientThread
    <3> QED BY <2>3, <3>2, <3>3, <3>4, KernelGoes
  <2>4. ~CleanupStep(t)
    <3>1. CleanupStep(t) => interrupted[t] \/ thr[t].pc \in CleanupPCs
      BY DEF CleanupStep, Leave, Exit, HangAllDone, SlamDone, CleanupDone, ForgetAllDone, WaitAllDone,
         WaitAll, WaitAllAnswer, WaitAllNothing, WaitAllRequest, HangAll, SlamPhone, CleanupCalls,
         CleanupDispatched, ForgetAll, CleanupPCs
    <3>2. thr[t].pc \notin CleanupPCs
      BY <2>1 DEF SyscallPCs, CleanupPCs
    <3> QED BY <2>1, <3>1, <3>2
  <2> QED BY <2>2, <2>3, <2>4
<1>4. ASSUME TaskOf[t] \in Mortal PROVE ClientThread(t)'
  <2>1. /\ thr[t].pc \notin ServerPCs /\ calls[TaskOf[t]] = <<>> /\ dispatched[TaskOf[t]] = {}
        /\ \A c \in AllCalls : call_cap[c] # TaskOf[t]
    BY <1>4 DEF ClientInv, ClientThread, Client
  <2> SUFFICES thr'[t].pc \notin ServerPCs
    BY <1>4 DEF ClientThread
  <2>2. ASSUME Return(t) PROVE thr'[t].pc \notin ServerPCs
    BY <1>0, <2>2, ReturnFacts DEF ServerPCs
  <2>3. ASSUME NEW pc \in PCs \ ServerPCs, Goto(t, pc) PROVE thr'[t].pc \notin ServerPCs
    BY <1>0, <2>3, GotoFacts
  <2>4. CASE Request(t)
    <3>1. ASSUME NEW p \in Phones, NEW c \in Calls,
                 CallAsync(t, p, c) \/ CallSync(t, p, c) \/ \E q \in Phones : ConnectMeTo(t, p, c, q)
          PROVE  thr'[t].pc \notin ServerPCs
      BY <1>0, <3>1, CallAsyncMove DEF ServerPCs
    <3>2. ASSUME NEW p \in Phones, SysHangup(t, p) PROVE thr'[t].pc \notin ServerPCs
      BY <1>0, <3>2, SysHangupMove DEF ServerPCs
    <3>3. ASSUME NEW c \in AllCalls,
                 \/ (\E rv \in UserRetvals : Answer(t, c, rv)) \/ ForwardRefused(t, c)
                 \/ \E p \in Phones : Forward(t, c, p)
          PROVE  FALSE
      BY <2>1, <3>3 DEF Answer, ForwardRefused, Forward
    <3>4. ASSUME WaitForCall(t) PROVE thr'[t].pc \notin ServerPCs
      <4>1. Goto(t, "wait") /\ "wait" \in PCs \ ServerPCs
        BY <3>4 DEF WaitForCall, PCs, SyscallPCs, ServerPCs
      <4> QED BY <2>3, <4>1
    <3>5. ASSUME Poke(t) PROVE thr'[t].pc \notin ServerPCs
      BY <2>1, <3>5 DEF Poke
    <3> QED BY <2>4, <3>1, <3>2, <3>3, <3>4, <3>5 DEF Request
  <2>5. CASE KernelStep(t)
    <3>1. ASSUME ~DequeueRequest(t) PROVE Return(t) \/ \E pc \in PCs \ ServerPCs : Goto(t, pc)
      BY <2>1, <2>5, <3>1 DEF KernelStep, Send, SendRefused, Backsend, BacksendSync, Wakeup, WaitFails,
          DequeueAnswer, DequeueNothing, Publish, PublishFails, Preprocess, PreprocessForgotten,
          SlamCaller, Deliver, Discard, Wake, ForwardSend, ForwardFails, SyncReceive,
          SyncInterrupted, SyncForget, SyncAnswered, Unlist, SendHungup, HangupSlammed,
          PCs, SyscallPCs, ServerPCs
    <3>2. ~DequeueRequest(t)
      BY <2>1 DEF DequeueRequest
    <3> QED BY <2>2, <2>3, <3>1, <3>2
  <2>6. CASE CleanupStep(t)
    <3>1. ASSUME NEW c \in AllCalls, CleanupDispatched(t, c) \/ ForgetAll(t, c)
          PROVE  thr'[t].pc \notin ServerPCs
      BY <2>1, <3>1 DEF CleanupDispatched, ForgetAll
    <3>2. ASSUME NEW p \in Phones, HangAll(t, p) \/ SlamPhone(t, p) PROVE thr'[t].pc \notin ServerPCs
      BY <1>0, <2>1, <3>2, HangAllMove DEF SlamPhone, ServerPCs
    <3>3. ~CleanupCalls(t)
      BY <2>1 DEF CleanupCalls
    <3>4. ASSUME \/ Leave(t) \/ Exit(t) \/ HangAllDone(t) \/ SlamDone(t) \/ CleanupDone(t)
                 \/ ForgetAllDone(t) \/ WaitAllDone(t) \/ WaitAll(t) \/ WaitAllAnswer(t)
                 \/ WaitAllNothing(t) \/ WaitAllRequest(t)
          PROVE  \E pc \in PCs \ ServerPCs : Goto(t, pc)
      BY <3>4 DEF Leave, Exit, HangAllDone, SlamDone, CleanupDone, ForgetAllDone, WaitAllDone, WaitAll,
                  WaitAllAnswer, WaitAllNothing, WaitAllRequest, PCs, CleanupPCs, ServerPCs
    <3> QED BY <2>3, <2>6, <3>1, <3>2, <3>3, <3>4 DEF CleanupStep
  <2> QED BY <2>4, <2>5, <2>6
<1> QED BY <1>2, <1>3, <1>4

LEMMA ClientStep == IInv /\ ClientInv /\ [Next]_vars => ClientInv'
<1> SUFFICES ASSUME IInv, ClientInv, [Next]_vars PROVE ClientInv'
  OBVIOUS
<1>1. CASE UNCHANGED vars
  BY <1>1 DEF vars, ClientInv, Tied, Client, ClientThread, Unreachable
<1>2. ASSUME NEW k \in Tasks, Kill(k) PROVE ClientInv'
  <2>1. /\ UNCHANGED <<state, linked, lock, callee, calls, dispatched, call_cap, thr>>
        /\ k \in Mortal /\ interrupted' = [t \in Threads |-> interrupted[t] \/ TaskOf[t] = k]
    BY <1>2 DEF Kill, box, phone, call
  <2>2. \A t \in Threads : ClientThread(t)'
    BY <2>1 DEF ClientInv, ClientThread
  <2> QED BY <2>1, <2>2 DEF ClientInv, Tied, Client, Unreachable
<1>3. ASSUME NEW t \in Threads, Request(t) \/ KernelStep(t) \/ CleanupStep(t) PROVE ClientInv'
  BY <1>3, ClientsStay, ClientThreads DEF ClientInv
<1> QED BY <1>1, <1>2, <1>3 DEF Next

\* Where only clients are killed and nobody calls sys_ipc_poke(), the order of
\* the last steps of an answer or a hangup and of ipc_cleanup() is always safe,
\* whatever the servers do: no answerbox is used after its task is gone, unless
\* ipc_call_sync() has forgotten a call.
THEOREM ClientBoxAlive ==
    ASSUME \A k \in Tasks : \E t \in Threads : TaskOf[t] = k,
           \A p \in BootPhones : BootCallee[p] \notin Mortal, MaxPokes = 0
    PROVE  Spec /\ [][NoneForgotten]_vars => []BoxAlive
<1>1. Init => ClientInv
  <2> SUFFICES ASSUME Init PROVE ClientInv
    OBVIOUS
  <2>1. Tied
    BY DEF Init, Tied
  <2>2. ASSUME NEW k \in Mortal PROVE Client(k)
    <3>1. k \in Tasks /\ k # None
      BY IpcAssumption
    <3>2. Unreachable(k)
      BY DEF Init, Unreachable
    <3> QED BY <3>1, <3>2 DEF Init, Client
  <2>3. ASSUME NEW t \in Threads PROVE ClientThread(t)
    BY UserFacts DEF Init, ClientThread, ServerPCs, SyscallPCs
  <2> QED BY <2>1, <2>2, <2>3 DEF ClientInv
<1>2. IInv /\ ClientInv => NoHangupRace /\ NoSpareWakeup
  <2> SUFFICES ASSUME IInv, ClientInv, NEW t \in Threads
               PROVE  /\ ~Poke(t) /\ ~CleanupCalls(t)
                      /\ SlamDone(t) => \A u \in Threads : thr[u].pc = "hungup" =>
                                            callee[thr[u].phone] # TaskOf[t]
    BY DEF NoHangupRace, NoSpareWakeup
  <2>1. ~Poke(t)
    BY DEF Poke, IInv, Types
  <2>2. ASSUME thr[t].pc \in {"calls", "slam_all"} PROVE Client(TaskOf[t])
    BY <2>2 DEF ClientInv, ClientThread, SyscallPCs
  <2>3. ~CleanupCalls(t)
    BY <2>2 DEF CleanupCalls, Client
  <2>4. ASSUME SlamDone(t), NEW u \in Threads, thr[u].pc = "hungup"
        PROVE  callee[thr[u].phone] # TaskOf[t]
    <3>1. Unreachable(TaskOf[t])
      BY <2>2, <2>4 DEF SlamDone, Client
    <3>2. thr[u].phone \in Phones /\ state[thr[u].phone] = "CONNECTED"
      BY <2>4, HandPhone DEF PhonePCs
    <3> QED BY <3>1, <3>2 DEF Unreachable
  <2> QED BY <2>1, <2>3, <2>4
<1>3. [Next]_vars /\ [NoneForgotten]_vars /\ NoHangupRace /\ NoSpareWakeup =>
          [NoneForgotten /\ NoHangupRace /\ NoSpareWakeup]_vars
  OBVIOUS
<1> QED BY <1>1, <1>2, <1>3, ClientStep, BoxAliveAlways, Invariance, PTL DEF Spec
=============================================================================
