-------------------------- MODULE SlotStateProofs --------------------------
(***************************************************************************)
(* Proofs about SlotState, for any slots, locations and bounds: what the   *)
(* bridge holds of a slot did happen, its checks, number of items and      *)
(* status are never behind the save it merged, and never go back while the *)
(* bridge runs; a goal in the bridge's file stays one; no count a page     *)
(* lacks is forgotten.                                                     *)
(*                                                                         *)
(* First what a save's items are (by induction on the naturals), then what *)
(* the helpers make of one slot's record, the inductive invariant with one *)
(* lemma per action, and the theorems.                                     *)
(***************************************************************************)
EXTENDS SlotState, SequenceTheorems, FiniteSetTheorems, WellFoundedInduction, TLAPS

-----------------------------------------------------------------------------
(* The items of a history *)

\* A non-empty set of naturals has a least element.
LEMMA LeastNatural ==
    ASSUME NEW T, T \subseteq Nat, T # {}
    PROVE  \E x \in T : \A y \in T : x <= y
<1> DEFINE R == OpToRel(<, Nat)
<1>1. \A x, y \in Nat : x < y => <<x, y>> \in R
  BY Zenon DEF OpToRel
<1>2. PICK x \in T : \A y \in T : <<y, x>> \notin R
  <2>1. IsWellFoundedOn(R, Nat)
    BY NatLessThanWellFounded, Zenon
  <2> HIDE DEF R
  <2> QED
    BY <2>1, WFMin
<1> HIDE DEF R
<1>3. \A y \in T : ~(y < x)
  BY <1>1, <1>2
<1> QED
  BY <1>3

\* Induction on the naturals, for a set given by its members.
LEMMA NaturalsOf ==
    ASSUME NEW S, 0 \in S, \A n \in Nat : n \in S => n + 1 \in S
    PROVE  Nat \subseteq S
<1> SUFFICES ASSUME Nat \ S # {} PROVE FALSE
  OBVIOUS
<1>1. PICK x \in Nat \ S : \A y \in Nat \ S : x <= y
  BY LeastNatural
<1>2. x # 0 /\ x - 1 \in Nat
  BY <1>1
<1>3. x - 1 \in S
  BY <1>1, <1>2
<1>4. (x - 1) + 1 \in S
  BY <1>2, <1>3
<1> QED
  BY <1>1, <1>4

\* The recursion that selects the items of a slot is well defined.
LEMMA ReceiptsRecursion ==
    ASSUME NEW h \in Seq(Locations), NEW s
    PROVE  Receipts(h, s) = [i \in 0..Len(h) |->
             IF i = 0 THEN <<>>
             ELSE IF ReceiverOf[h[i]] = s THEN Append(Receipts(h, s)[i-1], h[i])
             ELSE Receipts(h, s)[i-1]]
<1> DEFINE Step(g, i) == IF i = 0 THEN <<>>
                         ELSE IF ReceiverOf[h[i]] = s THEN Append(g[i-1], h[i])
                         ELSE g[i-1]
           S == {n \in Nat : \E g : g = [i \in 0..n |-> Step(g, i)]}
<1>1. 0 \in S
  <2> DEFINE g == [i \in 0..0 |-> <<>>]
  <2>1. g = [i \in 0..0 |-> Step(g, i)]
    OBVIOUS
  <2> QED
    BY <2>1
<1>2. ASSUME NEW n \in Nat, n \in S PROVE n + 1 \in S
  <2>1. PICK g : g = [i \in 0..n |-> Step(g, i)]
    BY <1>2
  <2> DEFINE k == [i \in 0..(n+1) |-> IF i = n+1 THEN Step(g, n+1) ELSE g[i]]
  <2>2. \A i \in 0..(n+1) : k[i] = Step(k, i)
    <3> TAKE i \in 0..(n+1)
    <3>1. CASE i = 0
      <4>1. g[0] = <<>>
        BY <2>1
      <4> QED
        BY <3>1, <4>1
    <3>2. CASE i \in 1..n
      <4>1. i - 1 \in 0..(n+1) /\ i - 1 # n + 1 /\ i \in 0..n /\ i # n + 1 /\ i # 0
        BY <3>2
      <4>2. k[i] = g[i] /\ k[i-1] = g[i-1]
        BY <4>1
      <4>3. g[i] = Step(g, i)
        BY <2>1, <4>1
      <4> HIDE DEF k
      <4> QED
        BY <4>1, <4>2, <4>3
    <3>3. CASE i = n + 1
      <4>1. n \in 0..(n+1) /\ n # n + 1 /\ n + 1 # 0 /\ (n + 1) - 1 = n
        OBVIOUS
      <4>2. k[n+1] = Step(g, n+1) /\ k[n] = g[n]
        BY <4>1
      <4> HIDE DEF k
      <4> QED
        BY <3>3, <4>1, <4>2
    <3> QED
      BY <3>1, <3>2, <3>3
  <2>3. k = [i \in 0..(n+1) |-> k[i]]
    OBVIOUS
  <2> HIDE DEF k
  <2>4. k = [i \in 0..(n+1) |-> Step(k, i)]
    BY <2>2, <2>3
  <2> QED
    BY <2>4
<1>3. Nat \subseteq S
  <2> HIDE DEF S
  <2> QED
    BY <1>1, <1>2, NaturalsOf
<1>4. Len(h) \in Nat
  BY LenProperties
<1>5. \E g : g = [i \in 0..Len(h) |-> Step(g, i)]
  BY <1>3, <1>4
<1>6. Receipts(h, s) = CHOOSE g : g = [i \in 0..Len(h) |-> Step(g, i)]
  BY DEF Receipts
<1> HIDE DEF Step
<1>7. Receipts(h, s) = [i \in 0..Len(h) |-> Step(Receipts(h, s), i)]
  BY <1>5, <1>6
<1> QED
  BY <1>7 DEF Step

\* A history's items of a slot are the locations it checked that send to it.
LEMMA ReceivedItems ==
    ASSUME NEW h \in Seq(Locations), NEW s
    PROVE  /\ Received(h, s) \in Seq(Locations)
           /\ ToSet(Received(h, s)) = {l \in ToSet(h) : ReceiverOf[l] = s}
<1> DEFINE R == Receipts(h, s)
           Sent(n) == {h[j] : j \in {k \in 1..n : ReceiverOf[h[k]] = s}}
           Right(n) == R[n] \in Seq(Locations) /\ ToSet(R[n]) = Sent(n)
           S == {n \in Nat : n <= Len(h) => Right(n)}
<1>0. Len(h) \in Nat /\ (\A i \in 1..Len(h) : h[i] \in Locations) /\ DOMAIN h = 1..Len(h)
  BY LenProperties, ElementOfSeq
<1>1. \A i \in 0..Len(h) : R[i] = IF i = 0 THEN <<>>
                                   ELSE IF ReceiverOf[h[i]] = s THEN Append(R[i-1], h[i])
                                   ELSE R[i-1]
  <2> HIDE DEF R
  <2>1. R = [i \in 0..Len(h) |-> IF i = 0 THEN <<>>
                                  ELSE IF ReceiverOf[h[i]] = s THEN Append(R[i-1], h[i])
                                  ELSE R[i-1]]
    BY ReceiptsRecursion DEF R
  <2> QED
    BY <2>1
<1> HIDE DEF R
<1>2. 0 \in S
  <2>1. R[0] = <<>> /\ Sent(0) = {}
    BY <1>0, <1>1
  <2>2. <<>> \in Seq(Locations) /\ ToSet(<<>>) = {}
    BY DEF ToSet
  <2> QED
    BY <2>1, <2>2
<1>3. ASSUME NEW n \in Nat, n \in S PROVE n + 1 \in S
  <2> SUFFICES ASSUME n + 1 <= Len(h) PROVE Right(n + 1)
    OBVIOUS
  <2>1. n + 1 \in 0..Len(h) /\ n + 1 # 0 /\ (n + 1) - 1 = n /\ h[n+1] \in Locations
    BY <1>0
  <2>2. Right(n)
    BY <1>0, <1>3
  <2>3. Sent(n+1) = IF ReceiverOf[h[n+1]] = s THEN Sent(n) \cup {h[n+1]} ELSE Sent(n)
    <3>1. 1..(n+1) = (1..n) \cup {n+1}
      OBVIOUS
    <3> QED
      BY <3>1
  <2>4. CASE ReceiverOf[h[n+1]] = s
    <3>1. R[n+1] = Append(R[n], h[n+1])
      BY <1>1, <2>1, <2>4
    <3> DEFINE r == R[n]
               l == h[n+1]
    <3>2. r \in Seq(Locations) /\ l \in Locations
      BY <2>1, <2>2
    <3>3. Append(r, l) \in Seq(Locations) /\ ToSet(Append(r, l)) = ToSet(r) \cup {l}
      <4> HIDE DEF r, l
      <4>1. /\ Append(r, l) \in Seq(Locations)
            /\ Len(Append(r, l)) = Len(r) + 1
            /\ \A i \in 1..Len(r) : Append(r, l)[i] = r[i]
            /\ Append(r, l)[Len(r) + 1] = l
            /\ Len(r) \in Nat
        BY <3>2, AppendProperties, LenProperties
      <4>2. DOMAIN Append(r, l) = 1..(Len(r) + 1) /\ DOMAIN r = 1..Len(r)
        BY <3>2, <4>1, LenProperties
      <4>3. 1..(Len(r) + 1) = (1..Len(r)) \cup {Len(r) + 1}
        BY <4>1
      <4> QED
        BY <4>1, <4>2, <4>3 DEF ToSet
    <3> QED
      BY <2>2, <2>3, <2>4, <3>1, <3>3
  <2>5. CASE ReceiverOf[h[n+1]] # s
    BY <1>1, <2>1, <2>2, <2>3, <2>5
  <2> QED
    BY <2>4, <2>5
<1>4. Len(h) \in S
  <2> HIDE DEF S
  <2> QED
    BY <1>0, <1>2, <1>3, NaturalsOf
<1>5. Right(Len(h))
  BY <1>0, <1>4
<1>6. Sent(Len(h)) = {l \in ToSet(h) : ReceiverOf[l] = s}
  BY <1>0 DEF ToSet
<1> QED
  BY <1>5, <1>6 DEF Received, R

-----------------------------------------------------------------------------
(* What the helpers make of one slot's record *)

Statuses == {0, Playing, Goal}

LEMMA StatusOrder == /\ \A x \in Statuses : x \in Nat /\ x <= Goal
                     /\ 0 \in Statuses /\ Playing \in Statuses /\ Goal \in Statuses
                     /\ \A x \in Statuses : x > Playing => x = Goal
  BY DEF Statuses, Playing, Goal

\* Record p is of slot s, and says nothing that history h and statuses st do not.
SlotOK(h, st, s, p) ==
    /\ p \in SlotRecord(s)
    /\ p.goalAt # "none" <=> p.status = Goal
    /\ p.checks \subseteq ToSet(h)
    /\ ToSet(p.items) \subseteq {l \in ToSet(h) : ReceiverOf[l] = s}
    /\ p.status = Goal => st[s] = Goal

\* From p to q a slot does not go back: items count by their number.
Keeps(p, q) ==
    /\ p.checks \subseteq q.checks
    /\ Len(p.items) <= Len(q.items)
    /\ p.status <= q.status
    /\ p.goalAt # "none" => q.goalAt = p.goalAt

\* q is not behind p in checks, number of items and status.
Covers(q, p) ==
    /\ p.checks \subseteq q.checks
    /\ Len(p.items) <= Len(q.items)
    /\ p.status <= q.status

\* The types of a record's fields.
LEMMA RecordFields ==
    ASSUME NEW h, NEW st, NEW s, NEW p, SlotOK(h, st, s, p)
    PROVE  /\ p.checks \subseteq {l \in Locations : FinderOf[l] = s}
           /\ p.items \in Seq(Locations) /\ Len(p.items) \in Nat
           /\ p.status \in Statuses /\ p.status \in Nat
           /\ p.goalAt \in {"none", "told", "loading"}
           /\ p = [checks |-> p.checks, items |-> p.items,
                   status |-> p.status, goalAt |-> p.goalAt]
<1>1. /\ p.checks \subseteq {l \in Locations : FinderOf[l] = s}
      /\ p.items \in Seq(Locations)
      /\ p.status \in Statuses
      /\ p.goalAt \in {"none", "told", "loading"}
      /\ p = [checks |-> p.checks, items |-> p.items,
              status |-> p.status, goalAt |-> p.goalAt]
  BY DEF SlotOK, SlotRecord, Statuses
<1> QED
  BY <1>1, StatusOrder, LenProperties

\* A record with some checks more, or another status, field by field.
LEMMA ChecksAdded ==
    ASSUME NEW s, NEW p \in SlotRecord(s), NEW C, NEW q, q = [p EXCEPT !.checks = @ \cup C]
    PROVE  q = [checks |-> p.checks \cup C, items |-> p.items,
                status |-> p.status, goalAt |-> p.goalAt]
  BY DEF SlotRecord

LEMMA StatusSet ==
    ASSUME NEW s, NEW p \in SlotRecord(s), NEW value, NEW g,
           NEW q, q = [p EXCEPT !.status = value, !.goalAt = g]
    PROVE  q = [checks |-> p.checks, items |-> p.items, status |-> value, goalAt |-> g]
  BY DEF SlotRecord

LEMMA KeepsItself ==
    ASSUME NEW h, NEW st, NEW s, NEW p, SlotOK(h, st, s, p)
    PROVE  Keeps(p, p)
  BY RecordFields DEF Keeps

LEMMA KeepsTransitive ==
    ASSUME NEW h, NEW st, NEW s, NEW p, NEW q, NEW r,
           SlotOK(h, st, s, p), SlotOK(h, st, s, q), SlotOK(h, st, s, r),
           Keeps(p, q), Keeps(q, r)
    PROVE  Keeps(p, r)
<1>1. /\ p.status \in Nat /\ q.status \in Nat /\ r.status \in Nat
      /\ Len(p.items) \in Nat /\ Len(q.items) \in Nat /\ Len(r.items) \in Nat
  BY RecordFields
<1> QED
  BY <1>1 DEF Keeps

LEMMA CoversTransitive ==
    ASSUME NEW h, NEW st, NEW h2, NEW st2, NEW s, NEW p, NEW q, NEW r,
           SlotOK(h, st, s, p), SlotOK(h, st, s, q), SlotOK(h2, st2, s, r),
           Covers(q, p), Keeps(q, r)
    PROVE  Covers(r, p)
<1>1. /\ p.status \in Nat /\ q.status \in Nat /\ r.status \in Nat
      /\ Len(p.items) \in Nat /\ Len(q.items) \in Nat /\ Len(r.items) \in Nat
  BY RecordFields
<1> QED
  BY <1>1 DEF Keeps, Covers

\* What is true stays true while the server goes on.
LEMMA SlotStaysOK ==
    ASSUME NEW h, NEW st, NEW h2, NEW st2, NEW s \in Slots, NEW p, SlotOK(h, st, s, p),
           ToSet(h) \subseteq ToSet(h2), \A t \in Slots : st[t] = Goal => st2[t] = Goal
    PROVE  SlotOK(h2, st2, s, p)
  BY DEF SlotOK

\* A record nobody was told anything of.
LEMMA NewSlotOK ==
    ASSUME NEW h, NEW st, NEW s
    PROVE  SlotOK(h, st, s, NewSlot)
<1>1. <<>> \in Seq(Locations) /\ ToSet(<<>>) = {}
  BY DEF ToSet
<1>2. 0 # Goal
  BY DEF Goal
<1> QED
  BY <1>1, <1>2 DEF NewSlot, SlotOK, SlotRecord

\* A save is what it was when written, or the last that was.
SaveOK(h, st, f) ==
    /\ f \in [history : Seq(Locations), status : [Slots -> Statuses]]
    /\ ToSet(f.history) \subseteq ToSet(h)
    /\ \A s \in Slots : f.status[s] = Goal => st[s] = Goal

\* What is loaded of a save did happen.
LEMMA SavedOK ==
    ASSUME NEW h \in Seq(Locations), NEW st, NEW f, SaveOK(h, st, f), NEW s \in Slots
    PROVE  SlotOK(h, st, s, Saved(f, s))
<1> DEFINE p == Saved(f, s)
<1>1. f.history \in Seq(Locations) /\ f.status[s] \in Statuses
  BY DEF SaveOK
<1>2. /\ p.checks = Checked(f.history, s)
      /\ p.items = Received(f.history, s)
      /\ p.status = f.status[s]
      /\ p.goalAt = IF f.status[s] = Goal THEN "loading" ELSE "none"
      /\ p = [checks |-> p.checks, items |-> p.items,
              status |-> p.status, goalAt |-> p.goalAt]
  BY DEF Saved
<1> HIDE DEF p
<1>3. /\ p.items \in Seq(Locations)
      /\ ToSet(p.items) = {l \in ToSet(f.history) : ReceiverOf[l] = s}
  BY <1>1, <1>2, ReceivedItems
<1>4. ToSet(f.history) \subseteq Locations
  BY <1>1, LenProperties, ElementOfSeq DEF ToSet
<1>5. p.checks \subseteq {l \in Locations : FinderOf[l] = s}
  BY <1>2, <1>4 DEF Checked
<1>6. p \in SlotRecord(s)
  BY <1>1, <1>2, <1>3, <1>5 DEF SlotRecord, Statuses
<1>7. p.checks \subseteq ToSet(h)
  BY <1>2 DEF Checked, SaveOK
<1>8. SlotOK(h, st, s, p)
  BY <1>2, <1>3, <1>6, <1>7 DEF SlotOK, SaveOK
<1> QED
  BY <1>8 DEF p

\* A merge loses nothing, invents nothing and leaves nothing of the save behind.
LEMMA MergeSlotOK ==
    ASSUME NEW h, NEW st, NEW s, NEW p, NEW saved,
           SlotOK(h, st, s, p), SlotOK(h, st, s, saved)
    PROVE  /\ SlotOK(h, st, s, MergeSlot(p, saved))
           /\ Keeps(p, MergeSlot(p, saved))
           /\ Covers(MergeSlot(p, saved), saved)
<1> DEFINE q == MergeSlot(p, saved)
<1>1. /\ q.checks = p.checks \cup saved.checks
      /\ q.items = IF Len(saved.items) > Len(p.items) THEN saved.items ELSE p.items
      /\ q.status = IF saved.status > p.status THEN saved.status ELSE p.status
      /\ q.goalAt = IF saved.status > p.status /\ saved.status = Goal /\ p.goalAt = "none"
                    THEN saved.goalAt ELSE p.goalAt
      /\ q = [checks |-> q.checks, items |-> q.items,
              status |-> q.status, goalAt |-> q.goalAt]
  BY DEF MergeSlot
<1> HIDE DEF q
<1>2. /\ p.checks \subseteq {l \in Locations : FinderOf[l] = s}
      /\ saved.checks \subseteq {l \in Locations : FinderOf[l] = s}
      /\ p.items \in Seq(Locations) /\ saved.items \in Seq(Locations)
      /\ Len(p.items) \in Nat /\ Len(saved.items) \in Nat
      /\ p.status \in Statuses /\ saved.status \in Statuses
      /\ p.status \in Nat /\ saved.status \in Nat
      /\ p.goalAt \in {"none", "told", "loading"}
      /\ saved.goalAt \in {"none", "told", "loading"}
  BY RecordFields
<1>3. q \in SlotRecord(s)
  <2>1. q.items \in Seq(Locations) /\ q.status \in Statuses
        /\ q.goalAt \in {"none", "told", "loading"}
        /\ q.checks \subseteq {l \in Locations : FinderOf[l] = s}
    BY <1>1, <1>2
  <2> QED
    BY <1>1, <2>1 DEF SlotRecord, Statuses
<1>4. q.goalAt # "none" <=> q.status = Goal
  BY <1>1, <1>2, StatusOrder DEF SlotOK
<1>5. SlotOK(h, st, s, q)
  BY <1>1, <1>3, <1>4 DEF SlotOK
<1>6. Keeps(p, q)
  BY <1>1, <1>2, StatusOrder DEF Keeps, SlotOK
<1>7. Covers(q, saved)
  BY <1>1, <1>2 DEF Covers
<1> QED
  BY <1>5, <1>6, <1>7 DEF q

\* A status that is the server's, and no lower.
LEMMA WithStatusOK ==
    ASSUME NEW h, NEW st, NEW s, NEW p, SlotOK(h, st, s, p),
           NEW value \in Statuses, p.status <= value, value = Goal => st[s] = Goal
    PROVE  /\ SlotOK(h, st, s, WithStatus(p, value))
           /\ Keeps(p, WithStatus(p, value))
           /\ WithStatus(p, value).status = value
<1> DEFINE q == WithStatus(p, value)
<1>0. p \in SlotRecord(s)
  BY DEF SlotOK
<1>1. q = [checks |-> p.checks, items |-> p.items, status |-> value,
           goalAt |-> IF value = Goal /\ p.goalAt = "none" THEN "told" ELSE p.goalAt]
  <2> DEFINE g == IF value = Goal /\ p.goalAt = "none" THEN "told" ELSE p.goalAt
  <2>1. q = [p EXCEPT !.status = value, !.goalAt = g]
    BY DEF WithStatus
  <2> HIDE DEF q, g
  <2>2. q = [checks |-> p.checks, items |-> p.items, status |-> value, goalAt |-> g]
    BY <1>0, <2>1, StatusSet
  <2> QED
    BY <2>2 DEF g
<1> HIDE DEF q
<1>2. /\ p.checks \subseteq {l \in Locations : FinderOf[l] = s}
      /\ p.items \in Seq(Locations) /\ Len(p.items) \in Nat
      /\ p.status \in Statuses /\ p.goalAt \in {"none", "told", "loading"}
  BY RecordFields
<1>3. q \in SlotRecord(s)
  BY <1>1, <1>2 DEF SlotRecord, Statuses
<1>4. q.goalAt # "none" <=> q.status = Goal
  BY <1>1, <1>2 DEF SlotOK, Statuses, Playing, Goal
<1>5. SlotOK(h, st, s, q)
  BY <1>1, <1>3, <1>4 DEF SlotOK
<1>6. Keeps(p, q)
  BY <1>1, <1>2 DEF Keeps
<1> QED
  BY <1>1, <1>5, <1>6 DEF q

\* Checks of the slot, made by now, are added.
LEMMA CheckedOK ==
    ASSUME NEW h \in Seq(Locations), NEW st, NEW s, NEW p, SlotOK(h, st, s, p),
           NEW C, C \subseteq Checked(h, s)
    PROVE  /\ SlotOK(h, st, s, [p EXCEPT !.checks = @ \cup C])
           /\ Keeps(p, [p EXCEPT !.checks = @ \cup C])
<1> DEFINE q == [p EXCEPT !.checks = @ \cup C]
<1>0. p \in SlotRecord(s)
  BY DEF SlotOK
<1>1. q = [checks |-> p.checks \cup C, items |-> p.items,
           status |-> p.status, goalAt |-> p.goalAt]
  <2>1. q = [p EXCEPT !.checks = @ \cup C]
    OBVIOUS
  <2> HIDE DEF q
  <2> QED
    BY <1>0, <2>1, ChecksAdded
<1> HIDE DEF q
<1>2. ToSet(h) \subseteq Locations
  BY LenProperties, ElementOfSeq DEF ToSet
<1>3. C \subseteq {l \in Locations : FinderOf[l] = s} /\ C \subseteq ToSet(h)
  BY <1>2 DEF Checked
<1>4. SlotOK(h, st, s, q)
  <2>1. q \in SlotRecord(s)
    BY <1>1, <1>3, RecordFields DEF SlotRecord, Statuses
  <2> QED
    BY <1>1, <1>3, <2>1 DEF SlotOK
<1>5. Keeps(p, q)
  BY <1>1, RecordFields DEF Keeps
<1> QED
  BY <1>4, <1>5 DEF q

\* An item of the slot, sent by now, is appended.
LEMMA ItemOK ==
    ASSUME NEW h, NEW st, NEW s, NEW p, SlotOK(h, st, s, p),
           NEW l \in Locations, l \in ToSet(h), ReceiverOf[l] = s
    PROVE  /\ SlotOK(h, st, s, [p EXCEPT !.items = Append(@, l)])
           /\ Keeps(p, [p EXCEPT !.items = Append(@, l)])
<1> DEFINE q == [p EXCEPT !.items = Append(@, l)]
           r == p.items
<1>0. p \in SlotRecord(s)
  BY DEF SlotOK
<1>1. q = [checks |-> p.checks, items |-> Append(r, l),
           status |-> p.status, goalAt |-> p.goalAt]
  BY <1>0 DEF SlotRecord
<1> HIDE DEF q
<1>2. r \in Seq(Locations) /\ Len(r) \in Nat
  BY RecordFields
<1>3. /\ Append(r, l) \in Seq(Locations)
      /\ Len(Append(r, l)) = Len(r) + 1
      /\ ToSet(Append(r, l)) = ToSet(r) \cup {l}
  <2> HIDE DEF r
  <2>1. /\ Append(r, l) \in Seq(Locations)
        /\ Len(Append(r, l)) = Len(r) + 1
        /\ \A i \in 1..Len(r) : Append(r, l)[i] = r[i]
        /\ Append(r, l)[Len(r) + 1] = l
    BY <1>2, AppendProperties
  <2>2. DOMAIN Append(r, l) = 1..(Len(r) + 1) /\ DOMAIN r = 1..Len(r)
    BY <1>2, <2>1, LenProperties
  <2>3. 1..(Len(r) + 1) = (1..Len(r)) \cup {Len(r) + 1}
    BY <1>2
  <2> QED
    BY <2>1, <2>2, <2>3 DEF ToSet
<1>4. q \in SlotRecord(s)
  BY <1>1, <1>3, RecordFields DEF SlotRecord, Statuses
<1>5. SlotOK(h, st, s, q)
  BY <1>1, <1>3, <1>4 DEF SlotOK
<1>6. Keeps(p, q)
  BY <1>1, <1>2, <1>3, RecordFields DEF Keeps
<1> QED
  BY <1>5, <1>6 DEF q

\* A check of the history adds to the records of its two slots.
LEMMA FoundOK ==
    ASSUME NEW h \in Seq(Locations), NEW st, NEW ps,
           \A s \in Slots : SlotOK(h, st, s, ps[s]),
           NEW l, l \in ToSet(h), NEW s \in Slots
    PROVE  SlotOK(h, st, s, Found(ps, l)[s]) /\ Keeps(ps[s], Found(ps, l)[s])
<1> DEFINE p == ps[s]
           q == [p EXCEPT !.checks = @ \cup {l}]
           r == IF q.status < Playing THEN WithStatus(q, Playing) ELSE q
           t == IF s = FinderOf[l] THEN r ELSE p
<1>0. l \in Locations
  BY LenProperties, ElementOfSeq DEF ToSet
<1>1. SlotOK(h, st, s, p)
  OBVIOUS
<1>2. s = FinderOf[l] => SlotOK(h, st, s, q) /\ Keeps(p, q)
  <2>1. s = FinderOf[l] => {l} \subseteq Checked(h, s)
    BY DEF Checked
  <2> HIDE DEF p
  <2> QED
    BY <1>1, <2>1, CheckedOK
<1>3. s = FinderOf[l] => SlotOK(h, st, s, r) /\ Keeps(p, r)
  <2> SUFFICES ASSUME s = FinderOf[l] PROVE SlotOK(h, st, s, r) /\ Keeps(p, r)
    OBVIOUS
  <2> HIDE DEF p, q
  <2>1. SlotOK(h, st, s, q) /\ Keeps(p, q) /\ q.status \in Nat
    BY <1>2, RecordFields
  <2>2. CASE q.status < Playing
    <3>1. q.status <= Playing /\ Playing # Goal
      BY <2>1, <2>2 DEF Playing, Goal
    <3>2. SlotOK(h, st, s, r) /\ Keeps(q, r)
      BY <2>1, <2>2, <3>1, StatusOrder, WithStatusOK
    <3> QED
      BY <1>1, <2>1, <3>2, KeepsTransitive
  <2>3. CASE ~(q.status < Playing)
    BY <2>1, <2>3
  <2> QED
    BY <2>2, <2>3
<1>4. SlotOK(h, st, s, t) /\ Keeps(p, t)
  <2> HIDE DEF p, q, r
  <2> QED
    BY <1>1, <1>3, KeepsItself
<1>5. Found(ps, l)[s] = IF s = ReceiverOf[l] THEN [t EXCEPT !.items = Append(@, l)] ELSE t
  BY DEF Found
<1> HIDE DEF t, p
<1>6. CASE s = ReceiverOf[l]
  <2>1. /\ SlotOK(h, st, s, [t EXCEPT !.items = Append(@, l)])
        /\ Keeps(t, [t EXCEPT !.items = Append(@, l)])
    BY <1>0, <1>4, <1>6, ItemOK
  <2> QED
    BY <1>1, <1>4, <1>5, <1>6, <2>1, KeepsTransitive DEF p
<1>7. CASE s # ReceiverOf[l]
  BY <1>4, <1>5, <1>7 DEF p
<1> QED
  BY <1>6, <1>7

\* A record loaded from the save, or from nothing, then the goals kept.
LEMMA LoadOK ==
    ASSUME NEW h, NEW st, NEW s, NEW p, SlotOK(h, st, s, p),
           NEW kept \in BOOLEAN, kept => st[s] = Goal
    PROVE  /\ SlotOK(h, st, s, LoadGoal(p, kept))
           /\ kept => LoadGoal(p, kept).status = Goal
<1>0. p.status \in Statuses
  BY RecordFields
<1>1. CASE kept /\ p.status < Goal
  <2> DEFINE q == LoadGoal(p, kept)
  <2>0. p \in SlotRecord(s)
    BY DEF SlotOK
  <2>1. q = [checks |-> p.checks, items |-> p.items,
             status |-> Goal, goalAt |-> "told"]
    BY <1>1, <2>0 DEF LoadGoal, SlotRecord
  <2> HIDE DEF q
  <2>2. q \in SlotRecord(s)
    BY <2>1, RecordFields DEF SlotRecord
  <2>3. SlotOK(h, st, s, q)
    BY <1>1, <2>1, <2>2 DEF SlotOK
  <2> QED
    BY <2>1, <2>3 DEF q
<1>2. CASE ~(kept /\ p.status < Goal)
  <2>1. LoadGoal(p, kept) = p
    BY <1>2 DEF LoadGoal
  <2>2. kept => p.status = Goal
    BY <1>0, <1>2 DEF Statuses, Playing, Goal
  <2> QED
    BY <2>1, <2>2
<1> QED
  BY <1>1, <1>2

\* What a page is shown of a slot is two numbers.
LEMMA CountsType ==
    ASSUME NEW h \in Seq(Locations), NEW st, NEW s, NEW p, SlotOK(h, st, s, p)
    PROVE  Counts(p) \in Nat \X Nat
<1>1. IsFiniteSet(ToSet(h))
  <2>1. Len(h) \in Nat /\ h \in [1..Len(h) -> Locations] /\ DOMAIN h = 1..Len(h)
    BY LenProperties
  <2>2. h \in Surjection(1..Len(h), ToSet(h))
    BY <2>1 DEF Surjection, ToSet
  <2>3. ExistsSurjection(1..Len(h), ToSet(h))
    BY <2>2 DEF ExistsSurjection
  <2> QED
    BY <2>1, <2>3, FS_NatSurjection
<1>2. Cardinality(p.checks) \in Nat
  <2>1. p.checks \in SUBSET ToSet(h)
    BY DEF SlotOK
  <2> QED
    BY <1>1, <2>1, FS_Subset, FS_CardinalityType
<1> QED
  BY <1>2, RecordFields DEF Counts

-----------------------------------------------------------------------------
(* The inductive invariant *)

\* What the server may have sent, given what happened.
Truths(h, st) ==
         [type : {"ItemSend"}, location : ToSet(h)]
    \cup [type : {"Goal"}, slot : {s \in Slots : st[s] = Goal}]
    \cup [type : {"Connected"}, checks : SUBSET Checked(h, MySlot)]

SlotsOK ==
    /\ slots = [s \in Slots |-> slots[s]]
    /\ \A s \in Slots : SlotOK(history, status, s, slots[s])

ServerOK ==
    /\ history \in Seq(Locations)
    /\ status \in [Slots -> Statuses]
    /\ SaveOK(history, status, save)

LinkOK ==
    /\ link \in BOOLEAN
    /\ links \in 0..MaxLinks
    /\ inbox \in Seq(Truths(history, status))

GoalsOK == goalsFile \subseteq Slots /\ KeptGoalsHold

ToldOK == told = NoPage \/ told \in [Slots -> Nat \X Nat]

SweepOK ==
    /\ unread \in BOOLEAN
    /\ restarts \in 0..MaxRestarts
    /\ due \subseteq Slots
    /\ sweeping \in BOOLEAN

Inv == SlotsOK /\ ServerOK /\ LinkOK /\ GoalsOK /\ ToldOK /\ SweepOK
       /\ LagIsSwept /\ NeverBehindSave

AllKept == \A s \in Slots : Keeps(slots[s], slots'[s])

\* What an action has to show.
Step == Inv' /\ (restarts' = restarts => AllKept)

\* NeverBehindSave, in terms of the records.
LEMMA NotBehind == NeverBehindSave <=>
                     (~unread => \A s \in Slots : Covers(slots[s], Saved(save, s)))
  BY DEF NeverBehindSave, Covers

\* A step of the bridge that replaces each record by one that keeps it.
LEMMA RecordsStep ==
    ASSUME Inv, UNCHANGED serverVars, slots' = [s \in Slots |-> slots'[s]],
           \A s \in Slots : /\ SlotOK(history, status, s, slots'[s])
                            /\ Keeps(slots[s], slots'[s])
    PROVE  /\ SlotsOK' /\ ServerOK' /\ AllKept
           /\ unread' = unread => NeverBehindSave'
           /\ goalsFile' = goalsFile => GoalsOK'
<1>1. history' = history /\ status' = status /\ save' = save
  BY DEF serverVars
<1>2. SlotsOK' /\ ServerOK' /\ AllKept
  BY <1>1 DEF Inv, SlotsOK, ServerOK, AllKept
<1>3. ASSUME unread' = unread PROVE NeverBehindSave'
  <2> SUFFICES ASSUME ~unread', NEW s \in Slots PROVE Covers(slots'[s], Saved(save', s))
    BY DEF NeverBehindSave, Covers
  <2>1. Covers(slots[s], Saved(save, s))
    BY <1>3, NotBehind DEF Inv
  <2>2. SlotOK(history, status, s, slots[s]) /\ SlotOK(history, status, s, Saved(save, s))
    BY SavedOK DEF Inv, SlotsOK, ServerOK
  <2>3. Covers(slots'[s], Saved(save, s))
    BY <2>1, <2>2, CoversTransitive
  <2> QED
    BY <1>1, <2>3
<1>4. ASSUME goalsFile' = goalsFile PROVE GoalsOK'
  <2>1. ASSUME NEW s \in goalsFile PROVE slots'[s].status = Goal
    <3>1. s \in Slots /\ slots[s].status = Goal
      BY <2>1 DEF Inv, GoalsOK, KeptGoalsHold
    <3>2. Goal <= slots'[s].status
      BY <3>1 DEF Keeps
    <3>3. slots'[s].status \in Statuses
      BY <3>1, RecordFields
    <3> QED
      BY <3>2, <3>3 DEF Statuses, Playing, Goal
  <2> QED
    BY <1>4, <2>1 DEF Inv, GoalsOK, KeptGoalsHold
<1> QED
  BY <1>2, <1>3, <1>4

\* Records left alone.
LEMMA SameRecords ==
    ASSUME Inv, slots' = slots
    PROVE  /\ slots' = [s \in Slots |-> slots'[s]]
           /\ \A s \in Slots : /\ SlotOK(history, status, s, slots'[s])
                               /\ Keeps(slots[s], slots'[s])
  BY KeepsItself DEF Inv, SlotsOK

\* What pages are shown is two numbers a slot.
LEMMA ShownType ==
    ASSUME NEW h \in Seq(Locations), NEW st, NEW ps,
           \A s \in Slots : SlotOK(h, st, s, ps[s])
    PROVE  Shown(ps) \in [Slots -> Nat \X Nat]
<1>1. \A s \in Slots : Counts(ps[s]) \in Nat \X Nat
  BY CountsType
<1> QED
  BY <1>1 DEF Shown

\* Whoever pushes leaves the page nothing to miss.
LEMMA ShowOK == ASSUME SlotsOK', ServerOK', Show PROVE LagIsSwept' /\ ToldOK'
<1>1. Shown(slots') \in [Slots -> Nat \X Nat]
  BY ShownType DEF SlotsOK, ServerOK
<1>2. told' = IF told = NoPage THEN NoPage ELSE Shown(slots')
  BY DEF Show
<1>3. LagIsSwept'
  BY DEF Show, LagIsSwept, Shown
<1> QED
  BY <1>1, <1>2, <1>3 DEF ToldOK

\* Whoever does not marks what changed as due.
LEMMA DueStays ==
    ASSUME LagIsSwept, MakeDue, told' = told, sweeping' = sweeping
    PROVE  LagIsSwept'
  BY DEF LagIsSwept, MakeDue

LEMMA MakeDueOK == ASSUME SweepOK, MakeDue PROVE due' \subseteq Slots
  BY DEF SweepOK, MakeDue

LEMMA LagStays ==
    ASSUME LagIsSwept, ToldOK, UNCHANGED <<slots, told, due, sweeping>>
    PROVE  LagIsSwept' /\ ToldOK'
  BY DEF LagIsSwept, ToldOK

\* A packet is read: it tells of something that happened.
LEMMA ReceiveOK ==
    ASSUME LinkOK, NEW type, Receive(type)
    PROVE  /\ Head(inbox) \in Truths(history, status) /\ Head(inbox).type = type
           /\ inbox' \in Seq(Truths(history, status))
  BY HeadTailProperties DEF LinkOK, Receive

\* The packets tell the truth, and go on doing so.
LEMMA TruthsGrow ==
    ASSUME NEW h, NEW st, NEW h2, NEW st2,
           ToSet(h) \subseteq ToSet(h2), \A s \in Slots : st[s] = Goal => st2[s] = Goal
    PROVE  Truths(h, st) \subseteq Truths(h2, st2)
<1>1. Checked(h, MySlot) \subseteq Checked(h2, MySlot)
  BY DEF Checked
<1>2. {s \in Slots : st[s] = Goal} \subseteq {s \in Slots : st2[s] = Goal}
  OBVIOUS
<1> QED
  BY <1>1, <1>2 DEF Truths

-----------------------------------------------------------------------------
(* Every action keeps the invariant; those of a running bridge lose nothing. *)

LEMMA HandleItemSendOK == ASSUME Inv, HandleItemSend PROVE Step
<1> DEFINE l == Head(inbox).location
<1>1. l \in ToSet(history) /\ inbox' \in Seq(Truths(history, status))
  <2>1. Head(inbox) \in Truths(history, status) /\ Head(inbox).type = "ItemSend"
        /\ inbox' \in Seq(Truths(history, status))
    BY ReceiveOK DEF Inv, HandleItemSend
  <2> QED
    BY <2>1 DEF Truths
<1>2. slots' = Found(slots, l)
  BY DEF HandleItemSend
<1> HIDE DEF l
<1>3. \A s \in Slots : /\ SlotOK(history, status, s, slots'[s])
                       /\ Keeps(slots[s], slots'[s])
  BY <1>1, <1>2, FoundOK DEF Inv, SlotsOK, ServerOK
<1>4. slots' = [s \in Slots |-> slots'[s]]
  BY <1>2 DEF Found
<1>5. SlotsOK' /\ ServerOK' /\ AllKept /\ NeverBehindSave' /\ GoalsOK'
  BY <1>3, <1>4, RecordsStep DEF HandleItemSend
<1>6. LagIsSwept' /\ ToldOK'
  BY <1>5, ShowOK DEF HandleItemSend
<1>7. LinkOK' /\ SweepOK'
  BY <1>1, MakeDueOK DEF Inv, HandleItemSend, LinkOK, SweepOK, serverVars
<1> QED
  BY <1>5, <1>6, <1>7 DEF Step, Inv

LEMMA HandleGoalOK == ASSUME Inv, HandleGoal PROVE Step
<1> DEFINE g == Head(inbox).slot
<1>1. g \in Slots /\ status[g] = Goal /\ inbox' \in Seq(Truths(history, status))
  <2>1. Head(inbox) \in Truths(history, status) /\ Head(inbox).type = "Goal"
        /\ inbox' \in Seq(Truths(history, status))
    BY ReceiveOK DEF Inv, HandleGoal
  <2> QED
    BY <2>1 DEF Truths
<1>2. /\ slots' = [slots EXCEPT ![g] = WithStatus(slots[g], Goal)]
      /\ goalsFile' \in {goalsFile, goalsFile \cup {g}}
  BY DEF HandleGoal, Persist
<1> HIDE DEF g
<1>3. SlotOK(history, status, g, slots[g]) /\ slots[g].status \in Statuses
  BY <1>1, RecordFields DEF Inv, SlotsOK
<1>4. /\ SlotOK(history, status, g, WithStatus(slots[g], Goal))
      /\ Keeps(slots[g], WithStatus(slots[g], Goal))
      /\ WithStatus(slots[g], Goal).status = Goal
  BY <1>1, <1>3, StatusOrder, WithStatusOK
<1>5. /\ slots' = [s \in Slots |-> slots'[s]]
      /\ \A s \in Slots : slots'[s] = IF s = g THEN WithStatus(slots[g], Goal) ELSE slots[s]
  BY <1>1, <1>2 DEF Inv, SlotsOK
<1>6. \A s \in Slots : /\ SlotOK(history, status, s, slots'[s])
                       /\ Keeps(slots[s], slots'[s])
  BY <1>4, <1>5, KeepsItself DEF Inv, SlotsOK
<1>7. SlotsOK' /\ ServerOK' /\ AllKept /\ NeverBehindSave'
  BY <1>5, <1>6, RecordsStep DEF HandleGoal
<1>8. GoalsOK'
  BY <1>1, <1>2, <1>4, <1>5 DEF Inv, GoalsOK, KeptGoalsHold
<1>9. LagIsSwept' /\ ToldOK'
  BY <1>7, ShowOK DEF HandleGoal
<1>10. LinkOK' /\ SweepOK'
  BY <1>1 DEF Inv, HandleGoal, LinkOK, SweepOK, serverVars
<1> QED
  BY <1>7, <1>8, <1>9, <1>10 DEF Step, Inv

LEMMA HandleConnectedOK == ASSUME Inv, HandleConnected PROVE Step
<1> DEFINE C == Head(inbox).checks
           own == [slots EXCEPT ![MySlot].checks = @ \cup C]
<1>1. C \subseteq Checked(history, MySlot) /\ inbox' \in Seq(Truths(history, status))
  <2>1. Head(inbox) \in Truths(history, status) /\ Head(inbox).type = "Connected"
        /\ inbox' \in Seq(Truths(history, status))
    BY ReceiveOK DEF Inv, HandleConnected
  <2> QED
    BY <2>1 DEF Truths
<1>2. slots' = [s \in Slots |-> IF own[s].status = 0 /\ own[s].checks # {}
                               THEN WithStatus(own[s], Playing) ELSE own[s]]
  BY DEF HandleConnected
<1> HIDE DEF C
<1>3. \A s \in Slots : own[s] = IF s = MySlot THEN [slots[s] EXCEPT !.checks = @ \cup C]
                                ELSE slots[s]
  BY DEF Inv, SlotsOK
<1> HIDE DEF own
<1>4. \A s \in Slots : SlotOK(history, status, s, own[s]) /\ Keeps(slots[s], own[s])
  <2> TAKE s \in Slots
  <2>1. SlotOK(history, status, s, slots[s]) /\ history \in Seq(Locations)
    BY DEF Inv, SlotsOK, ServerOK
  <2>2. CASE s = MySlot
    <3> DEFINE p == slots[s]
               q == [p EXCEPT !.checks = @ \cup C]
    <3>1. own[s] = q
      BY <1>3, <2>2
    <3>2. SlotOK(history, status, s, q) /\ Keeps(p, q)
      <4> HIDE DEF p
      <4>1. SlotOK(history, status, s, p)
        BY <2>1 DEF p
      <4> QED
        BY <1>1, <2>1, <2>2, <4>1, CheckedOK
    <3> HIDE DEF q
    <3> QED
      BY <3>1, <3>2
  <2>3. CASE s # MySlot
    BY <1>3, <2>1, <2>3, KeepsItself
  <2> QED
    BY <2>2, <2>3
<1>5. \A s \in Slots : /\ SlotOK(history, status, s, slots'[s])
                       /\ Keeps(slots[s], slots'[s])
  <2> TAKE s \in Slots
  <2>1. CASE own[s].status = 0 /\ own[s].checks # {}
    <3>1. slots'[s] = WithStatus(own[s], Playing) /\ own[s].status <= Playing
          /\ Playing # Goal
      BY <1>2, <2>1 DEF Playing, Goal
    <3>2. SlotOK(history, status, s, slots'[s]) /\ Keeps(own[s], slots'[s])
      BY <1>4, <3>1, StatusOrder, WithStatusOK
    <3> QED
      BY <1>4, <3>2, KeepsTransitive DEF Inv, SlotsOK
  <2>2. CASE ~(own[s].status = 0 /\ own[s].checks # {})
    BY <1>2, <1>4, <2>2
  <2> QED
    BY <2>1, <2>2
<1>6. slots' = [s \in Slots |-> slots'[s]]
  BY <1>2
<1>7. SlotsOK' /\ ServerOK' /\ AllKept /\ NeverBehindSave' /\ GoalsOK'
  BY <1>5, <1>6, RecordsStep DEF HandleConnected
<1>8. LagIsSwept' /\ ToldOK'
  BY <1>7, ShowOK DEF HandleConnected
<1>9. LinkOK' /\ SweepOK'
  BY <1>1, MakeDueOK DEF Inv, HandleConnected, LinkOK, SweepOK, serverVars
<1> QED
  BY <1>7, <1>8, <1>9 DEF Step, Inv

LEMMA MergeOK == ASSUME Inv, Reconcile \/ RequestMerges PROVE Step
<1>1. Merge
  BY DEF Reconcile, RequestMerges
<1>2. \A s \in Slots : slots'[s] = MergeSlot(slots[s], Saved(save, s))
  BY <1>1 DEF Merge
<1>3. \A s \in Slots : /\ SlotOK(history, status, s, slots'[s])
                       /\ Keeps(slots[s], slots'[s])
                       /\ Covers(slots'[s], Saved(save, s))
  <2> TAKE s \in Slots
  <2>1. SlotOK(history, status, s, slots[s]) /\ SlotOK(history, status, s, Saved(save, s))
    BY SavedOK DEF Inv, SlotsOK, ServerOK
  <2> QED
    BY <1>2, <2>1, MergeSlotOK
<1>4. slots' = [s \in Slots |-> slots'[s]]
  BY <1>1 DEF Merge
<1>5. SlotsOK' /\ ServerOK' /\ AllKept /\ GoalsOK'
  BY <1>1, <1>3, <1>4, RecordsStep DEF Merge
<1>6. NeverBehindSave'
  <2>1. save' = save
    BY <1>1 DEF Merge, serverVars
  <2> QED
    BY <1>3, <2>1 DEF NeverBehindSave, Covers
<1>7. LagIsSwept' /\ ToldOK'
  <2>1. CASE told' = told
    BY <1>1, <2>1, DueStays DEF Inv, Merge, ToldOK
  <2>2. CASE Show
    BY <1>5, <2>2, ShowOK
  <2> QED
    BY <2>1, <2>2 DEF Reconcile, RequestMerges
<1>8. LinkOK' /\ SweepOK'
  BY <1>1, MakeDueOK DEF Inv, Merge, LinkOK, SweepOK, serverVars, linkVars
<1> QED
  BY <1>5, <1>6, <1>7, <1>8 DEF Step, Inv

\* The sweep and the pages leave the slots alone.
LEMMA PushOK ==
    ASSUME Inv, \/ SweepPushes \/ PageOpens \/ PageCloses
                \/ \E done \in SUBSET Slots \ {{}} : SweepMarks(done)
    PROVE  Step
<1>1. /\ slots' = slots /\ goalsFile' = goalsFile /\ unread' = unread
      /\ UNCHANGED serverVars /\ UNCHANGED linkVars /\ UNCHANGED restarts
  BY DEF SweepPushes, PageOpens, PageCloses, SweepMarks
<1>2. SlotsOK' /\ ServerOK' /\ AllKept /\ NeverBehindSave' /\ GoalsOK'
  BY <1>1, SameRecords, RecordsStep
<1>3. LagIsSwept' /\ ToldOK'
  <2>1. CASE SweepPushes
    BY <1>2, <2>1, ShowOK DEF SweepPushes
  <2>2. CASE PageOpens
    <3>1. told' \in [Slots -> Nat \X Nat]
      BY <2>2, ShownType DEF PageOpens, Inv, SlotsOK, ServerOK
    <3> QED
      BY <1>1, <2>2, <3>1 DEF PageOpens, LagIsSwept, Shown, ToldOK
  <2>3. CASE PageCloses
    BY <2>3 DEF PageCloses, LagIsSwept, ToldOK
  <2>4. CASE \E done \in SUBSET Slots \ {{}} : SweepMarks(done)
    BY <2>4 DEF SweepMarks, LagIsSwept, ToldOK, Inv
  <2> QED
    BY <2>1, <2>2, <2>3, <2>4
<1>4. LinkOK'
  BY <1>1 DEF Inv, LinkOK, serverVars, linkVars
<1>5. due' \subseteq due /\ sweeping' \in BOOLEAN
  BY DEF Inv, SweepOK, SweepPushes, PageOpens, PageCloses, SweepMarks
<1>6. SweepOK'
  BY <1>1, <1>5 DEF Inv, SweepOK
<1> QED
  BY <1>2, <1>3, <1>4, <1>6 DEF Step, Inv

\* What is loaded did happen; a goal that was kept is found again.
LEMMA StartOverOK ==
    ASSUME Inv, NEW kept \in SUBSET goalsFile, StartOver(kept), goalsFile' = kept
    PROVE  Step
<1>1. PICK readable \in BOOLEAN :
         slots' = [s \in Slots |->
                     LoadGoal(IF readable THEN Saved(save, s) ELSE NewSlot, s \in kept)]
  BY DEF StartOver
<1>2. kept \subseteq Slots /\ \A s \in kept : status[s] = Goal
  BY DEF Inv, GoalsOK, KeptGoalsHold, SlotsOK, SlotOK
<1>3. ASSUME NEW s \in Slots
      PROVE  SlotOK(history, status, s, slots'[s]) /\ (s \in kept => slots'[s].status = Goal)
  <2> DEFINE p == IF readable THEN Saved(save, s) ELSE NewSlot
  <2>1. SlotOK(history, status, s, p)
    BY NewSlotOK, SavedOK DEF Inv, ServerOK
  <2>2. slots'[s] = LoadGoal(p, s \in kept)
    BY <1>1
  <2> HIDE DEF p
  <2>3. CASE s \in kept
    <3>1. slots'[s] = LoadGoal(p, TRUE)
      BY <2>2, <2>3
    <3>2. status[s] = Goal
      BY <1>2, <2>3
    <3>3. SlotOK(history, status, s, LoadGoal(p, TRUE)) /\ LoadGoal(p, TRUE).status = Goal
      BY <2>1, <3>2, LoadOK
    <3> QED
      BY <3>1, <3>3
  <2>4. CASE s \notin kept
    <3>1. slots'[s] = p
      BY <2>2, <2>4 DEF LoadGoal
    <3> QED
      BY <2>1, <2>4, <3>1
  <2> QED
    BY <2>3, <2>4
<1>4. slots' = [s \in Slots |-> slots'[s]]
  BY <1>1
<1>5. SlotsOK' /\ ServerOK'
  BY <1>3, <1>4 DEF Inv, SlotsOK, ServerOK, StartOver, serverVars
<1>6. GoalsOK'
  BY <1>2, <1>3 DEF GoalsOK, KeptGoalsHold
<1>7. LagIsSwept' /\ ToldOK' /\ NeverBehindSave'
  BY DEF StartOver, LagIsSwept, ToldOK, NeverBehindSave
<1>8. LinkOK'
  BY EmptySeq DEF StartOver, Inv, LinkOK, serverVars
<1>9. SweepOK' /\ restarts' # restarts
  <2>1. restarts \in Nat /\ restarts < MaxRestarts /\ restarts' = restarts + 1
    BY SlotAssumption DEF StartOver, Inv, SweepOK
  <2>2. restarts' \in 0..MaxRestarts /\ restarts' # restarts
    BY <2>1, SlotAssumption
  <2> QED
    BY <2>2 DEF StartOver, SweepOK
<1> QED
  BY <1>5, <1>6, <1>7, <1>8, <1>9 DEF Step, Inv

LEMMA RestartOK == ASSUME Inv, Restart \/ CrashWhilePersisting PROVE Step
<1>1. CASE Restart
  BY <1>1, StartOverOK DEF Restart
<1>2. CASE CrashWhilePersisting
  BY <1>2, StartOverOK DEF CrashWhilePersisting
<1> QED
  BY <1>1, <1>2

\* The connection and the server leave the bridge's state alone; what the server
\* adds to what happened takes nothing back.
LEMMA ServerGoesOn ==
    ASSUME Inv, UNCHANGED <<slots, unread, goalsFile, restarts, told, due, sweeping>>,
           history' \in Seq(Locations), ToSet(history) \subseteq ToSet(history'),
           status' \in [Slots -> Statuses],
           \A s \in Slots : status[s] = Goal => status'[s] = Goal,
           save' = save, LinkOK'
    PROVE  Step
<1>1. SlotsOK'
  BY SlotStaysOK DEF Inv, SlotsOK
<1>2. AllKept
  BY KeepsItself DEF Inv, SlotsOK, AllKept
<1>3. ServerOK'
  BY DEF Inv, ServerOK, SaveOK
<1>4. GoalsOK' /\ ToldOK' /\ SweepOK' /\ LagIsSwept' /\ NeverBehindSave'
  BY DEF Inv, GoalsOK, KeptGoalsHold, ToldOK, SweepOK, LagIsSwept, NeverBehindSave
<1> QED
  BY <1>1, <1>2, <1>3, <1>4 DEF Step, Inv

LEMMA LinkStepOK == ASSUME Inv, LinkUp \/ LinkDown PROVE Step
<1>1. UNCHANGED <<history, status, save, slots, unread, goalsFile, restarts, told, due,
                  sweeping>>
  BY DEF LinkUp, LinkDown, serverVars, bridgeVars
<1>2. inbox' \in Seq(Truths(history, status))
  <2> DEFINE m == [type |-> "Connected", checks |-> Checked(history, MySlot)]
  <2>1. m \in Truths(history, status)
    BY DEF Truths
  <2> HIDE DEF m
  <2>2. <<m>> \in Seq(Truths(history, status)) /\ <<>> \in Seq(Truths(history, status))
    BY <2>1
  <2>3. inbox' = <<m>> \/ inbox' = <<>>
    BY DEF LinkUp, LinkDown, m
  <2> QED
    BY <2>2, <2>3
<1>3. link' \in BOOLEAN /\ links' \in 0..MaxLinks
  <2>1. links \in 0..MaxLinks /\ MaxLinks \in Nat /\ link \in BOOLEAN
    BY SlotAssumption DEF Inv, LinkOK
  <2>2. CASE LinkUp
    <3>1. links < MaxLinks /\ links' = links + 1 /\ link' = TRUE
      BY <2>2 DEF LinkUp
    <3> QED
      BY <2>1, <3>1
  <2>3. CASE LinkDown
    BY <2>1, <2>3 DEF LinkDown
  <2> QED
    BY <2>2, <2>3
<1>4. LinkOK'
  BY <1>1, <1>2, <1>3 DEF LinkOK
<1> QED
  BY <1>1, <1>4, ServerGoesOn DEF Inv, ServerOK

LEMMA WriteSaveOK == ASSUME Inv, WriteSave PROVE Step
<1>1. /\ UNCHANGED <<history, status, slots, goalsFile, restarts, told, due, sweeping>>
      /\ save' = [history |-> history, status |-> status] /\ unread' = TRUE
      /\ UNCHANGED linkVars
  BY DEF WriteSave
<1>2. SlotsOK' /\ AllKept
  BY <1>1, KeepsItself DEF Inv, SlotsOK, AllKept
<1>3. ServerOK'
  BY <1>1 DEF Inv, ServerOK, SaveOK
<1>4. LinkOK' /\ GoalsOK' /\ ToldOK' /\ SweepOK' /\ LagIsSwept' /\ NeverBehindSave'
  BY <1>1 DEF Inv, LinkOK, linkVars, GoalsOK, KeptGoalsHold, ToldOK, SweepOK, LagIsSwept,
              NeverBehindSave
<1> QED
  BY <1>2, <1>3, <1>4 DEF Step, Inv

\* A packet that tells the truth is added, or nothing is.
LEMMA TellOK ==
    ASSUME Inv, NEW h, NEW st, NEW heard,
           ToSet(history) \subseteq ToSet(h), \A s \in Slots : status[s] = Goal => st[s] = Goal,
           NEW packet \in Truths(h, st), Tell(packet, heard)
    PROVE  inbox' \in Seq(Truths(h, st))
<1>1. inbox \in Seq(Truths(h, st))
  BY TruthsGrow, SeqMonotonic DEF Inv, LinkOK
<1> QED
  BY <1>1, AppendProperties DEF Tell

LEMMA CheckOK == ASSUME Inv, NEW l \in Locations, Check(l) PROVE Step
<1>1. /\ UNCHANGED <<slots, unread, goalsFile, restarts, told, due, sweeping>>
      /\ save' = save /\ UNCHANGED <<link, links>>
      /\ history' = Append(history, l)
  BY DEF Check, bridgeVars
<1>2. /\ history' \in Seq(Locations)
      /\ ToSet(history) \subseteq ToSet(history') /\ l \in ToSet(history')
  <2>0. history \in Seq(Locations)
    BY DEF Inv, ServerOK
  <2>1. /\ history' \in Seq(Locations)
        /\ Len(history') = Len(history) + 1
        /\ \A i \in 1..Len(history) : history'[i] = history[i]
        /\ history'[Len(history) + 1] = l
    BY <1>1, <2>0, AppendProperties
  <2>2. DOMAIN history' = 1..(Len(history) + 1) /\ DOMAIN history = 1..Len(history)
        /\ Len(history) \in Nat
    BY <2>0, <2>1, LenProperties
  <2>3. 1..(Len(history) + 1) = (1..Len(history)) \cup {Len(history) + 1}
    BY <2>2
  <2> QED
    BY <2>1, <2>2, <2>3 DEF ToSet
<1>3. /\ status' \in [Slots -> Statuses]
      /\ \A s \in Slots : status[s] = Goal => status'[s] = Goal
  <2> DEFINE f == FinderOf[l]
             v == IF status[f] = 0 THEN Playing ELSE status[f]
  <2>1. f \in Slots /\ status \in [Slots -> Statuses]
    BY SlotAssumption DEF Inv, ServerOK
  <2>2. status' = [status EXCEPT ![f] = v]
    BY DEF Check
  <2>3. v \in Statuses /\ (status[f] = Goal => v = Goal)
    BY <2>1 DEF Statuses, Playing, Goal
  <2> HIDE DEF f, v
  <2> QED
    BY <2>1, <2>2, <2>3
<1>4. inbox' \in Seq(Truths(history', status'))
  <2>1. [type |-> "ItemSend", location |-> l] \in Truths(history', status')
    BY <1>2 DEF Truths
  <2>2. Tell([type |-> "ItemSend", location |-> l], l \notin Silent)
    BY DEF Check
  <2> QED
    BY <1>2, <1>3, <2>1, <2>2, TellOK
<1>5. LinkOK'
  BY <1>1, <1>4 DEF Inv, LinkOK
<1> QED
  BY <1>1, <1>2, <1>3, <1>5, ServerGoesOn

LEMMA PlayerOK == ASSUME Inv, NEW s \in Slots, ReachGoal(s) \/ Idle(s) PROVE Step
<1>1. /\ UNCHANGED <<slots, unread, goalsFile, restarts, told, due, sweeping>>
      /\ save' = save /\ UNCHANGED <<link, links, history>>
      /\ status' \in [Slots -> Statuses]
      /\ \A t \in Slots : status[t] = Goal => status'[t] = Goal
  <2>1. CASE ReachGoal(s)
    BY <2>1 DEF ReachGoal, bridgeVars, Inv, ServerOK, Statuses, Playing, Goal
  <2>2. CASE Idle(s)
    BY <2>2 DEF Idle, bridgeVars, linkVars, Inv, ServerOK, Statuses, Playing, Goal
  <2> QED
    BY <2>1, <2>2
<1>2. inbox' \in Seq(Truths(history', status'))
  <2>1. CASE ReachGoal(s)
    <3>1. status'[s] = Goal
      BY <2>1 DEF ReachGoal, Inv, ServerOK
    <3>2. [type |-> "Goal", slot |-> s] \in Truths(history', status')
      BY <3>1 DEF Truths
    <3>3. Tell([type |-> "Goal", slot |-> s], TRUE)
      BY <2>1 DEF ReachGoal
    <3> QED
      BY <1>1, <3>2, <3>3, TellOK
  <2>2. CASE Idle(s)
    <3>1. inbox' = inbox
      BY <2>2 DEF Idle, linkVars
    <3>2. Truths(history, status) \subseteq Truths(history', status')
      BY <1>1, TruthsGrow
    <3> QED
      BY <3>1, <3>2, SeqMonotonic DEF Inv, LinkOK
  <2> QED
    BY <2>1, <2>2
<1>3. LinkOK'
  BY <1>1, <1>2 DEF Inv, LinkOK
<1> QED
  BY <1>1, <1>3, ServerGoesOn DEF Inv, ServerOK

LEMMA NextOK == Inv /\ [Next]_vars => Inv' /\ (restarts' = restarts => AllKept)
<1> SUFFICES ASSUME Inv, [Next]_vars PROVE Step
  BY DEF Step
<1>1. CASE Handle
  BY <1>1, HandleItemSendOK, HandleGoalOK, HandleConnectedOK DEF Handle
<1>2. CASE Reconcile \/ RequestMerges
  BY <1>2, MergeOK
<1>3. CASE \/ SweepPushes \/ PageOpens \/ PageCloses
           \/ \E done \in SUBSET Slots \ {{}} : SweepMarks(done)
  BY <1>3, PushOK
<1>4. CASE Restart \/ CrashWhilePersisting
  BY <1>4, RestartOK
<1>5. CASE LinkUp \/ LinkDown
  BY <1>5, LinkStepOK
<1>6. CASE WriteSave
  BY <1>6, WriteSaveOK
<1>7. CASE \/ \E l \in Locations : Check(l)
           \/ \E s \in Slots : ReachGoal(s) \/ Idle(s)
  BY <1>7, CheckOK, PlayerOK
<1>8. CASE UNCHANGED vars
  <2>1. /\ UNCHANGED <<slots, unread, goalsFile, restarts, told, due, sweeping>>
        /\ UNCHANGED <<history, status, save, link, links, inbox>>
    BY <1>8 DEF vars, serverVars, linkVars, bridgeVars
  <2>2. LinkOK'
    BY <2>1 DEF Inv, LinkOK
  <2> QED
    BY <2>1, <2>2, ServerGoesOn DEF Inv, ServerOK
<1> QED
  BY <1>1, <1>2, <1>3, <1>4, <1>5, <1>6, <1>7, <1>8 DEF Next

LEMMA InitOK == Init => Inv
<1> SUFFICES ASSUME Init PROVE Inv
  OBVIOUS
<1>1. SlotsOK
  BY NewSlotOK DEF Init, SlotsOK
<1>2. history \in Seq(Locations) /\ inbox \in Seq(Truths(history, status))
  BY EmptySeq DEF Init
<1>3. ServerOK
  BY <1>2, StatusOrder DEF Init, ServerOK, SaveOK
<1>4. LinkOK /\ SweepOK
  <2>1. 0 \in 0..MaxLinks /\ 0 \in 0..MaxRestarts
    BY SlotAssumption
  <2> QED
    BY <1>2, <2>1 DEF Init, LinkOK, SweepOK
<1>5. GoalsOK /\ ToldOK /\ LagIsSwept /\ NeverBehindSave
  BY DEF Init, GoalsOK, KeptGoalsHold, ToldOK, LagIsSwept, NeverBehindSave
<1> QED
  BY <1>1, <1>3, <1>4, <1>5 DEF Inv

LEMMA InductiveInvariant == Spec => []Inv
<1> QED
  BY InitOK, NextOK, PTL DEF Spec

-----------------------------------------------------------------------------
(* The theorems. *)

\* Slots, packets, saves and what a page is shown keep their types: a slot's checks
\* are its own locations, and there are finitely many to count.
THEOREM TypeCorrect == Spec => []TypeOK
<1>1. Inv => TypeOK
  <2> SUFFICES ASSUME Inv PROVE TypeOK
    OBVIOUS
  <2> DEFINE Packet == [type : {"ItemSend"}, location : Locations]
                  \cup [type : {"Goal"}, slot : Slots]
                  \cup [type : {"Connected"}, checks : SUBSET Locations]
  <2>1. inbox \in Seq(Packet)
    <3>1. history \in Seq(Locations)
      BY DEF Inv, ServerOK
    <3>2. ToSet(history) \subseteq Locations
      BY <3>1, LenProperties, ElementOfSeq DEF ToSet
    <3>3. Checked(history, MySlot) \subseteq Locations
      BY <3>2 DEF Checked
    <3>4. Truths(history, status) \subseteq Packet
      BY <3>2, <3>3 DEF Truths
    <3> QED
      BY <3>4, SeqMonotonic DEF Inv, LinkOK
  <2> HIDE DEF Packet
  <2>2. /\ history \in Seq(Locations)
        /\ status \in [Slots -> {0, Playing, Goal}]
        /\ save \in [history : Seq(Locations), status : [Slots -> {0, Playing, Goal}]]
    BY DEF Inv, ServerOK, SaveOK, Statuses
  <2>3. \A s \in Slots : slots[s] \in SlotRecord(s)
    BY DEF Inv, SlotsOK, SlotOK
  <2>4. /\ link \in BOOLEAN /\ links \in 0..MaxLinks
        /\ unread \in BOOLEAN /\ goalsFile \subseteq Slots /\ restarts \in 0..MaxRestarts
        /\ told = NoPage \/ told \in [Slots -> Nat \X Nat]
        /\ due \subseteq Slots /\ sweeping \in BOOLEAN
    BY DEF Inv, LinkOK, SweepOK, GoalsOK, ToldOK
  <2> QED
    BY <2>1, <2>2, <2>3, <2>4 DEF TypeOK, Packet
<1> QED
  BY <1>1, InductiveInvariant, PTL

\* Whatever the bridge pieced together from packets, saves of any age and its goals
\* file, over any restarts: it holds no check, item or goal that did not happen, and
\* dates a goal exactly where it holds one.
THEOREM NothingInvented == Spec => []OnlyWhatHappened
<1>1. Inv => OnlyWhatHappened
  <2> SUFFICES ASSUME Inv, NEW s \in Slots
               PROVE  /\ slots[s].checks \subseteq Checked(history, s)
                      /\ ToSet(slots[s].items) \subseteq ToSet(Received(history, s))
                      /\ slots[s].status = Goal => status[s] = Goal
                      /\ slots[s].goalAt # "none" <=> slots[s].status = Goal
    BY DEF OnlyWhatHappened
  <2>1. SlotOK(history, status, s, slots[s]) /\ history \in Seq(Locations)
    BY DEF Inv, SlotsOK, ServerOK
  <2>2. slots[s].checks \subseteq Checked(history, s)
    <3>1. slots[s].checks \subseteq {l \in Locations : FinderOf[l] = s}
      BY <2>1, RecordFields
    <3>2. slots[s].checks \subseteq ToSet(history)
      BY <2>1 DEF SlotOK
    <3> QED
      BY <3>1, <3>2 DEF Checked
  <2>3. ToSet(slots[s].items) \subseteq ToSet(Received(history, s))
    BY <2>1, ReceivedItems DEF SlotOK
  <2> QED
    BY <2>1, <2>2, <2>3 DEF SlotOK
<1> QED
  BY <1>1, InductiveInvariant, PTL

\* Once a save is merged no slot lacks a check of it, has fewer items or a lower
\* status, whatever packets come before the next one is written. The lists of items
\* are compared by their length, as the code does (apply_saved_states).
THEOREM SaveIsCovered == Spec => []NeverBehindSave
<1>1. Inv => NeverBehindSave
  BY DEF Inv
<1> QED
  BY <1>1, InductiveInvariant, PTL

\* While the bridge runs no slot loses a check, shows fewer items or a lower status,
\* or changes the date of its goal, whichever of a packet and a save tells of it first.
THEOREM NothingLost == Spec => NeverGoesBack
<1>1. Inv /\ [Next]_vars
        => [restarts' = restarts => \A s \in Slots :
              /\ slots[s].checks \subseteq slots'[s].checks
              /\ Len(slots[s].items) <= Len(slots'[s].items)
              /\ slots[s].status <= slots'[s].status
              /\ slots[s].goalAt # "none" => slots'[s].goalAt = slots[s].goalAt]_vars
  BY NextOK DEF AllKept, Keeps
<1> QED
  BY <1>1, InductiveInvariant, PTL DEF Spec, NeverGoesBack

\* A goal the bridge was told of, and wrote down, is its slot's status ever after:
\* over merges of older saves, restarts on saves that lack it, and packets that
\* would make the slot a playing one.
THEOREM GoalsHold == Spec => []KeptGoalsHold
<1>1. Inv => KeptGoalsHold
  BY DEF Inv, GoalsOK
<1> QED
  BY <1>1, InductiveInvariant, PTL

\* A connected page lacks no count that the sweep is not to push: what a page's
\* request merged, leaving the reconcile loop nothing to notice, included.
THEOREM NoCountForgotten == Spec => []LagIsSwept
<1>1. Inv => LagIsSwept
  BY DEF Inv
<1> QED
  BY <1>1, InductiveInvariant, PTL
=============================================================================
