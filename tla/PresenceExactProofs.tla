------------------------ MODULE PresenceExactProofs ------------------------
(***************************************************************************)
(* Proofs that the bridge, once it has read what the server sent, knows    *)
(* exactly who plays, for any slots, clients, tags and bounds.             *)
(*                                                                         *)
(* The invariant looks ahead: it says what a slot's record will be when    *)
(* the packets on their way have been handled (Leads), and that this       *)
(* record already describes the clients now on the server (Fits).  So a    *)
(* handler changes nothing in it, and an action of a client must be        *)
(* matched by what the handlers will make of the packets it sends.         *)
(***************************************************************************)
EXTENDS PresenceProofs, FiniteSetTheorems, WellFoundedInduction

\* A Part's text may carry no readable list of tags.
Misread == \E text \in PartTexts : text # "tags"

\* Each tag entry stands for one of the clients P, and each of them has one;
\* it is that client's entry in T, unless a Part may have taken the wrong one.
Names(b, P, T, entries) ==
    /\ \A c \in P : \E i \in 1..Len(entries) : b[i] = c
    /\ \A i, j \in 1..Len(entries) : b[i] = b[j] => i = j
    /\ Misread \/ \A i \in 1..Len(entries) : entries[i] = T[b[i]]

Describes(P, T, entries) ==
    \E b \in [1..Len(entries) -> P] : Names(b, P, T, entries)

-----------------------------------------------------------------------------
(* Tag entries and the clients they stand for *)

\* A non-empty set of naturals has a least element.
LEMMA Least ==
    ASSUME NEW N, N \subseteq Nat, N # {}
    PROVE  \E x \in N : \A y \in N : x <= y
<1> DEFINE R == OpToRel(<, Nat)
<1>1. \A x, y \in Nat : x < y => <<x, y>> \in R
  BY Zenon DEF OpToRel
<1>2. PICK x \in N : \A y \in N : <<y, x>> \notin R
  <2>1. IsWellFoundedOn(R, Nat)
    BY NatLessThanWellFounded, Zenon
  <2> HIDE DEF R
  <2> QED
    BY <2>1, WFMin
<1> HIDE DEF R
<1>3. \A y \in N : ~(y < x)
  BY <1>1, <1>2
<1> QED
  BY <1>3

\* Some indices of a sequence have a first one and a latest one.
LEMMA FirstAndLatest ==
    ASSUME NEW n \in Nat, NEW I, I \subseteq 1..n, I # {}
    PROVE  /\ \E x \in I : \A y \in I : x <= y
           /\ \E x \in I : \A y \in I : y <= x
<1>1. I \subseteq Nat
  OBVIOUS
<1>2. \E x \in I : \A y \in I : x <= y
  BY <1>1, Least
<1> DEFINE N == {n - y : y \in I}
<1>3. PICK m \in N : \A k \in N : m <= k
  <2>1. \A y \in I : n - y \in Nat
    OBVIOUS
  <2>2. N \subseteq Nat /\ N # {}
    BY <2>1
  <2> HIDE DEF N
  <2> QED
    BY <2>2, Least
<1>4. PICK x \in I : m = n - x
  OBVIOUS
<1>5. \A y \in I : n - x <= n - y
  BY <1>3, <1>4
<1>6. \A y \in I : y \in Nat
  BY <1>1
<1>7. \A y \in I : y <= x
  BY <1>5, <1>6
<1> QED
  BY <1>2, <1>7

\* A sequence with one element removed: the elements before it stay where they
\* are, those after it move down by one.
LEMMA RemoveAtElements ==
    ASSUME NEW S, NEW t \in Seq(S), NEW i \in 1..Len(t)
    PROVE  \A k \in 1..(Len(t) - 1) :
              RemoveAt(t, i)[k] = IF k < i THEN t[k] ELSE t[k+1]
<1> DEFINE before == SubSeq(t, 1, i-1)
           after  == SubSeq(t, i+1, Len(t))
<1>0. Len(t) \in Nat /\ \A k \in 1..Len(t) : t[k] \in S
  BY LenProperties, ElementOfSeq
<1>1. before \in Seq(S) /\ Len(before) = i - 1
      /\ \A k \in 1..(i-1) : before[k] = t[k]
  <2>1. \A k \in 1..(i-1) : t[k] \in S
    BY <1>0
  <2>2. /\ before \in Seq(S)
        /\ Len(before) = IF 1 <= i-1 THEN (i-1)-1+1 ELSE 0
        /\ \A k \in 1..((i-1)-1+1) : before[k] = t[1+k-1]
    BY <1>0, <2>1, SubSeqProperties
  <2> HIDE DEF before
  <2> QED
    BY <1>0, <2>2
<1>2. after \in Seq(S) /\ Len(after) = Len(t) - i
      /\ \A k \in 1..(Len(t)-i) : after[k] = t[i+k]
  <2>1. \A k \in (i+1)..Len(t) : t[k] \in S
    BY <1>0
  <2>2. /\ after \in Seq(S)
        /\ Len(after) = IF i+1 <= Len(t) THEN Len(t)-(i+1)+1 ELSE 0
        /\ \A k \in 1..(Len(t)-(i+1)+1) : after[k] = t[(i+1)+k-1]
    BY <1>0, <2>1, SubSeqProperties
  <2> HIDE DEF after
  <2> QED
    BY <1>0, <2>2
<1> HIDE DEF before, after
<1>3. \A k \in 1..(i-1) + (Len(t)-i) :
        (before \o after)[k] = IF k <= i-1 THEN before[k] ELSE after[k - (i-1)]
  BY <1>0, <1>1, <1>2, ConcatProperties
<1>4. RemoveAt(t, i) = before \o after
  BY DEF RemoveAt, before, after
<1>5. SUFFICES ASSUME NEW k \in 1..(Len(t) - 1)
               PROVE  (before \o after)[k] = IF k < i THEN t[k] ELSE t[k+1]
  BY <1>4
<1>6. CASE k < i
  <2>1. k \in 1..(i-1) /\ k <= i-1
    BY <1>0, <1>6
  <2>2. k \in 1..((i-1) + (Len(t)-i))
    BY <1>0
  <2>3. (before \o after)[k] = before[k]
    BY <1>3, <2>1, <2>2
  <2> QED
    BY <1>1, <1>6, <2>1, <2>3
<1>7. CASE ~(k < i)
  <2>1. k - (i-1) \in 1..(Len(t)-i) /\ i + (k - (i-1)) = k+1
    BY <1>0, <1>7
  <2>2. k \in 1..((i-1) + (Len(t)-i)) /\ ~(k <= i-1)
    BY <1>0, <1>7
  <2>3. (before \o after)[k] = after[k - (i-1)]
    BY <1>3, <2>2
  <2> QED
    BY <1>2, <1>7, <2>1, <2>3
<1> QED
  BY <1>6, <1>7

\* No entries describe no clients, and only them.
LEMMA DescribesNobody ==
    ASSUME NEW P, NEW T
    PROVE  Describes(P, T, <<>>) <=> P = {}
<1>1. 1..Len(<<>>) = {}
  OBVIOUS
<1>2. ASSUME P = {} PROVE Describes(P, T, <<>>)
  <2> DEFINE b == [i \in {} |-> i]
  <2>1. b \in [{} -> P]
    OBVIOUS
  <2>2. Names(b, P, T, <<>>)
    BY <1>1, <1>2 DEF Names
  <2> HIDE DEF b
  <2> QED
    BY <1>1, <2>1, <2>2 DEF Describes
<1>3. ASSUME Describes(P, T, <<>>) PROVE P = {}
  BY <1>1, <1>3 DEF Describes, Names
<1> QED
  BY <1>2, <1>3

\* There are as many entries as clients described.
LEMMA DescribesCount ==
    ASSUME NEW S, NEW P, NEW T, NEW t \in Seq(S), Describes(P, T, t)
    PROVE  Cardinality(P) = Len(t)
<1>1. PICK b \in [1..Len(t) -> P] : Names(b, P, T, t)
  BY DEF Describes
<1>2. b \in Bijection(1..Len(t), P)
  BY <1>1 DEF Names, Bijection, Injection, Surjection, IsInjective
<1>3. Len(t) \in Nat /\ ExistsBijection(1..Len(t), P)
  BY <1>2, LenProperties DEF ExistsBijection
<1> QED
  BY <1>3, FS_CountingElements

\* Only the entries of the clients described matter.
LEMMA DescribesSame ==
    ASSUME NEW P, NEW T, NEW U, NEW t, Describes(P, T, t),
           \A c \in P : T[c] = U[c]
    PROVE  Describes(P, U, t)
<1>1. PICK b \in [1..Len(t) -> P] : Names(b, P, T, t)
  BY DEF Describes
<1>2. Names(b, P, U, t)
  BY <1>1 DEF Names
<1> QED
  BY <1>2 DEF Describes

\* One more client, one more entry.
LEMMA DescribesAppend ==
    ASSUME NEW S, NEW P, NEW T, NEW t \in Seq(S), Describes(P, T, t),
           NEW c, c \notin P, T[c] \in S
    PROVE  Describes(P \cup {c}, T, Append(t, T[c]))
<1> DEFINE u == Append(t, T[c])
           n == Len(t)
<1>1. PICK b \in [1..n -> P] : Names(b, P, T, t)
  BY DEF Describes
<1>2. /\ n \in Nat /\ Len(u) = n + 1
      /\ \A i \in 1..n : u[i] = t[i]
      /\ u[n+1] = T[c]
  BY AppendProperties, LenProperties
<1> HIDE DEF u
<1> DEFINE d == [i \in 1..(n+1) |-> IF i = n+1 THEN c ELSE b[i]]
<1>3. d \in [1..Len(u) -> P \cup {c}]
  BY <1>2
<1>4. d[n+1] = c /\ \A i \in 1..n : d[i] = b[i] /\ d[i] \in P
  BY <1>2
<1> HIDE DEF d
<1>5. \A x \in P \cup {c} : \E i \in 1..Len(u) : d[i] = x
  <2>1. n+1 \in 1..Len(u) /\ 1..n \subseteq 1..Len(u)
    BY <1>2
  <2> QED
    BY <1>1, <1>4, <2>1 DEF Names
<1>6. \A i, j \in 1..Len(u) : d[i] = d[j] => i = j
  <2>1. \A i \in 1..Len(u) : i = n+1 \/ i \in 1..n
    BY <1>2
  <2> QED
    BY <1>1, <1>4, <2>1 DEF Names
<1>7. Misread \/ \A i \in 1..Len(u) : u[i] = T[d[i]]
  <2>1. \A i \in 1..Len(u) : i = n+1 \/ i \in 1..n
    BY <1>2
  <2> QED
    BY <1>1, <1>2, <1>4, <2>1 DEF Names
<1>8. Names(d, P \cup {c}, T, u)
  BY <1>5, <1>6, <1>7 DEF Names
<1> QED
  BY <1>3, <1>8 DEF Describes, u

\* Any entry that equals a client's may be taken for that client's: those of
\* two clients with the same tags can be swapped.
LEMMA NamedAt ==
    ASSUME NEW S, NEW P, NEW T, NEW t \in Seq(S), Describes(P, T, t),
           NEW c \in P, NEW i \in 1..Len(t), Misread \/ t[i] = T[c]
    PROVE  \E b \in [1..Len(t) -> P] : Names(b, P, T, t) /\ b[i] = c
<1> DEFINE n == Len(t)
<1>1. PICK b \in [1..n -> P] : Names(b, P, T, t)
  BY DEF Describes
<1>2. PICK j \in 1..n : b[j] = c
  BY <1>1 DEF Names
<1> DEFINE d == [k \in 1..n |-> IF k = i THEN c ELSE IF k = j THEN b[i] ELSE b[k]]
<1>3. d \in [1..n -> P]
  OBVIOUS
<1>4. /\ d[i] = c
      /\ j # i => d[j] = b[i]
      /\ \A k \in 1..n : k # i /\ k # j => d[k] = b[k]
  OBVIOUS
<1> HIDE DEF d, n
<1>5. \A x \in P : \E k \in 1..n : d[k] = x
  <2> TAKE x \in P
  <2>1. PICK k \in 1..n : b[k] = x
    BY <1>1 DEF Names, n
  <2>2. CASE k = j
    BY <1>2, <1>4, <2>1, <2>2 DEF n
  <2>3. CASE k # j /\ k = i
    BY <1>4, <2>1, <2>3
  <2>4. CASE k # j /\ k # i
    BY <1>4, <2>1, <2>4
  <2> QED
    BY <2>2, <2>3, <2>4
<1>6. \A k, l \in 1..n : d[k] = d[l] => k = l
  <2>1. \A k, l \in 1..n : b[k] = b[l] => k = l
    BY <1>1 DEF Names, n
  <2>2. i \in 1..n
    BY DEF n
  <2> QED
    BY <1>2, <1>4, <2>1, <2>2
<1>7. Misread \/ \A k \in 1..n : t[k] = T[d[k]]
  <2>1. SUFFICES ASSUME ~Misread, NEW k \in 1..n PROVE t[k] = T[d[k]]
    OBVIOUS
  <2>2. \A l \in 1..n : t[l] = T[b[l]]
    BY <1>1, <2>1 DEF Names, n
  <2>3. t[i] = T[c] /\ i \in 1..n
    BY <2>1 DEF n
  <2>4. T[b[i]] = T[c] /\ T[b[j]] = T[c]
    BY <1>2, <2>2, <2>3
  <2> QED
    BY <1>4, <2>2, <2>3, <2>4
<1> QED
  BY <1>3, <1>4, <1>5, <1>6, <1>7 DEF Names, n

\* One client less, one entry less: the leaving client's, or one like it.
LEMMA DescribesRemove ==
    ASSUME NEW S, NEW P, NEW T, NEW t \in Seq(S), Describes(P, T, t),
           NEW c \in P, NEW i \in 1..Len(t), Misread \/ t[i] = T[c]
    PROVE  Describes(P \ {c}, T, RemoveAt(t, i))
<1> DEFINE n == Len(t)
           u == RemoveAt(t, i)
           up(k) == IF k < i THEN k ELSE k+1
<1>1. PICK b \in [1..n -> P] : Names(b, P, T, t) /\ b[i] = c
  BY NamedAt
<1>2. n \in Nat /\ Len(u) = n - 1 /\ \A k \in 1..(n-1) : u[k] = t[up(k)]
  BY RemoveAtProperties, RemoveAtElements, LenProperties
<1>3. /\ \A k \in 1..(n-1) : up(k) \in 1..n /\ up(k) # i
      /\ \A k, l \in 1..(n-1) : up(k) = up(l) => k = l
      /\ \A k \in 1..n : k # i => \E l \in 1..(n-1) : up(l) = k
  <2>1. /\ \A k \in 1..(n-1) : up(k) \in 1..n /\ up(k) # i
        /\ \A k, l \in 1..(n-1) : up(k) = up(l) => k = l
    BY <1>2
  <2>2. ASSUME NEW k \in 1..n, k # i PROVE \E l \in 1..(n-1) : up(l) = k
    <3>1. CASE k < i
      <4>1. k \in 1..(n-1) /\ up(k) = k
        BY <1>2, <3>1
      <4> QED
        BY <4>1
    <3>2. CASE k > i
      <4>1. k-1 \in 1..(n-1) /\ up(k-1) = k
        BY <1>2, <3>2
      <4> QED
        BY <4>1
    <3> QED
      BY <1>2, <2>2, <3>1, <3>2
  <2> QED
    BY <2>1, <2>2
<1> HIDE DEF up, u
<1> DEFINE d == [k \in 1..(n-1) |-> b[up(k)]]
<1>4. \A k \in 1..(n-1) : b[up(k)] \in P /\ b[up(k)] # c
  <2> TAKE k \in 1..(n-1)
  <2>1. up(k) \in 1..n /\ up(k) # i
    BY <1>3
  <2> QED
    BY <1>1, <2>1 DEF Names
<1>5. d \in [1..Len(u) -> P \ {c}]
  BY <1>2, <1>4
<1>6. \A k \in 1..(n-1) : d[k] = b[up(k)]
  OBVIOUS
<1> HIDE DEF d
<1>7. \A x \in P \ {c} : \E k \in 1..(n-1) : d[k] = x
  <2> TAKE x \in P \ {c}
  <2>1. PICK k \in 1..n : b[k] = x
    BY <1>1 DEF Names
  <2>2. k # i
    BY <1>1, <2>1
  <2> QED
    BY <1>3, <1>6, <2>1, <2>2
<1>8. \A k, l \in 1..(n-1) : d[k] = d[l] => k = l
  BY <1>1, <1>3, <1>6 DEF Names
<1>9. Misread \/ \A k \in 1..(n-1) : u[k] = T[d[k]]
  BY <1>1, <1>2, <1>3, <1>6 DEF Names
<1>10. Names(d, P \ {c}, T, u)
  BY <1>2, <1>7, <1>8, <1>9 DEF Names
<1> QED
  BY <1>5, <1>10 DEF Describes, u

\* A client's tags change, and an entry that equalled them changes likewise.
LEMMA DescribesReplace ==
    ASSUME NEW S, NEW P, NEW T, NEW U, NEW t \in Seq(S), Describes(P, T, t),
           NEW c \in P, NEW i \in 1..Len(t), Misread \/ t[i] = T[c],
           U[c] \in S, \A x \in P : x # c => T[x] = U[x]
    PROVE  Describes(P, U, ReplaceAt(t, i, U[c]))
<1> DEFINE n == Len(t)
           u == ReplaceAt(t, i, U[c])
<1>1. PICK b \in [1..n -> P] : Names(b, P, T, t) /\ b[i] = c
  BY NamedAt
<1>2. Len(u) = n /\ \A k \in 1..n : u[k] = IF k = i THEN U[c] ELSE t[k]
  BY ExceptSeq DEF ReplaceAt
<1> HIDE DEF u
<1>3. Misread \/ \A k \in 1..n : u[k] = U[b[k]]
  <2>1. SUFFICES ASSUME ~Misread, NEW k \in 1..n PROVE u[k] = U[b[k]]
    OBVIOUS
  <2>2. t[k] = T[b[k]] /\ b[k] \in P
    BY <1>1, <2>1 DEF Names
  <2>3. CASE k = i
    BY <1>1, <1>2, <2>3
  <2>4. CASE k # i
    <3>1. b[k] # c
      BY <1>1, <2>4 DEF Names
    <3> QED
      BY <1>2, <2>2, <2>4, <3>1
  <2> QED
    BY <2>3, <2>4
<1>4. Names(b, P, U, u)
  BY <1>1, <1>2, <1>3 DEF Names
<1> QED
  BY <1>2, <1>4 DEF Describes, u

-----------------------------------------------------------------------------
(* What the handlers make of a slot's record *)

\* The record of slot s once packet m is handled.
After(s, p, m) ==
    CASE m.type = "Join" /\ m.slot = s -> RefreshDeathLink(ClientJoined(p, m.tags))
      [] m.type = "Part" /\ m.slot = s -> RefreshDeathLink(ClientLeft(p, m.tags))
      [] m.type = "TagsChanged" /\ m.slot = s
           -> RefreshDeathLink(ClientTagsChanged(p, m.tags))
      [] m.type = "SetReply" /\ m.slot = s -> ApplyServerStatus(s, p, m.status)
      [] m.type = "Retrieved" -> ApplyServerStatus(s, p, m.statuses[s])
      [] OTHER -> p

\* Handling the packets of box one after the other leads from p to q.
Leads(s, p, box, q) ==
    \E f \in [0..Len(box) -> SlotPresence] :
        /\ f[0] = p
        /\ \A i \in 1..Len(box) : f[i] = After(s, f[i-1], box[i])
        /\ f[Len(box)] = q

\* A record's badge is the one its entries give: refreshing it changes nothing.
LEMMA RefreshNothing ==
    ASSUME NEW p, SlotOK(p) PROVE RefreshDeathLink(p) = p
<1>1. p \in SlotPresence /\ p.deathLink = LiveDeathLink(p.tags)
  BY DEF SlotOK
<1> QED
  BY <1>1 DEF RefreshDeathLink, SlotPresence

\* What the fields of a consistent record tell of one another.
LEMMA SlotFields ==
    ASSUME NEW p, SlotOK(p)
    PROVE  /\ p.tags \in Seq(SUBSET Tag) /\ Len(p.tags) \in Nat /\ p.count \in Nat
           /\ p.provisional \in BOOLEAN
           /\ p.provisional => p.count = 1 /\ p.tags = <<>>
           /\ ~p.provisional => p.count = Len(p.tags)
<1>1. p \in SlotPresence /\ SlotConsistent(p)
  BY DEF SlotOK
<1>2. p.tags \in Seq(SUBSET Tag)
  BY <1>1 DEF SlotPresence
<1> QED
  BY <1>1, <1>2, LenProperties DEF SlotPresence, SlotConsistent

\* Notices of other clients than game clients are ignored.
LEMMA NotPlaying ==
    ASSUME NEW p, SlotOK(p), NEW tags, ~IsPlayingClient(tags)
    PROVE  /\ RefreshDeathLink(ClientJoined(p, tags)) = p
           /\ RefreshDeathLink(ClientLeft(p, tags)) = p
           /\ RefreshDeathLink(ClientTagsChanged(p, tags)) = p
BY RefreshNothing DEF ClientJoined, ClientLeft, ClientTagsChanged

\* Refreshing the badge touches nothing else.
LEMMA RefreshFields ==
    ASSUME NEW p \in SlotPresence
    PROVE  /\ RefreshDeathLink(p).tags = p.tags
           /\ RefreshDeathLink(p).provisional = p.provisional
BY DEF SlotPresence, RefreshDeathLink

\* A Join adds an entry; the slot no longer stands on the server's word.
LEMMA JoinFields ==
    ASSUME NEW p, SlotOK(p), NEW tags \in SUBSET Tag, IsPlayingClient(tags),
           NEW q, q = RefreshDeathLink(ClientJoined(p, tags))
    PROVE  SlotOK(q) /\ ~q.provisional /\ q.tags = Append(p.tags, tags)
<1>1. SlotOK(q)
  BY JoinOK
<1>2. p \in SlotPresence /\ p.tags \in Seq(SUBSET Tag) /\ p.count \in Nat
  BY DEF SlotOK, SlotPresence
<1> DEFINE n == IF p.provisional THEN 1 ELSE p.count + 1
           t == Append(p.tags, tags)
           r == ClientJoined(p, tags)
<1>3. r = [p EXCEPT !.count = n, !.provisional = FALSE, !.tags = t]
  BY DEF ClientJoined
<1>4. n \in Nat /\ t \in Seq(SUBSET Tag)
  BY <1>2, AppendProperties
<1> HIDE DEF n, t, r
<1>5. r \in SlotPresence /\ r.provisional = FALSE /\ r.tags = t
  BY <1>2, <1>3, <1>4 DEF SlotPresence
<1> QED
  BY <1>1, <1>5, RefreshFields DEF r, t

\* A Part takes an entry away.
LEMMA PartFields ==
    ASSUME NEW p, SlotOK(p), NEW tags \in SUBSET Tag, IsPlayingClient(tags),
           NEW q, q = RefreshDeathLink(ClientLeft(p, tags))
    PROVE  /\ SlotOK(q) /\ ~q.provisional
           /\ IF p.provisional \/ Len(p.tags) <= 1 THEN q.tags = <<>>
              ELSE /\ LeavingIndex(p.tags, tags) \in 1..Len(p.tags)
                   /\ q.tags = RemoveAt(p.tags, LeavingIndex(p.tags, tags))
<1>1. SlotOK(q)
  BY PartOK
<1>2. p \in SlotPresence
  BY DEF SlotOK
<1>3. /\ p.tags \in Seq(SUBSET Tag) /\ Len(p.tags) \in Nat /\ p.count \in Nat
      /\ p.provisional => p.count = 1 /\ p.tags = <<>>
      /\ ~p.provisional => p.count = Len(p.tags)
  BY SlotFields
<1> DEFINE i == LeavingIndex(p.tags, tags)
           n == Remaining(p)
           r == ClientLeft(p, tags)
<1>4. CASE p.provisional \/ Len(p.tags) <= 1
  <2>1. n = 0
    BY <1>3, <1>4 DEF Remaining
  <2>2. r = [p EXCEPT !.count = 0, !.provisional = FALSE, !.tags = <<>>]
    BY <2>1 DEF ClientLeft
  <2>3. <<>> \in Seq(SUBSET Tag)
    OBVIOUS
  <2> HIDE DEF r
  <2>4. r \in SlotPresence /\ r.provisional = FALSE /\ r.tags = <<>>
    BY <1>2, <2>2, <2>3 DEF SlotPresence
  <2> QED
    BY <1>1, <1>4, <2>4, RefreshFields DEF r
<1>5. CASE ~(p.provisional \/ Len(p.tags) <= 1)
  <2>1. n = Len(p.tags) - 1 /\ n \in Nat /\ n # 0 /\ p.tags # <<>>
    BY <1>3, <1>5 DEF Remaining
  <2>2. i \in 1..Len(p.tags)
    <3> DEFINE I == {k \in DOMAIN p.tags :
                       /\ p.tags[k] = tags
                       /\ \A j \in DOMAIN p.tags : j > k => p.tags[j] # tags}
    <3>1. I \in SUBSET (1..Len(p.tags)) /\ Len(p.tags) \in Nat \ {0}
      BY <1>3, <1>5, LenProperties
    <3> HIDE DEF I
    <3>2. Pick(I, Len(p.tags)) \in 1..Len(p.tags)
      BY <3>1, PickInRange
    <3> QED
      BY <3>2 DEF LeavingIndex, I
  <2> HIDE DEF i
  <2> DEFINE t == RemoveAt(p.tags, i)
  <2>3. t \in Seq(SUBSET Tag)
    BY <1>3, <2>2, RemoveAtProperties
  <2>4. r = [p EXCEPT !.count = n, !.provisional = FALSE, !.tags = t]
    BY <2>1 DEF ClientLeft, i
  <2> HIDE DEF r, t, n
  <2>5. r \in SlotPresence /\ r.provisional = FALSE /\ r.tags = t
    BY <1>2, <2>1, <2>3, <2>4 DEF SlotPresence
  <2>6. q.tags = t /\ q.provisional = FALSE
    BY <2>5, RefreshFields DEF r
  <2> QED
    BY <1>1, <1>5, <2>2, <2>6 DEF i, t
<1> QED
  BY <1>4, <1>5

\* A TagsChanged changes an entry, and nothing where there is none.
LEMMA TagsChangedFields ==
    ASSUME NEW p, SlotOK(p), NEW tags \in SUBSET Tag, IsPlayingClient(tags),
           NEW q, q = RefreshDeathLink(ClientTagsChanged(p, tags))
    PROVE  /\ SlotOK(q) /\ q.provisional = p.provisional
           /\ IF p.tags = <<>> THEN q.tags = <<>>
              ELSE /\ ChangedIndex(p.tags, tags) \in 1..Len(p.tags)
                   /\ q.tags = ReplaceAt(p.tags, ChangedIndex(p.tags, tags), tags)
<1>1. SlotOK(q)
  BY TagsChangedOK
<1>2. p \in SlotPresence
  BY DEF SlotOK
<1>3. p.tags \in Seq(SUBSET Tag) /\ Len(p.tags) \in Nat
  BY SlotFields
<1>4. CASE p.tags = <<>>
  <2>1. ClientTagsChanged(p, tags) = p
    BY <1>4 DEF ClientTagsChanged
  <2> QED
    BY <1>1, <1>2, <1>4, <2>1, RefreshFields
<1>5. CASE p.tags # <<>>
  <2> DEFINE i == ChangedIndex(p.tags, tags)
             toggled(e) == (e \ tags) \cup (tags \ e) = {"DeathLink"}
             I == {k \in DOMAIN p.tags :
                     /\ toggled(p.tags[k])
                     /\ \A j \in DOMAIN p.tags : j < k => ~toggled(p.tags[j])}
             t == ReplaceAt(p.tags, i, tags)
             r == ClientTagsChanged(p, tags)
  <2>1. i \in 1..Len(p.tags)
    <3>1. I \in SUBSET (1..Len(p.tags)) /\ Len(p.tags) \in Nat \ {0}
      BY <1>3, <1>5, EmptySeq, LenProperties
    <3>2. Pick(I, Len(p.tags)) \in 1..Len(p.tags)
      <4> HIDE DEF I
      <4> QED
        BY <3>1, PickInRange
    <3>3. i = Pick(I, Len(p.tags))
      BY DEF ChangedIndex
    <3> QED
      BY <3>2, <3>3
  <2> HIDE DEF i, I
  <2>2. t \in Seq(SUBSET Tag)
    BY <1>3, <2>1, ReplaceAtProperties
  <2>3. r = [p EXCEPT !.tags = t]
    BY <1>5 DEF ClientTagsChanged, i
  <2> HIDE DEF t, r
  <2>4. r \in SlotPresence /\ r.provisional = p.provisional /\ r.tags = t
    BY <1>2, <2>2, <2>3 DEF SlotPresence
  <2>5. q.tags = t /\ q.provisional = p.provisional
    BY <2>4, RefreshFields DEF r
  <2> QED
    BY <1>1, <1>5, <2>1, <2>5 DEF i, t
<1> QED
  BY <1>4, <1>5

\* The server's word empties a slot, marks an empty one as held, or is nothing
\* new; on the bridge's own slot it is ignored.
LEMMA StatusFields ==
    ASSUME NEW p, SlotOK(p), NEW s, NEW value,
           NEW q, q = ApplyServerStatus(s, p, value)
    PROVE  /\ SlotOK(q)
           /\ s = MySlot => q = p
           /\ s # MySlot /\ value = 0 => ~q.provisional /\ q.tags = <<>>
           /\ s # MySlot /\ value \in PlayingStatuses /\ p.count = 0 => q.provisional
           /\ value # 0 /\ (value \notin PlayingStatuses \/ p.count # 0) => q = p
<1>1. SlotOK(q)
  BY StatusOK
<1>2. p \in SlotPresence /\ p.provisional \in BOOLEAN
  BY DEF SlotOK, SlotPresence
<1>3. s = MySlot => q = p
  BY DEF ApplyServerStatus
<1>4. ASSUME s # MySlot, value = 0 PROVE ~q.provisional /\ q.tags = <<>>
  <2>1. CASE p.count = 0 /\ p.tags = <<>>
    <3>1. q = [p EXCEPT !.provisional = FALSE]
      BY <1>4, <2>1 DEF ApplyServerStatus
    <3> QED
      BY <1>2, <2>1, <3>1 DEF SlotPresence
  <2>2. CASE ~(p.count = 0 /\ p.tags = <<>>)
    <3> DEFINE r == [p EXCEPT !.count = 0, !.tags = <<>>, !.provisional = FALSE]
    <3>1. q = RefreshDeathLink(r)
      BY <1>4, <2>2 DEF ApplyServerStatus
    <3>2. r \in SlotPresence /\ r.tags = <<>> /\ r.provisional = FALSE
      <4>1. r = [p EXCEPT !.count = 0, !.provisional = FALSE, !.tags = <<>>]
        OBVIOUS
      <4>2. <<>> \in Seq(SUBSET Tag)
        OBVIOUS
      <4> HIDE DEF r
      <4> QED
        BY <1>2, <4>1, <4>2 DEF SlotPresence
    <3> HIDE DEF r
    <3> QED
      BY <3>1, <3>2, RefreshFields
  <2> QED
    BY <2>1, <2>2
<1>5. ASSUME s # MySlot, value \in PlayingStatuses, p.count = 0 PROVE q.provisional
  <2>1. value # 0
    BY <1>5 DEF PlayingStatuses
  <2>2. q = [p EXCEPT !.count = 1, !.provisional = TRUE]
    BY <1>5, <2>1 DEF ApplyServerStatus
  <2>3. q.provisional = TRUE
    BY <1>2, <2>2 DEF SlotPresence
  <2> QED
    BY <2>3, Zenon
<1>6. value # 0 /\ (value \notin PlayingStatuses \/ p.count # 0) => q = p
  BY DEF ApplyServerStatus
<1> QED
  BY <1>1, <1>3, <1>4, <1>5, <1>6

\* Every packet leaves a slot's record consistent.
LEMMA AfterOK ==
    ASSUME NEW s \in Slots, NEW p, SlotOK(p), NEW m \in Packet
    PROVE  SlotOK(After(s, p, m)) /\ After(s, p, m) \in SlotPresence
<1> DEFINE q == After(s, p, m)
<1>1. CASE m.type = "Join" /\ m.slot = s
  <2>1. q = RefreshDeathLink(ClientJoined(p, m.tags))
    BY <1>1 DEF After
  <2> QED
    BY <1>1, <2>1, PacketFields, JoinOK DEF SlotOK
<1>2. CASE m.type = "Part" /\ m.slot = s
  <2>1. q = RefreshDeathLink(ClientLeft(p, m.tags))
    BY <1>2 DEF After
  <2> QED
    BY <1>2, <2>1, PacketFields, PartOK DEF SlotOK
<1>3. CASE m.type = "TagsChanged" /\ m.slot = s
  <2>1. q = RefreshDeathLink(ClientTagsChanged(p, m.tags))
    BY <1>3 DEF After
  <2> QED
    BY <1>3, <2>1, PacketFields, TagsChangedOK DEF SlotOK
<1>4. CASE m.type = "SetReply" /\ m.slot = s
  <2>1. q = ApplyServerStatus(s, p, m.status)
    BY <1>4 DEF After
  <2> QED
    BY <2>1, StatusOK DEF SlotOK
<1>5. CASE m.type = "Retrieved"
  <2>1. q = ApplyServerStatus(s, p, m.statuses[s])
    BY <1>5 DEF After
  <2> QED
    BY <2>1, StatusOK DEF SlotOK
<1>6. CASE m.type # "Retrieved"
           /\ ~(m.type \in {"Join", "Part", "TagsChanged", "SetReply"} /\ m.slot = s)
  <2>1. q = p
    BY <1>6 DEF After
  <2> QED
    BY <2>1 DEF SlotOK
<1> QED
  BY <1>1, <1>2, <1>3, <1>4, <1>5, <1>6

-----------------------------------------------------------------------------
(* Handling packets one after the other *)

\* With no packet on its way the record is what it will be.
LEMMA LeadsNothing ==
    ASSUME NEW s, NEW p \in SlotPresence, NEW q
    PROVE  Leads(s, p, <<>>, q) <=> q = p
<1>1. Len(<<>>) = 0 /\ 1..0 = {}
  OBVIOUS
<1>2. Leads(s, p, <<>>, q) => q = p
  BY <1>1 DEF Leads
<1>3. ASSUME q = p PROVE Leads(s, p, <<>>, q)
  <2> DEFINE f == [i \in 0..0 |-> p]
  <2>1. f \in [0..0 -> SlotPresence] /\ f[0] = p
    OBVIOUS
  <2> HIDE DEF f
  <2> QED
    BY <1>1, <1>3, <2>1 DEF Leads
<1> QED
  BY <1>2, <1>3

\* One packet, one handler.
LEMMA LeadsOne ==
    ASSUME NEW s, NEW p \in SlotPresence, NEW m, After(s, p, m) \in SlotPresence
    PROVE  Leads(s, p, <<m>>, After(s, p, m))
<1> DEFINE q == After(s, p, m)
           f == [i \in 0..1 |-> IF i = 0 THEN p ELSE q]
<1>1. Len(<<m>>) = 1 /\ <<m>>[1] = m
  OBVIOUS
<1>2. f \in [0..1 -> SlotPresence] /\ f[0] = p /\ f[1] = q
  OBVIOUS
<1> HIDE DEF f
<1>3. \A i \in 1..1 : f[i] = After(s, f[i-1], <<m>>[i])
  <2>1. \A i \in 1..1 : i = 1
    OBVIOUS
  <2>2. f[1] = After(s, f[1-1], <<m>>[1])
    BY <1>1, <1>2
  <2> QED
    BY <2>1, <2>2
<1> QED
  BY <1>1, <1>2, <1>3 DEF Leads

\* Handling the oldest packet leaves the rest to handle.
LEMMA LeadsHead ==
    ASSUME NEW S, NEW box \in Seq(S), box # <<>>, NEW s, NEW p, NEW q,
           Leads(s, p, box, q)
    PROVE  Leads(s, After(s, p, Head(box)), Tail(box), q)
<1>1. PICK f \in [0..Len(box) -> SlotPresence] :
        /\ f[0] = p
        /\ \A i \in 1..Len(box) : f[i] = After(s, f[i-1], box[i])
        /\ f[Len(box)] = q
  BY DEF Leads
<1> DEFINE n == Len(box) - 1
           rest == Tail(box)
<1>2. /\ n \in Nat /\ Len(rest) = n /\ Len(box) = n+1
      /\ \A i \in 1..n : rest[i] = box[i+1]
      /\ Head(box) = box[1]
  <2>1. Len(box) \in Nat \ {0}
    BY EmptySeq
  <2>2. Len(rest) = Len(box) - 1 /\ \A i \in 1..Len(rest) : rest[i] = box[i+1]
    BY HeadTailProperties
  <2>3. Head(box) = box[1]
    OBVIOUS
  <2> QED
    BY <2>1, <2>2, <2>3
<1> HIDE DEF n, rest
<1> DEFINE g == [i \in 0..n |-> f[i+1]]
<1>3. \A i \in 0..n : i+1 \in 0..Len(box) /\ i+1 \in 1..Len(box)
  BY <1>2
<1>4. g \in [0..n -> SlotPresence] /\ \A i \in 0..n : g[i] = f[i+1]
  BY <1>1, <1>3
<1> HIDE DEF g
<1>5. g[0] = After(s, p, Head(box))
  <2>1. 0 \in 0..n /\ 0+1 = 1 /\ 1-1 = 0 /\ 1 \in 1..Len(box)
    BY <1>2
  <2>2. f[1] = After(s, f[1-1], box[1])
    BY <1>1, <2>1
  <2>3. g[0] = f[1]
    BY <1>4, <2>1
  <2> QED
    BY <1>1, <1>2, <2>1, <2>2, <2>3
<1>6. \A i \in 1..n : g[i] = After(s, g[i-1], rest[i])
  <2> TAKE i \in 1..n
  <2>1. i \in 0..n /\ i-1 \in 0..n /\ i+1 \in 1..Len(box) /\ (i+1)-1 = i
        /\ (i-1)+1 = i
    BY <1>2
  <2>2. g[i] = f[i+1] /\ g[i-1] = f[(i-1)+1]
    BY <1>4, <2>1
  <2>3. f[i+1] = After(s, f[(i+1)-1], box[i+1])
    BY <1>1, <2>1
  <2> QED
    BY <1>2, <2>1, <2>2, <2>3
<1>7. g[n] = q
  BY <1>1, <1>2, <1>4
<1> QED
  BY <1>2, <1>4, <1>5, <1>6, <1>7 DEF Leads, rest

\* Packets sent are handled after those on their way.
LEMMA LeadsOn ==
    ASSUME NEW S, NEW box \in Seq(S), NEW more \in Seq(S), NEW s, NEW p, NEW q, NEW r,
           Leads(s, p, box, q), Leads(s, q, more, r)
    PROVE  Leads(s, p, box \o more, r)
<1> DEFINE n == Len(box)
           k == Len(more)
           all == box \o more
<1>1. PICK f \in [0..n -> SlotPresence] :
        /\ f[0] = p
        /\ \A i \in 1..n : f[i] = After(s, f[i-1], box[i])
        /\ f[n] = q
  BY DEF Leads
<1>2. PICK g \in [0..k -> SlotPresence] :
        /\ g[0] = q
        /\ \A i \in 1..k : g[i] = After(s, g[i-1], more[i])
        /\ g[k] = r
  BY DEF Leads
<1>3. /\ n \in Nat /\ k \in Nat /\ Len(all) = n + k
      /\ \A i \in 1..(n+k) : all[i] = IF i <= n THEN box[i] ELSE more[i-n]
  BY ConcatProperties, LenProperties
<1> HIDE DEF n, k, all
<1> DEFINE h == [i \in 0..(n+k) |-> IF i <= n THEN f[i] ELSE g[i-n]]
<1>4. h \in [0..(n+k) -> SlotPresence]
  <2>1. \A i \in 0..(n+k) : IF i <= n THEN i \in 0..n ELSE i-n \in 0..k
    BY <1>3
  <2> QED
    BY <1>1, <1>2, <2>1
<1>5. \A i \in 0..n : h[i] = f[i]
  BY <1>3
<1>6. \A i \in 0..k : h[n+i] = g[i]
  <2> TAKE i \in 0..k
  <2>1. n+i \in 0..(n+k) /\ (n+i)-n = i
    BY <1>3
  <2>2. CASE i = 0
    <3>1. h[n+i] = f[n]
      BY <1>3, <2>1, <2>2
    <3> QED
      BY <1>1, <1>2, <2>2, <3>1
  <2>3. CASE i # 0
    <3>1. ~(n+i <= n)
      BY <1>3, <2>3
    <3> QED
      BY <2>1, <3>1
  <2> QED
    BY <2>2, <2>3
<1> HIDE DEF h
<1>7. \A i \in 1..(n+k) : h[i] = After(s, h[i-1], all[i])
  <2> TAKE i \in 1..(n+k)
  <2>1. CASE i <= n
    <3>1. i \in 1..n /\ i \in 0..n /\ i-1 \in 0..n
      BY <1>3, <2>1
    <3>2. all[i] = box[i]
      BY <1>3, <2>1
    <3> QED
      BY <1>1, <1>5, <3>1, <3>2
  <2>2. CASE ~(i <= n)
    <3> DEFINE j == i - n
    <3>1. j \in 1..k /\ j \in 0..k /\ j-1 \in 0..k /\ n+j = i /\ n+(j-1) = i-1
      BY <1>3, <2>2
    <3>2. all[i] = more[j]
      BY <1>3, <2>2
    <3> HIDE DEF j
    <3>3. h[n+j] = g[j] /\ h[n+(j-1)] = g[j-1]
      BY <1>6, <3>1
    <3>4. g[j] = After(s, g[j-1], more[j])
      BY <1>2, <3>1
    <3> QED
      BY <3>1, <3>2, <3>3, <3>4
  <2> QED
    BY <2>1, <2>2
<1>8. h[0] = p
  BY <1>1, <1>3, <1>5
<1>9. h[n+k] = r
  BY <1>2, <1>3, <1>6
<1> QED
  BY <1>3, <1>4, <1>7, <1>8, <1>9 DEF Leads, all

-----------------------------------------------------------------------------
(* Which entry a handler picks *)

TagsOf == [c \in Clients |-> Tags(c)]

\* The tags a client shows: a game client's are a game client's with and
\* without DeathLink, which is never among the base tags.
LEMMA ClientTags ==
    ASSUME NEW c \in Clients
    PROVE  /\ IsPlayingClient(Tags(c)) <=> Plays(c)
           /\ "DeathLink" \in Tags(c) <=> c \in deathLinks
           /\ TagsOf[c] = Tags(c)
<1>1. BaseTags[c] \in SUBSET (Tag \ {"DeathLink"})
  BY SlotAssumption
<1>2. "DeathLink" \notin BaseTags[c] /\ "DeathLink" \notin NonPlayingTags
  BY <1>1 DEF NonPlayingTags
<1>3. Tags(c) \cap NonPlayingTags = BaseTags[c] \cap NonPlayingTags
  BY <1>2 DEF Tags
<1> QED
  BY <1>2, <1>3 DEF Tags, TagsOf, Plays, IsPlayingClient

\* Where every tag list is readable a described client has its entry.
LEMMA EntryOf ==
    ASSUME NEW P, NEW T, NEW t, Describes(P, T, t), NEW c \in P, ~Misread
    PROVE  \E i \in 1..Len(t) : t[i] = T[c]
BY DEF Describes, Names

\* A Part removes the leaving client's entry, or one like it.
LEMMA LeavingEntry ==
    ASSUME NEW S, NEW t \in Seq(S), NEW tags, \E k \in 1..Len(t) : t[k] = tags
    PROVE  t[LeavingIndex(t, tags)] = tags
<1> DEFINE I == {k \in DOMAIN t :
                   /\ t[k] = tags
                   /\ \A j \in DOMAIN t : j > k => t[j] # tags}
           J == {k \in 1..Len(t) : t[k] = tags}
<1>1. Len(t) \in Nat /\ DOMAIN t = 1..Len(t)
  BY LenProperties
<1>2. PICK x \in J : \A y \in J : y <= x
  <2>1. J \subseteq 1..Len(t) /\ J # {}
    OBVIOUS
  <2> HIDE DEF J
  <2> QED
    BY <1>1, <2>1, FirstAndLatest
<1>3. x \in I
  <2>1. \A j \in 1..Len(t) : j > x => j \notin J
    BY <1>1, <1>2
  <2> QED
    BY <1>1, <2>1
<1>4. (CHOOSE k \in I : TRUE) \in I
  BY <1>3
<1>5. LeavingIndex(t, tags) = CHOOSE k \in I : TRUE
  <2>1. LeavingIndex(t, tags) = Pick(I, Len(t))
    BY DEF LeavingIndex
  <2> HIDE DEF I
  <2> QED
    BY <1>3, <2>1 DEF Pick
<1> QED
  BY <1>4, <1>5

\* The set old is the one that differs from tags by DeathLink alone.
Toggled(old, tags) == \A e : (e \ tags) \cup (tags \ e) = {"DeathLink"} <=> e = old

\* Turning DeathLink on or off leaves one candidate for the former tags.
LEMMA OneTagApart ==
    ASSUME NEW B, "DeathLink" \notin B, NEW old, NEW tags,
           \/ tags = B /\ old = B \cup {"DeathLink"}
           \/ tags = B \cup {"DeathLink"} /\ old = B
    PROVE  Toggled(old, tags)
<1>1. CASE tags = B /\ old = B \cup {"DeathLink"}
  BY <1>1 DEF Toggled
<1>2. CASE tags = B \cup {"DeathLink"} /\ old = B
  BY <1>2 DEF Toggled
<1> QED
  BY <1>1, <1>2

\* A TagsChanged replaces the entry of the client it is about, or one like it.
LEMMA ChangedEntry ==
    ASSUME NEW S, NEW t \in Seq(S), NEW old, NEW tags,
           Toggled(old, tags), \E k \in 1..Len(t) : t[k] = old
    PROVE  t[ChangedIndex(t, tags)] = old
<1> DEFINE toggled(e) == (e \ tags) \cup (tags \ e) = {"DeathLink"}
           I == {k \in DOMAIN t :
                   /\ toggled(t[k])
                   /\ \A j \in DOMAIN t : j < k => ~toggled(t[j])}
           J == {k \in 1..Len(t) : t[k] = old}
<1>1. Len(t) \in Nat /\ DOMAIN t = 1..Len(t)
  BY LenProperties
<1>2. PICK x \in J : \A y \in J : x <= y
  <2>1. J \subseteq 1..Len(t) /\ J # {}
    OBVIOUS
  <2> HIDE DEF J
  <2> QED
    BY <1>1, <2>1, FirstAndLatest
<1>3. \A e : toggled(e) <=> e = old
  BY DEF Toggled
<1>4. ChangedIndex(t, tags) = Pick(I, Len(t))
  BY DEF ChangedIndex
<1> HIDE DEF toggled
<1>5. x \in I
  <2>1. \A j \in 1..Len(t) : j < x => j \notin J
    BY <1>1, <1>2
  <2> QED
    BY <1>1, <1>3, <2>1
<1>6. (CHOOSE k \in I : TRUE) \in I
  BY <1>5
<1>7. \A k \in I : t[k] = old
  BY <1>3
<1> HIDE DEF I
<1>8. ChangedIndex(t, tags) = CHOOSE k \in I : TRUE
  BY <1>4, <1>5 DEF Pick
<1> QED
  BY <1>6, <1>7, <1>8

-----------------------------------------------------------------------------
(* The invariant *)

\* Record q is right about slot s, as far as the bridge can know.
Fits(s, q) ==
    /\ SlotOK(q)
    /\ ~q.provisional => q.count <= Cardinality(Playing(s))
    /\ s \notin preexisting /\ ToldApart(s) =>
          IF q.provisional THEN Playing(s) = {}
          ELSE Describes(Playing(s), TagsOf, q.tags)
    /\ GamesOnly(s) /\ q.provisional => \E c \in online : SlotOf[c] = s

\* Once the packets on their way are handled, every slot's record is right.
Foreseen ==
    conn = "attached" =>
        \A s \in Slots : \E q \in SlotPresence :
            Leads(s, presence[s], inbox, q) /\ Fits(s, q)

\* The server's status of a slot tells whether anybody is there, the bridge's
\* own slot aside and where no goal is reached.
StatusFits ==
    \A s \in Slots \ {MySlot} :
        /\ status[s] = 0 => \A c \in online : SlotOf[c] # s
        /\ status[s] \in PlayingStatuses => \E c \in online : SlotOf[c] = s

NobodyUnlessAttached ==
    conn # "attached" => \A s \in Slots : presence[s] = Nobody

ExactInv == IInv /\ NobodyUnlessAttached /\ StatusFits /\ Foreseen

-----------------------------------------------------------------------------
(* Helpers for the actions *)

\* A slot has finitely many players.
LEMMA PlayingFinite ==
    ASSUME ServerOK, NEW s
    PROVE  IsFiniteSet(Playing(s)) /\ Cardinality(Playing(s)) \in Nat
<1>1. IsFiniteSet(Clients) /\ Playing(s) \in SUBSET Clients
  BY SlotAssumption DEF Playing, ServerOK
<1>2. IsFiniteSet(Playing(s))
  BY <1>1, FS_Subset
<1> QED
  BY <1>2, FS_CardinalityType

\* What is right about a slot stays right while its players and their tags do.
LEMMA FitsSame ==
    ASSUME NEW s, NEW q, Fits(s, q),
           Playing(s)' = Playing(s),
           \A c \in Playing(s) : TagsOf[c] = TagsOf'[c],
           preexisting' = preexisting,
           GamesOnly(s) /\ (\E c \in online : SlotOf[c] = s)
              => \E c \in online' : SlotOf[c] = s
    PROVE  Fits(s, q)'
<1>1. ASSUME Describes(Playing(s), TagsOf, q.tags)
      PROVE  Describes(Playing(s)', TagsOf', q.tags)
  BY <1>1, DescribesSame
<1> QED
  BY <1>1 DEF Fits, ToldApart, GamesOnly

\* Packets that are nothing new to a slot leave its record as it is.
LEMMA LeadsNowhere ==
    ASSUME NEW S, NEW packets \in Seq(S), NEW s, NEW q \in SlotPresence,
           \A i \in 1..Len(packets) : After(s, q, packets[i]) = q
    PROVE  Leads(s, q, packets, q)
<1> DEFINE n == Len(packets)
           f == [i \in 0..n |-> q]
<1>1. n \in Nat
  BY LenProperties
<1>2. f \in [0..n -> SlotPresence] /\ \A i \in 0..n : f[i] = q
  OBVIOUS
<1> HIDE DEF f
<1>3. \A i \in 1..n : i \in 0..n /\ i-1 \in 0..n
  BY <1>1
<1>4. 0 \in 0..n /\ n \in 0..n
  BY <1>1
<1> QED
  BY <1>2, <1>3, <1>4 DEF Leads

\* What happens to other slots is nothing new to this one.
LEMMA Elsewhere ==
    ASSUME NEW s, NEW q, NEW m, m.type # "Retrieved", m.slot # s
    PROVE  After(s, q, m) = q
BY DEF After

\* A status notification, if any, is handled as such.
LEMMA LeadsStatus ==
    ASSUME NEW s \in Slots, NEW q, SlotOK(q), NEW v \in Status,
           NEW packets, packets = StatusNotice(s, v)
    PROVE  \E r \in SlotPresence :
              /\ Leads(s, q, packets, r)
              /\ r = q \/ r = ApplyServerStatus(s, q, v)
<1>0. q \in SlotPresence
  BY DEF SlotOK
<1>1. CASE subscribed
  <2> DEFINE m == [type |-> "SetReply", slot |-> s, status |-> v]
  <2>1. packets = <<m>>
    BY <1>1 DEF StatusNotice
  <2>2. m \in Packet /\ m.type = "SetReply" /\ m.slot = s /\ m.status = v
    BY DEF Packet
  <2> HIDE DEF m
  <2>3. After(s, q, m) = ApplyServerStatus(s, q, v)
    BY <2>2 DEF After
  <2>4. After(s, q, m) \in SlotPresence
    BY <2>2, AfterOK
  <2>5. Leads(s, q, <<m>>, After(s, q, m))
    BY <1>0, <2>4, LeadsOne
  <2> QED
    BY <2>1, <2>3, <2>4, <2>5
<1>2. CASE ~subscribed
  <2>1. packets = <<>>
    BY <1>2 DEF StatusNotice
  <2> QED
    BY <1>0, <2>1, LeadsNothing
<1> QED
  BY <1>1, <1>2

\* The server and the clients act: the record each slot was led to is led on
\* by the packets they send.
LEMMA SendForeseen ==
    ASSUME IInv, Foreseen, NEW packets \in Seq(Packet),
           conn = "attached" => inbox' = inbox \o packets,
           UNCHANGED <<presence, conn>>,
           conn = "attached" =>
              \A s \in Slots : \A q \in SlotPresence :
                 Fits(s, q) => \E r \in SlotPresence :
                                  Leads(s, q, packets, r) /\ Fits(s, r)'
    PROVE  Foreseen'
<1>1. SUFFICES ASSUME conn' = "attached", NEW s \in Slots
               PROVE  \E r \in SlotPresence :
                         Leads(s, presence'[s], inbox', r) /\ Fits(s, r)'
  BY DEF Foreseen
<1>2. conn = "attached" /\ presence' = presence
  BY <1>1
<1>3. PICK q \in SlotPresence : Leads(s, presence[s], inbox, q) /\ Fits(s, q)
  BY <1>2 DEF Foreseen
<1>4. PICK r \in SlotPresence : Leads(s, q, packets, r) /\ Fits(s, r)'
  BY <1>2, <1>3
<1>5. inbox \in Seq(Packet)
  BY DEF IInv, LinkOK
<1>6. Leads(s, presence[s], inbox \o packets, r)
  BY <1>3, <1>4, <1>5, LeadsOn
<1> QED
  BY <1>2, <1>4, <1>6

\* A status notification about another slot is nothing new.
LEMMA StatusElsewhere ==
    ASSUME NEW s, NEW t \in Slots, s # t, NEW v \in Status, NEW q \in SlotPresence,
           NEW packets, packets = StatusNotice(t, v)
    PROVE  Leads(s, q, packets, q)
<1>1. CASE subscribed
  <2> DEFINE m == [type |-> "SetReply", slot |-> t, status |-> v]
  <2>1. packets = <<m>>
    BY <1>1 DEF StatusNotice
  <2>2. m.type # "Retrieved" /\ m.slot # s
    OBVIOUS
  <2> HIDE DEF m
  <2>3. After(s, q, m) = q
    BY <2>2, Elsewhere
  <2> QED
    BY <2>1, <2>3, LeadsOne
<1>2. CASE ~subscribed
  <2>1. packets = <<>>
    BY <1>2 DEF StatusNotice
  <2> QED
    BY <2>1, LeadsNothing
<1> QED
  BY <1>1, <1>2

\* A printed notice, handled for its own slot and for another.
LEMMA NoticeAfter ==
    ASSUME NEW type \in {"Join", "Part", "TagsChanged"}, NEW t \in Slots,
           NEW tags \in SUBSET Tag, NEW s \in Slots, NEW q, SlotOK(q),
           NEW m, m = Notice(type, t, tags)
    PROVE  /\ s # t => After(s, q, m) = q
           /\ s = t /\ type = "Join"
                => After(s, q, m) = RefreshDeathLink(ClientJoined(q, tags))
           /\ s = t /\ type = "Part"
                => After(s, q, m) = RefreshDeathLink(ClientLeft(q, tags))
           /\ s = t /\ type = "TagsChanged"
                => After(s, q, m) = RefreshDeathLink(ClientTagsChanged(q, tags))
           /\ Leads(s, q, <<m>>, After(s, q, m))
           /\ After(s, q, m) \in SlotPresence
<1>1. m \in Packet /\ m.type = type /\ m.slot = t /\ m.tags = tags
  BY NoticeOK DEF Notice
<1>2. After(s, q, m) \in SlotPresence /\ q \in SlotPresence
  BY <1>1, AfterOK DEF SlotOK
<1>3. Leads(s, q, <<m>>, After(s, q, m))
  BY <1>2, LeadsOne
<1> QED
  BY <1>1, <1>2, <1>3 DEF After

-----------------------------------------------------------------------------
(* A client connects *)

\* Its Join adds its entry, or makes the server's word give way to it.
LEMMA ConnectFits ==
    ASSUME IInv, NEW c \in Clients, ClientConnects(c), NEW s, s = SlotOf[c],
           NEW q, Fits(s, q),
           NEW r, r = RefreshDeathLink(ClientJoined(q, Tags(c)))
    PROVE  Fits(s, r)'
<1> DEFINE P == Playing(s)
<1>1. SlotOK(q)
  BY DEF Fits
<1>2. c \notin online /\ online' = online \cup {c} /\ preexisting' = preexisting
      /\ TagsOf' = TagsOf
  BY DEF ClientConnects, TagsOf, Tags
<1>3. Tags(c) \in SUBSET Tag /\ (IsPlayingClient(Tags(c)) <=> Plays(c))
      /\ TagsOf[c] = Tags(c)
  BY TagsOK, ClientTags
<1>4. CASE ~Plays(c)
  <2>1. r = q
    BY <1>1, <1>3, <1>4, NotPlaying
  <2>2. Playing(s)' = Playing(s)
    BY <1>2, <1>4 DEF Playing, Plays
  <2> QED
    BY <1>2, <2>1, <2>2, FitsSame
<1>5. CASE Plays(c)
  <2>1. Playing(s)' = P \cup {c} /\ c \notin P
    BY <1>2, <1>5 DEF Playing, Plays
  <2>2. SlotOK(r) /\ ~r.provisional /\ r.tags = Append(q.tags, Tags(c))
    BY <1>1, <1>3, <1>5, JoinFields
  <2>3. q.tags \in Seq(SUBSET Tag) /\ Len(q.tags) \in Nat
        /\ (q.provisional => q.tags = <<>>) /\ (~q.provisional => q.count = Len(q.tags))
    BY <1>1, SlotFields
  <2>4. r.count = Len(q.tags) + 1
    <3>1. r.count = Len(r.tags)
      BY <2>2, SlotFields
    <3> QED
      BY <1>3, <2>2, <2>3, <3>1, AppendProperties
  <2>5. r.count <= Cardinality(P \cup {c})
    <3>1. IsFiniteSet(P) /\ Cardinality(P) \in Nat
      BY PlayingFinite DEF IInv
    <3>2. Cardinality(P \cup {c}) = Cardinality(P) + 1
      BY <2>1, <3>1, FS_AddElement
    <3>3. Len(q.tags) <= Cardinality(P)
      <4>1. CASE q.provisional
        BY <2>3, <3>1, <4>1
      <4>2. CASE ~q.provisional
        BY <2>3, <4>2 DEF Fits
      <4> QED
        BY <4>1, <4>2
    <3> QED
      BY <2>3, <2>4, <3>1, <3>2, <3>3
  <2>6. ASSUME s \notin preexisting, ToldApart(s)
        PROVE  Describes(P \cup {c}, TagsOf, r.tags)
    <3>1. Describes(P, TagsOf, q.tags)
      <4>1. CASE q.provisional
        BY <2>3, <2>6, <4>1, DescribesNobody DEF Fits
      <4>2. CASE ~q.provisional
        BY <2>6, <4>2 DEF Fits
      <4> QED
        BY <4>1, <4>2
    <3>2. TagsOf[c] \in SUBSET Tag /\ r.tags = Append(q.tags, TagsOf[c])
      BY <1>3, <2>2
    <3>3. Describes(P \cup {c}, TagsOf, Append(q.tags, TagsOf[c]))
      <4> HIDE DEF P
      <4> QED
        BY <2>1, <2>3, <3>1, <3>2, DescribesAppend
    <3> QED
      BY <3>2, <3>3
  <2> HIDE DEF P
  <2> QED
    BY <1>2, <2>1, <2>2, <2>5, <2>6 DEF Fits, ToldApart, GamesOnly
<1> QED
  BY <1>4, <1>5

LEMMA ConnectForeseen ==
    ASSUME IInv, Foreseen, NEW c \in Clients, ClientConnects(c)
    PROVE  Foreseen'
<1> DEFINE t == SlotOf[c]
           head == IF status[t] = 0 THEN StatusNotice(t, 5) ELSE <<>>
           m == Notice("Join", t, Tags(c))
<1>1. t \in Slots /\ Tags(c) \in SUBSET Tag /\ 5 \in Status
  BY SlotAssumption, TagsOK DEF Status
<1>2. m \in Packet /\ head \in Seq(Packet)
  BY <1>1, NoticeOK, StatusNoticeOK, EmptySeq
<1>3. Send(head \o <<m>>)
  BY DEF ClientConnects
<1>4. UNCHANGED <<presence, conn>>
  BY DEF ClientConnects, bridgeVars
<1>5. ASSUME NEW s \in Slots, NEW q \in SlotPresence, Fits(s, q)
      PROVE  Leads(s, q, head, q)
  <2>1. SlotOK(q)
    BY <1>5 DEF Fits
  <2>2. CASE head = <<>>
    BY <2>2, LeadsNothing
  <2>3. CASE head = StatusNotice(t, 5) /\ s # t
    BY <1>1, <2>3, StatusElsewhere
  <2>4. CASE head = StatusNotice(t, 5) /\ s = t
    <3>1. PICK r \in SlotPresence :
            Leads(s, q, head, r) /\ (r = q \/ r = ApplyServerStatus(s, q, 5))
      BY <1>1, <2>1, <2>4, LeadsStatus
    <3>2. ApplyServerStatus(s, q, 5) = q
      BY <2>1, StatusFields DEF PlayingStatuses
    <3> QED
      BY <3>1, <3>2
  <2> QED
    BY <2>2, <2>3, <2>4
<1>6. ASSUME NEW s \in Slots, NEW q \in SlotPresence, Fits(s, q)
      PROVE  \E r \in SlotPresence : Leads(s, q, head \o <<m>>, r) /\ Fits(s, r)'
  <2>1. SlotOK(q)
    BY <1>6 DEF Fits
  <2>2. PICK r : r = After(s, q, m)
    OBVIOUS
  <2>3. r \in SlotPresence /\ Leads(s, q, <<m>>, r)
        /\ (s # t => r = q)
        /\ (s = t => r = RefreshDeathLink(ClientJoined(q, Tags(c))))
    <3> HIDE DEF t
    <3> QED
      BY <1>1, <2>1, <2>2, NoticeAfter
  <2> HIDE DEF head, m
  <2>4. Leads(s, q, head \o <<m>>, r)
    <3>1. <<m>> \in Seq(Packet) /\ Leads(s, q, head, q)
      BY <1>2, <1>5, <1>6
    <3> QED
      BY <1>2, <2>3, <3>1, LeadsOn
  <2>5. Fits(s, r)'
    <3>1. CASE s = t
      BY <1>6, <2>3, <3>1, ConnectFits
    <3>2. CASE s # t
      <4>1. online' = online \cup {c} /\ preexisting' = preexisting /\ TagsOf' = TagsOf
        BY DEF ClientConnects, TagsOf, Tags
      <4>2. Playing(s)' = Playing(s)
        BY <3>2, <4>1 DEF Playing, Plays
      <4> QED
        BY <1>6, <2>3, <3>2, <4>1, <4>2, FitsSame
    <3> QED
      BY <3>1, <3>2
  <2> QED
    BY <2>3, <2>4, <2>5
<1>7. head \o <<m>> \in Seq(Packet)
  <2> HIDE DEF head, m
  <2> QED
    BY <1>2, ConcatProperties
<1> HIDE DEF head, m
<1>8. conn = "attached" => inbox' = inbox \o (head \o <<m>>)
  BY <1>3 DEF Send
<1> QED
  BY <1>4, <1>6, <1>7, <1>8, SendForeseen

-----------------------------------------------------------------------------
(* A client leaves *)

\* A Part leaves no more clients counted than there were.
LEMMA PartCount ==
    ASSUME IInv, NEW s, NEW q, Fits(s, q),
           NEW tags \in SUBSET Tag, IsPlayingClient(tags),
           NEW r, r = RefreshDeathLink(ClientLeft(q, tags))
    PROVE  SlotOK(r) /\ ~r.provisional /\ r.count <= Cardinality(Playing(s))
<1> DEFINE i == LeavingIndex(q.tags, tags)
<1>1. SlotOK(q)
  BY DEF Fits
<1>2. /\ SlotOK(r) /\ ~r.provisional
      /\ IF q.provisional \/ Len(q.tags) <= 1 THEN r.tags = <<>>
         ELSE i \in 1..Len(q.tags) /\ r.tags = RemoveAt(q.tags, i)
  BY <1>1, PartFields
<1>3. q.tags \in Seq(SUBSET Tag) /\ Len(q.tags) \in Nat
      /\ (~q.provisional => q.count = Len(q.tags))
  BY <1>1, SlotFields
<1>4. r.count = Len(r.tags)
  BY <1>2, SlotFields
<1>5. Cardinality(Playing(s)) \in Nat
  BY PlayingFinite DEF IInv
<1> HIDE DEF i
<1>6. CASE q.provisional \/ Len(q.tags) <= 1
  <2>1. r.count = 0
    BY <1>2, <1>4, <1>6
  <2> QED
    BY <1>2, <1>5, <2>1
<1>7. CASE ~(q.provisional \/ Len(q.tags) <= 1)
  <2>1. Len(r.tags) = Len(q.tags) - 1
    BY <1>2, <1>3, <1>7, RemoveAtProperties
  <2>2. Len(q.tags) <= Cardinality(Playing(s))
    BY <1>3, <1>7 DEF Fits
  <2> QED
    BY <1>2, <1>3, <1>4, <1>5, <2>1, <2>2
<1> QED
  BY <1>6, <1>7

\* Its Part takes its entry away, or one that cannot be told from it.
LEMMA PartFits ==
    ASSUME IInv, NEW c \in Clients, ClientDisconnects(c), NEW s, s = SlotOf[c],
           NEW q, Fits(s, q), NEW tags \in PartTags(c),
           NEW r, r = RefreshDeathLink(ClientLeft(q, tags))
    PROVE  Fits(s, r)'
<1> DEFINE P == Playing(s)
<1>1. SlotOK(q)
  BY DEF Fits
<1>2. c \in online /\ online' = online \ {c} /\ preexisting' = preexisting
      /\ TagsOf' = TagsOf
  BY DEF ClientDisconnects, TagsOf, Tags
<1>3. /\ tags \in SUBSET Tag /\ TagsOf[c] = Tags(c)
      /\ tags = Tags(c) \/ Misread
      /\ Plays(c) => IsPlayingClient(tags)
      /\ IsPlayingClient(tags) => Plays(c) \/ "neither" \in PartTexts
  <2>1. tags \in SUBSET Tag /\ TagsOf[c] = Tags(c)
        /\ (IsPlayingClient(Tags(c)) <=> Plays(c))
    BY PartTagsOK, ClientTags
  <2>2. PICK text \in PartTexts : tags = ReadAs(c, text)
    BY DEF PartTags
  <2>3. text \in {"tags", "verb", "neither"}
    BY SlotAssumption
  <2>4. CASE text = "tags"
    BY <2>1, <2>2, <2>4 DEF ReadAs
  <2>5. CASE text = "verb"
    <3>1. IsPlayingClient(BaseTags[c] \cap NonPlayingTags) <=> Plays(c)
      BY DEF IsPlayingClient, Plays
    <3>2. tags = BaseTags[c] \cap NonPlayingTags
      BY <2>2, <2>5 DEF ReadAs
    <3> QED
      BY <2>1, <2>5, <3>1, <3>2 DEF Misread
  <2>6. CASE text = "neither"
    <3>1. tags = {}
      BY <2>2, <2>6 DEF ReadAs
    <3> QED
      BY <2>1, <2>6, <3>1 DEF Misread, IsPlayingClient
  <2> QED
    BY <2>3, <2>4, <2>5, <2>6
<1>4. CASE ~Plays(c)
  <2>1. Playing(s)' = Playing(s) /\ ~GamesOnly(s) /\ ~GamesOnly(s)'
    BY <1>2, <1>4 DEF Playing, Plays, GamesOnly
  <2>2. CASE ~IsPlayingClient(tags)
    <3>1. r = q
      BY <1>1, <1>3, <2>2, NotPlaying
    <3> QED
      BY <1>2, <2>1, <3>1, FitsSame
  \* Its text tells nothing: it takes the word or a game client's entry away.
  <2>3. CASE IsPlayingClient(tags)
    <3>1. ~ToldApart(s)'
      BY <1>3, <1>4, <2>1, <2>3 DEF ToldApart
    <3>2. SlotOK(r) /\ ~r.provisional /\ r.count <= Cardinality(P)
      BY <1>1, <1>3, <2>3, PartCount
    <3> QED
      BY <2>1, <3>1, <3>2 DEF Fits
  <2> QED
    BY <2>2, <2>3
<1>5. CASE Plays(c)
  <2>1. Playing(s)' = P \ {c} /\ c \in P
    BY <1>2, <1>5 DEF Playing, Plays
  <2> DEFINE i == LeavingIndex(q.tags, tags)
  <2>2. /\ SlotOK(r) /\ ~r.provisional
        /\ IF q.provisional \/ Len(q.tags) <= 1 THEN r.tags = <<>>
           ELSE i \in 1..Len(q.tags) /\ r.tags = RemoveAt(q.tags, i)
    BY <1>1, <1>3, <1>5, PartFields
  <2>3. q.tags \in Seq(SUBSET Tag) /\ Len(q.tags) \in Nat
        /\ (~q.provisional => q.count = Len(q.tags))
    BY <1>1, SlotFields
  <2>4. r.count = Len(r.tags)
    BY <2>2, SlotFields
  <2> HIDE DEF i
  <2>5. r.count <= Cardinality(P \ {c})
    <3>1. IsFiniteSet(P) /\ Cardinality(P) \in Nat
      BY PlayingFinite DEF IInv
    <3>2. Cardinality(P \ {c}) = Cardinality(P) - 1
      BY <2>1, <3>1, FS_RemoveElement
    <3>3. Cardinality(P \ {c}) \in Nat
      BY <3>1, FS_RemoveElement, FS_CardinalityType
    <3>4. CASE q.provisional \/ Len(q.tags) <= 1
      <4>1. r.count = 0
        BY <2>2, <2>4, <3>4
      <4> QED
        BY <3>3, <4>1
    <3>5. CASE ~(q.provisional \/ Len(q.tags) <= 1)
      <4>1. Len(r.tags) = Len(q.tags) - 1
        BY <2>2, <2>3, <3>5, RemoveAtProperties
      <4>2. Len(q.tags) <= Cardinality(P)
        BY <2>3, <3>5 DEF Fits
      <4> QED
        BY <2>3, <2>4, <3>1, <3>2, <4>1, <4>2
    <3> QED
      BY <3>4, <3>5
  <2>6. ASSUME s \notin preexisting, ToldApart(s)
        PROVE  Describes(P \ {c}, TagsOf, r.tags)
    <3>1. ~q.provisional /\ Describes(P, TagsOf, q.tags)
      BY <2>1, <2>6 DEF Fits
    <3>2. CASE Len(q.tags) <= 1
      <4>1. r.tags = <<>>
        BY <2>2, <3>2
      <4>2. Cardinality(P) = Len(q.tags)
        BY <2>3, <3>1, DescribesCount
      <4>3. P \ {c} = {}
        <5>1. IsFiniteSet(P) /\ Cardinality(P) \in Nat
          BY PlayingFinite DEF IInv
        <5>2. IsFiniteSet(P \ {c}) /\ Cardinality(P \ {c}) = Cardinality(P) - 1
          BY <2>1, <5>1, FS_RemoveElement
        <5>3. Cardinality(P \ {c}) \in Nat
          BY <5>2, FS_CardinalityType
        <5>4. Cardinality(P \ {c}) = 0
          BY <3>2, <4>2, <5>1, <5>2, <5>3
        <5> QED
          BY <5>2, <5>4, FS_EmptySet
      <4> QED
        BY <4>1, <4>3, DescribesNobody
    <3>3. CASE ~(Len(q.tags) <= 1)
      <4>1. i \in 1..Len(q.tags) /\ r.tags = RemoveAt(q.tags, i)
        BY <2>2, <3>1, <3>3
      <4>2. Misread \/ q.tags[i] = TagsOf[c]
        <5>1. SUFFICES ASSUME ~Misread PROVE q.tags[i] = TagsOf[c]
          OBVIOUS
        <5>2. tags = TagsOf[c]
          BY <1>3, <5>1
        <5>3. \E k \in 1..Len(q.tags) : q.tags[k] = TagsOf[c]
          BY <2>1, <3>1, <5>1, EntryOf
        <5> QED
          BY <2>3, <5>2, <5>3, LeavingEntry DEF i
      <4> QED
        BY <2>1, <2>3, <3>1, <4>1, <4>2, DescribesRemove
    <3> QED
      BY <3>2, <3>3
  <2> HIDE DEF P
  <2> QED
    BY <1>2, <2>1, <2>2, <2>5, <2>6 DEF Fits, ToldApart, GamesOnly
<1> QED
  BY <1>4, <1>5

\* The word of the server first, when the last client leaves: it empties the
\* slot, and the Part that follows finds nothing to take away.
LEMMA ClearedFits ==
    ASSUME IInv, NEW c \in Clients, ClientDisconnects(c), NEW s \in Slots,
           s = SlotOf[c], s # MySlot, \A d \in online \ {c} : SlotOf[d] # s,
           NEW q, SlotOK(q), NEW p, p = ApplyServerStatus(s, q, 0),
           NEW tags \in PartTags(c),
           NEW r, r = RefreshDeathLink(ClientLeft(p, tags))
    PROVE  Fits(s, r)'
<1>1. SlotOK(p) /\ ~p.provisional /\ p.tags = <<>>
  BY StatusFields
<1>2. tags \in SUBSET Tag
  BY PartTagsOK
<1>3. SlotOK(r) /\ ~r.provisional /\ r.tags = <<>>
  <2>1. CASE ~IsPlayingClient(tags)
    BY <1>1, <2>1, NotPlaying
  <2>2. CASE IsPlayingClient(tags)
    <3>1. Len(p.tags) <= 1
      BY <1>1
    <3> QED
      BY <1>1, <1>2, <2>2, <3>1, PartFields
  <2> QED
    BY <2>1, <2>2
<1>4. Playing(s)' = {}
  BY DEF ClientDisconnects, Playing
<1>5. r.count = 0
  BY <1>3, SlotFields
<1>6. Cardinality({}) = 0
  BY FS_EmptySet
<1>7. Describes({}, TagsOf', r.tags)
  BY <1>3, DescribesNobody
<1> QED
  BY <1>3, <1>4, <1>5, <1>6, <1>7 DEF Fits

LEMMA DisconnectForeseen ==
    ASSUME IInv, Foreseen, NEW c \in Clients, ClientDisconnects(c)
    PROVE  Foreseen'
<1> DEFINE t == SlotOf[c]
           clear == /\ status[t] # Goal
                    /\ \A d \in online \ {c} : SlotOf[d] # t
                    /\ ~(conn = "attached" /\ t = MySlot)
           head == IF clear THEN StatusNotice(t, 0) ELSE <<>>
<1>1. t \in Slots /\ 0 \in Status
  BY SlotAssumption DEF Status
<1>2. PICK tags \in PartTags(c) : Send(head \o <<Notice("Part", t, tags)>>)
  BY DEF ClientDisconnects
<1> DEFINE m == Notice("Part", t, tags)
<1>3. tags \in SUBSET Tag
  BY PartTagsOK
<1>4. m \in Packet /\ head \in Seq(Packet) /\ <<m>> \in Seq(Packet)
  BY <1>1, <1>3, NoticeOK, StatusNoticeOK, EmptySeq
<1>5. UNCHANGED <<presence, conn>>
  BY DEF ClientDisconnects, bridgeVars
<1>6. ASSUME conn = "attached", NEW s \in Slots, NEW q \in SlotPresence, Fits(s, q)
      PROVE  \E r \in SlotPresence : Leads(s, q, head \o <<m>>, r) /\ Fits(s, r)'
  <2>1. SlotOK(q)
    BY <1>6 DEF Fits
  <2>2. PICK p \in SlotPresence :
          /\ SlotOK(p) /\ Leads(s, q, head, p)
          /\ p = q \/ (s = t /\ clear /\ p = ApplyServerStatus(s, q, 0))
    <3>1. CASE ~clear
      <4>1. head = <<>>
        BY <3>1
      <4> QED
        BY <2>1, <4>1, LeadsNothing
    <3>2. CASE clear /\ s # t
      <4>1. head = StatusNotice(t, 0)
        BY <3>2
      <4>2. Leads(s, q, head, q)
        BY <1>1, <3>2, <4>1, StatusElsewhere
      <4> QED
        BY <2>1, <4>2
    <3>3. CASE clear /\ s = t
      <4>1. head = StatusNotice(s, 0)
        BY <3>3
      <4> HIDE DEF clear, head
      <4>2. PICK p \in SlotPresence :
              Leads(s, q, head, p) /\ (p = q \/ p = ApplyServerStatus(s, q, 0))
        BY <1>1, <2>1, <4>1, LeadsStatus
      <4>3. SlotOK(p)
        BY <2>1, <4>2, StatusFields
      <4> QED
        BY <3>3, <4>2, <4>3
    <3> QED
      BY <3>1, <3>2, <3>3
  <2>3. PICK r : r = After(s, p, m)
    OBVIOUS
  <2>4. r \in SlotPresence /\ Leads(s, p, <<m>>, r)
        /\ (s # t => r = p)
        /\ (s = t => r = RefreshDeathLink(ClientLeft(p, tags)))
    <3> HIDE DEF t
    <3> QED
      BY <1>1, <1>3, <2>2, <2>3, NoticeAfter
  <2>5. Leads(s, q, head \o <<m>>, r)
    <3> HIDE DEF head, m
    <3> QED
      BY <1>4, <2>2, <2>4, LeadsOn
  <2>6. Fits(s, r)'
    <3>1. CASE s = t /\ p = q
      BY <1>6, <2>4, <3>1, PartFits
    <3>2. CASE s = t /\ p # q
      <4>1. clear /\ p = ApplyServerStatus(s, q, 0)
        BY <2>2, <3>2
      <4>2. s # MySlot /\ \A d \in online \ {c} : SlotOf[d] # s
        BY <1>6, <3>2, <4>1
      <4>3. r = RefreshDeathLink(ClientLeft(p, tags)) /\ s = SlotOf[c]
        BY <2>4, <3>2
      <4> QED
        BY <2>1, <4>1, <4>2, <4>3, ClearedFits
    <3>3. CASE s # t
      <4>1. online' = online \ {c} /\ preexisting' = preexisting /\ TagsOf' = TagsOf
        BY DEF ClientDisconnects, TagsOf, Tags
      <4>2. Playing(s)' = Playing(s)
        BY <3>3, <4>1 DEF Playing, Plays
      <4>3. r = q
        BY <2>2, <2>4, <3>3
      <4> QED
        BY <1>6, <3>3, <4>1, <4>2, <4>3, FitsSame
    <3> QED
      BY <3>1, <3>2, <3>3
  <2> QED
    BY <2>4, <2>5, <2>6
<1> HIDE DEF head, m
<1>7. head \o <<m>> \in Seq(Packet)
  BY <1>4, ConcatProperties
<1>8. conn = "attached" => inbox' = inbox \o (head \o <<m>>)
  BY <1>2 DEF Send, m
<1> QED
  BY <1>5, <1>6, <1>7, <1>8, SendForeseen

-----------------------------------------------------------------------------
(* The server's word, and DeathLink *)

\* A status that tells whether anybody is there never makes a right record wrong.
LEMMA WordFits ==
    ASSUME NEW s, NEW q, Fits(s, q), NEW v,
           s # MySlot /\ v = 0 => \A c \in online : SlotOf[c] # s,
           s # MySlot /\ v \in PlayingStatuses => \E c \in online : SlotOf[c] = s,
           UNCHANGED <<online, deathLinks, preexisting>>,
           NEW r, r = ApplyServerStatus(s, q, v)
    PROVE  Fits(s, r)'
<1>1. SlotOK(q)
  BY DEF Fits
<1>2. /\ SlotOK(r)
      /\ s = MySlot => r = q
      /\ s # MySlot /\ v = 0 => ~r.provisional /\ r.tags = <<>>
      /\ s # MySlot /\ v \in PlayingStatuses /\ q.count = 0 => r.provisional
      /\ v # 0 /\ (v \notin PlayingStatuses \/ q.count # 0) => r = q
  BY <1>1, StatusFields
<1>3. Playing(s)' = Playing(s) /\ TagsOf' = TagsOf
  BY DEF Playing, Plays, TagsOf, Tags
<1>4. CASE r = q
  BY <1>3, <1>4, FitsSame
<1>5. CASE r # q /\ v = 0
  <2>1. Playing(s) = {}
    BY <1>2, <1>5 DEF Playing
  <2>2. ~r.provisional /\ r.tags = <<>>
    BY <1>2, <1>5
  <2>3. r.count = 0
    BY <1>2, <2>2, SlotFields
  <2>4. Describes(Playing(s), TagsOf, r.tags)
    BY <2>1, <2>2, DescribesNobody
  <2>5. Cardinality(Playing(s)) = 0
    BY <2>1, FS_EmptySet
  <2> QED
    BY <1>2, <1>3, <2>2, <2>3, <2>4, <2>5 DEF Fits
<1>6. CASE r # q /\ v # 0
  <2>1. s # MySlot /\ v \in PlayingStatuses /\ q.count = 0 /\ r.provisional
    BY <1>2, <1>6
  <2>2. ~q.provisional /\ q.tags = <<>>
    <3>1. ~q.provisional /\ Len(q.tags) = 0 /\ q.tags \in Seq(SUBSET Tag)
      BY <1>1, <2>1, SlotFields
    <3> QED
      BY <3>1, EmptySeq
  <2>3. s \notin preexisting /\ ToldApart(s) => Playing(s) = {}
    BY <2>2, DescribesNobody DEF Fits
  <2>4. \E c \in online : SlotOf[c] = s
    BY <2>1
  <2> QED
    BY <1>2, <1>3, <2>1, <2>3, <2>4 DEF Fits, ToldApart, GamesOnly
<1> QED
  BY <1>4, <1>5, <1>6

LEMMA PlaysForeseen ==
    ASSUME IInv, Foreseen, NEW c \in Clients, NEW v \in GameStatuses,
           ClientPlays(c, v)
    PROVE  Foreseen'
<1> DEFINE t == SlotOf[c]
           packets == StatusNotice(t, v)
<1>1. t \in Slots /\ v \in Status /\ v # 0
  BY SlotAssumption DEF Status
<1>2. packets \in Seq(Packet)
  BY <1>1, StatusNoticeOK
<1>3. /\ UNCHANGED <<presence, conn>>
      /\ UNCHANGED <<online, deathLinks, preexisting>>
      /\ c \in online
      /\ Send(packets)
  BY DEF ClientPlays, bridgeVars
<1>4. ASSUME NEW s \in Slots, NEW q \in SlotPresence, Fits(s, q)
      PROVE  \E r \in SlotPresence : Leads(s, q, packets, r) /\ Fits(s, r)'
  <2>1. SlotOK(q)
    BY <1>4 DEF Fits
  <2>2. PICK r \in SlotPresence :
          /\ Leads(s, q, packets, r)
          /\ r = q \/ (s = t /\ r = ApplyServerStatus(s, q, v))
    <3>1. CASE s = t
      BY <1>1, <2>1, <3>1, LeadsStatus
    <3>2. CASE s # t
      <4>1. Leads(s, q, packets, q)
        BY <1>1, <3>2, StatusElsewhere
      <4> QED
        BY <4>1
    <3> QED
      BY <3>1, <3>2
  <2>3. CASE r = q
    <3>1. Playing(s)' = Playing(s) /\ TagsOf' = TagsOf
      BY <1>3 DEF Playing, Plays, TagsOf, Tags
    <3>2. Fits(s, q)'
      BY <1>3, <1>4, <3>1, FitsSame
    <3> QED
      BY <2>2, <2>3, <3>2
  <2>4. CASE s = t /\ r = ApplyServerStatus(s, q, v)
    <3>1. SlotOf[c] = s
      BY <2>4
    <3>2. Fits(s, r)'
      BY <1>1, <1>3, <1>4, <2>4, <3>1, WordFits
    <3> QED
      BY <2>2, <3>2
  <2> QED
    BY <2>2, <2>3, <2>4
<1> HIDE DEF packets
<1>5. conn = "attached" => inbox' = inbox \o packets
  BY <1>3 DEF Send
<1> QED
  BY <1>2, <1>3, <1>4, <1>5, SendForeseen

\* The changed tags replace the client's entry, or one like it.
LEMMA ToggleFits ==
    ASSUME IInv, NEW c \in Clients, ClientTogglesDeathLink(c), NEW s, s = SlotOf[c],
           NEW q, Fits(s, q), NEW tags, tags = Tags(c)', tags \in SUBSET Tag,
           NEW r, r = RefreshDeathLink(ClientTagsChanged(q, tags))
    PROVE  Fits(s, r)'
<1> DEFINE P == Playing(s)
<1>1. SlotOK(q)
  BY DEF Fits
<1>2. /\ c \in online /\ Plays(c)
      /\ online' = online /\ preexisting' = preexisting
      /\ deathLinks' = IF c \in deathLinks THEN deathLinks \ {c}
                       ELSE deathLinks \cup {c}
  BY SlotAssumption DEF ClientTogglesDeathLink, Plays, IsPlayingClient
<1>3. Playing(s)' = P /\ c \in P
  BY <1>2 DEF Playing, Plays
<1>4. "DeathLink" \notin BaseTags[c]
  BY SlotAssumption
<1>5. IsPlayingClient(tags)
  <2>1. "DeathLink" \notin NonPlayingTags
    BY DEF NonPlayingTags
  <2> QED
    BY <1>2, <2>1 DEF Tags, Plays, IsPlayingClient
<1>6. PICK old : old = Tags(c)
  OBVIOUS
<1>6a. Toggled(old, tags)
  <2>1. \/ tags = BaseTags[c] /\ old = BaseTags[c] \cup {"DeathLink"}
        \/ tags = BaseTags[c] \cup {"DeathLink"} /\ old = BaseTags[c]
    BY <1>2, <1>6 DEF Tags
  <2> QED
    BY <1>4, <2>1, OneTagApart, Zenon
<1>7. TagsOf[c] = Tags(c) /\ TagsOf'[c] = tags
  BY DEF TagsOf
<1>8. \A x \in P : x # c => TagsOf[x] = TagsOf'[x]
  <2>1. \A x \in Clients : x # c => Tags(x) = Tags(x)'
    BY <1>2 DEF Tags
  <2>2. \A x : x \in Clients => TagsOf[x] = Tags(x) /\ TagsOf'[x] = Tags(x)'
    BY DEF TagsOf
  <2>3. P \subseteq Clients
    BY DEF IInv, ServerOK, Playing
  <2> QED
    BY <2>1, <2>2, <2>3
<1> DEFINE i == ChangedIndex(q.tags, tags)
<1>9. /\ SlotOK(r) /\ r.provisional = q.provisional
      /\ IF q.tags = <<>> THEN r.tags = <<>>
         ELSE i \in 1..Len(q.tags) /\ r.tags = ReplaceAt(q.tags, i, tags)
  BY <1>1, <1>5, TagsChangedFields
<1>10. q.tags \in Seq(SUBSET Tag) /\ Len(q.tags) \in Nat
       /\ (q.provisional => q.tags = <<>>) /\ (~q.provisional => q.count = Len(q.tags))
  BY <1>1, SlotFields
<1> HIDE DEF i
<1>11. ~r.provisional => r.count <= Cardinality(P)
  <2>1. SUFFICES ASSUME ~r.provisional PROVE r.count = q.count
    BY <1>9 DEF Fits
  <2>2. r.count = Len(r.tags)
    BY <1>9, <2>1, SlotFields
  <2>3. Len(r.tags) = Len(q.tags)
    <3>1. CASE q.tags = <<>>
      BY <1>9, <3>1
    <3>2. CASE q.tags # <<>>
      <4>1. i \in 1..Len(q.tags) /\ r.tags = ReplaceAt(q.tags, i, tags)
        BY <1>9, <3>2
      <4>2. PICK S : S = SUBSET Tag
        OBVIOUS
      <4>3. q.tags \in Seq(S) /\ tags \in S
        BY <1>10, <4>2
      <4>4. Len(ReplaceAt(q.tags, i, tags)) = Len(q.tags)
        BY <4>1, <4>3, ReplaceAtProperties
      <4> QED
        BY <4>1, <4>4
    <3> QED
      BY <3>1, <3>2
  <2> QED
    BY <1>9, <1>10, <2>1, <2>2, <2>3
<1>12. ASSUME s \notin preexisting, ToldApart(s)
       PROVE  ~r.provisional /\ Describes(P, TagsOf', r.tags)
  <2>1. ~q.provisional /\ Describes(P, TagsOf, q.tags)
    BY <1>3, <1>12 DEF Fits
  <2>2. q.tags # <<>>
    BY <1>3, <2>1, DescribesNobody
  <2>3. i \in 1..Len(q.tags) /\ r.tags = ReplaceAt(q.tags, i, tags)
    BY <1>9, <2>2
  <2>4. Misread \/ q.tags[i] = TagsOf[c]
    <3>1. SUFFICES ASSUME ~Misread PROVE q.tags[i] = TagsOf[c]
      OBVIOUS
    <3>2. \E k \in 1..Len(q.tags) : q.tags[k] = TagsOf[c]
      BY <1>3, <2>1, <3>1, EntryOf
    <3>3. \E k \in 1..Len(q.tags) : q.tags[k] = old
      BY <1>6, <1>7, <3>2
    <3>4. q.tags[ChangedIndex(q.tags, tags)] = old
      BY <1>6a, <1>10, <3>3, ChangedEntry
    <3> QED
      BY <1>6, <1>7, <3>4 DEF i
  <2>5. Describes(P, TagsOf', ReplaceAt(q.tags, i, tags))
    <3> HIDE DEF P
    <3> QED
      BY <1>3, <1>7, <1>8, <1>10, <2>1, <2>3, <2>4, DescribesReplace
  <2> QED
    BY <1>9, <2>1, <2>3, <2>5
<1> HIDE DEF P
<1>13. GamesOnly(s) /\ r.provisional => \E x \in online' : SlotOf[x] = s
  BY <1>2
<1> QED
  BY <1>2, <1>3, <1>9, <1>11, <1>12, <1>13 DEF Fits, ToldApart, GamesOnly

LEMMA ToggleForeseen ==
    ASSUME IInv, Foreseen, NEW c \in Clients, ClientTogglesDeathLink(c)
    PROVE  Foreseen'
<1> DEFINE t == SlotOf[c]
<1>1. PICK tags : tags = Tags(c)'
  OBVIOUS
<1>2. t \in Slots /\ tags \in SUBSET Tag
  <2>1. BaseTags[c] \subseteq Tag /\ "DeathLink" \in Tag
    BY SlotAssumption DEF BridgeTags
  <2> QED
    BY <1>1, <2>1, SlotAssumption DEF Tags
<1> DEFINE m == Notice("TagsChanged", t, tags)
<1>3. Send(<<m>>) /\ UNCHANGED <<presence, conn>>
  BY <1>1 DEF ClientTogglesDeathLink, bridgeVars
<1>4. <<m>> \in Seq(Packet)
  <2>1. m \in Packet
    BY <1>2, NoticeOK
  <2> HIDE DEF m
  <2> QED
    BY <2>1
<1>5. ASSUME NEW s \in Slots, NEW q \in SlotPresence, Fits(s, q)
      PROVE  \E r \in SlotPresence : Leads(s, q, <<m>>, r) /\ Fits(s, r)'
  <2>1. SlotOK(q)
    BY <1>5 DEF Fits
  <2>2. PICK r : r = After(s, q, m)
    OBVIOUS
  <2>3. r \in SlotPresence /\ Leads(s, q, <<m>>, r)
        /\ (s # t => r = q)
        /\ (s = t => r = RefreshDeathLink(ClientTagsChanged(q, tags)))
    <3> HIDE DEF t
    <3> QED
      BY <1>2, <2>1, <2>2, NoticeAfter
  <2>4. Fits(s, r)'
    <3>1. CASE s = t
      BY <1>1, <1>2, <1>5, <2>3, <3>1, ToggleFits
    <3>2. CASE s # t
      <4>1. /\ online' = online /\ preexisting' = preexisting
            /\ Playing(s)' = Playing(s)
        BY DEF ClientTogglesDeathLink, Playing, Plays
      <4>2. \A x \in Playing(s) : TagsOf[x] = TagsOf'[x]
        <5>1. \A x \in Playing(s) : x \in Clients /\ x # c
          BY <3>2 DEF IInv, ServerOK, Playing
        <5>2. \A x \in Clients : x # c => Tags(x) = Tags(x)'
          BY DEF ClientTogglesDeathLink, Tags
        <5>3. \A x \in Clients : TagsOf[x] = Tags(x) /\ TagsOf'[x] = Tags(x)'
          BY DEF TagsOf
        <5> QED
          BY <5>1, <5>2, <5>3
      <4>3. Fits(s, q)'
        BY <1>5, <4>1, <4>2, FitsSame
      <4> QED
        BY <2>3, <3>2, <4>3
    <3> QED
      BY <3>1, <3>2
  <2> QED
    BY <2>3, <2>4
<1> HIDE DEF m
<1>6. conn = "attached" => inbox' = inbox \o <<m>>
  BY <1>3 DEF Send
<1> QED
  BY <1>3, <1>4, <1>5, <1>6, SendForeseen

\* The answer to Get: the statuses of that moment.
LEMMA GetForeseen ==
    ASSUME IInv, StatusFits, Foreseen, ServeGet
    PROVE  Foreseen'
<1>1. PICK m : m = [type |-> "Retrieved", statuses |-> status]
  OBVIOUS
<1>2. m \in Packet /\ m.type = "Retrieved" /\ m.statuses = status
  BY <1>1 DEF IInv, ServerOK, Packet
<1>3. inbox' = inbox \o <<m>>
  BY <1>1, <1>2, AppendIsConcat DEF ServeGet, IInv, LinkOK
<1>4. ASSUME NEW s \in Slots, NEW q \in SlotPresence, Fits(s, q)
      PROVE  \E r \in SlotPresence : Leads(s, q, <<m>>, r) /\ Fits(s, r)'
  <2>1. SlotOK(q)
    BY <1>4 DEF Fits
  <2>2. PICK r : r = After(s, q, m)
    OBVIOUS
  <2>3. PICK v : v = status[s]
    OBVIOUS
  <2>4. r = ApplyServerStatus(s, q, v)
    BY <1>2, <2>2, <2>3 DEF After
  <2>5. r \in SlotPresence /\ Leads(s, q, <<m>>, r)
    BY <1>2, <2>1, <2>2, AfterOK, LeadsOne
  <2>6. /\ s # MySlot /\ v = 0 => \A c \in online : SlotOf[c] # s
        /\ s # MySlot /\ v \in PlayingStatuses => \E c \in online : SlotOf[c] = s
    BY <2>3 DEF StatusFits
  <2>7. UNCHANGED <<online, deathLinks, preexisting>>
    BY DEF ServeGet, serverVars
  <2>8. Fits(s, r)'
    BY <1>4, <2>4, <2>6, <2>7, WordFits
  <2> QED
    BY <2>5, <2>8
<1>5. <<m>> \in Seq(Packet)
  BY <1>2
<1>6. UNCHANGED <<presence, conn>>
  BY DEF ServeGet, bridgeVars
<1> QED
  BY <1>3, <1>4, <1>5, <1>6, SendForeseen

-----------------------------------------------------------------------------
(* The bridge *)

\* What After says is what every handler does, to every slot.
LEMMA HandleAfter ==
    ASSUME IInv, Handle
    PROVE  /\ conn = "attached" /\ conn' = conn
           /\ inbox # <<>> /\ inbox' = Tail(inbox)
           /\ UNCHANGED <<preexisting, online, deathLinks, status>>
           /\ \A s \in Slots : presence'[s] = After(s, presence[s], Head(inbox))
<1> DEFINE m == Head(inbox)
<1>1. presence \in [Slots -> SlotPresence]
  BY DEF IInv, BridgeOK
<1>2. \A type : Receive(type) =>
        /\ conn = "attached" /\ inbox # <<>> /\ inbox' = Tail(inbox)
        /\ m \in Packet /\ m.type = type
  BY ReceiveOK DEF Receive
<1>3. CASE HandleConnected
  <2>1. \A s \in Slots : After(s, presence[s], m) = presence[s]
    BY <1>2, <1>3 DEF HandleConnected, After
  <2> QED
    BY <1>2, <1>3, <2>1 DEF HandleConnected, serverVars
<1>4. CASE HandleJoin
  <2>1. m.type = "Join" /\ m.slot \in Slots
    BY <1>2, <1>4, PacketFields DEF HandleJoin
  <2>2. presence' = [presence EXCEPT ![m.slot] =
                       RefreshDeathLink(ClientJoined(presence[m.slot], m.tags))]
    BY <1>4 DEF HandleJoin
  <2>3. \A s \in Slots : presence'[s] = After(s, presence[s], m)
    BY <1>1, <2>1, <2>2 DEF After
  <2> QED
    BY <1>2, <1>4, <2>3 DEF HandleJoin, serverVars
<1>5. CASE HandlePart
  <2>1. m.type = "Part" /\ m.slot \in Slots
    BY <1>2, <1>5, PacketFields DEF HandlePart
  <2>2. presence' = [presence EXCEPT ![m.slot] =
                       RefreshDeathLink(ClientLeft(presence[m.slot], m.tags))]
    BY <1>5 DEF HandlePart
  <2>3. \A s \in Slots : presence'[s] = After(s, presence[s], m)
    BY <1>1, <2>1, <2>2 DEF After
  <2> QED
    BY <1>2, <1>5, <2>3 DEF HandlePart, serverVars
<1>6. CASE HandleTagsChanged
  <2>1. m.type = "TagsChanged" /\ m.slot \in Slots
    BY <1>2, <1>6, PacketFields DEF HandleTagsChanged
  <2>2. presence' = [presence EXCEPT ![m.slot] =
                       RefreshDeathLink(ClientTagsChanged(presence[m.slot], m.tags))]
    BY <1>6 DEF HandleTagsChanged
  <2>3. \A s \in Slots : presence'[s] = After(s, presence[s], m)
    BY <1>1, <2>1, <2>2 DEF After
  <2> QED
    BY <1>2, <1>6, <2>3 DEF HandleTagsChanged, serverVars
<1>7. CASE HandleRetrieved
  <2>1. m.type = "Retrieved"
    BY <1>2, <1>7 DEF HandleRetrieved
  <2>2. presence' = [s \in Slots |-> ApplyServerStatus(s, presence[s], m.statuses[s])]
    BY <1>7 DEF HandleRetrieved
  <2>3. \A s \in Slots : presence'[s] = After(s, presence[s], m)
    BY <2>1, <2>2 DEF After
  <2> QED
    BY <1>2, <1>7, <2>3 DEF HandleRetrieved, serverVars
<1>8. CASE HandleSetReply
  <2>1. m.type = "SetReply" /\ m.slot \in Slots
    BY <1>2, <1>8, PacketFields DEF HandleSetReply
  <2>2. presence' = [presence EXCEPT ![m.slot] =
                       ApplyServerStatus(m.slot, presence[m.slot], m.status)]
    BY <1>8 DEF HandleSetReply
  <2>3. \A s \in Slots : presence'[s] = After(s, presence[s], m)
    BY <1>1, <2>1, <2>2 DEF After
  <2> QED
    BY <1>2, <1>8, <2>3 DEF HandleSetReply, serverVars
<1> QED
  BY <1>3, <1>4, <1>5, <1>6, <1>7, <1>8 DEF Handle

\* So a handler leaves what is foreseen as it was.
LEMMA HandleForeseen ==
    ASSUME IInv, Foreseen, Handle
    PROVE  Foreseen'
<1>1. /\ conn = "attached" /\ conn' = conn
      /\ inbox # <<>> /\ inbox' = Tail(inbox)
      /\ UNCHANGED <<preexisting, online, deathLinks, status>>
      /\ \A s \in Slots : presence'[s] = After(s, presence[s], Head(inbox))
  BY HandleAfter
<1>2. inbox \in Seq(Packet)
  BY DEF IInv, LinkOK
<1>3. SUFFICES ASSUME NEW s \in Slots
               PROVE  \E q \in SlotPresence :
                         Leads(s, presence'[s], inbox', q) /\ Fits(s, q)'
  BY DEF Foreseen
<1>4. PICK q \in SlotPresence : Leads(s, presence[s], inbox, q) /\ Fits(s, q)
  BY <1>1 DEF Foreseen
<1>5. Leads(s, After(s, presence[s], Head(inbox)), Tail(inbox), q)
  BY <1>1, <1>2, <1>4, LeadsHead
<1>6. Leads(s, presence'[s], inbox', q)
  BY <1>1, <1>5
<1>7. Playing(s)' = Playing(s) /\ TagsOf' = TagsOf
  BY <1>1 DEF Playing, Plays, TagsOf, Tags
<1>8. Fits(s, q)'
  BY <1>1, <1>4, <1>7, FitsSame
<1> QED
  BY <1>6, <1>8

\* An accepted bridge knows nobody, which is right wherever nobody plays.
LEMMA AttachForeseen ==
    ASSUME IInv, NobodyUnlessAttached, Attach
    PROVE  Foreseen'
<1> DEFINE a == [type |-> "Connected"]
           b == Notice("Join", MySlot, BridgeTags)
<1>1. /\ \A s \in Slots : presence'[s] = Nobody
      /\ inbox' = <<a, b>>
      /\ preexisting' = {s \in Slots : Playing(s) # {}}
      /\ UNCHANGED <<online, deathLinks>>
  BY DEF Attach, NobodyUnlessAttached, bridgeVars
<1>2. Nobody \in SlotPresence /\ SlotOK(Nobody)
  BY NobodyOK DEF SlotOK
<1>3. SUFFICES ASSUME NEW s \in Slots
               PROVE  Leads(s, Nobody, inbox', Nobody) /\ Fits(s, Nobody)'
  BY <1>1, <1>2 DEF Foreseen
<1>4. Leads(s, Nobody, inbox', Nobody)
  <2>1. a \in Packet /\ b \in Packet
    BY SlotAssumption, NoticeOK DEF Packet
  <2>2. After(s, Nobody, a) = Nobody
    BY DEF After
  <2>3. After(s, Nobody, b) = Nobody
    <3>1. ~IsPlayingClient(BridgeTags)
      BY DEF IsPlayingClient, BridgeTags, NonPlayingTags
    <3>2. CASE s = MySlot
      <4>1. b.type = "Join" /\ b.slot = s /\ b.tags = BridgeTags
        BY <3>2 DEF Notice
      <4> HIDE DEF b
      <4>2. After(s, Nobody, b) = RefreshDeathLink(ClientJoined(Nobody, BridgeTags))
        BY <4>1 DEF After
      <4> QED
        BY <1>2, <3>1, <4>2, NotPlaying
    <3>3. CASE s # MySlot
      <4>1. b.type # "Retrieved" /\ b.slot # s
        BY <3>3 DEF Notice
      <4> HIDE DEF b
      <4> QED
        BY <4>1, Elsewhere
    <3> QED
      BY <3>2, <3>3
  <2> HIDE DEF a, b
  <2>4. <<a, b>> \in Seq(Packet) /\ Len(<<a, b>>) = 2
        /\ <<a, b>>[1] = a /\ <<a, b>>[2] = b
    BY <2>1
  <2>5. \A i \in 1..Len(<<a, b>>) : After(s, Nobody, <<a, b>>[i]) = Nobody
    <3>1. \A i \in 1..2 : i = 1 \/ i = 2
      OBVIOUS
    <3> QED
      BY <2>2, <2>3, <2>4, <3>1
  <2> QED
    BY <1>1, <1>2, <2>4, <2>5, LeadsNowhere
<1>5. Fits(s, Nobody)'
  <2>1. ~Nobody.provisional /\ Nobody.count = 0 /\ Nobody.tags = <<>>
    BY DEF Nobody
  <2>2. Playing(s)' = Playing(s)
    BY <1>1 DEF Playing, Plays
  <2>3. Cardinality(Playing(s)) \in Nat
    BY PlayingFinite DEF IInv
  <2>4. s \notin preexisting' => Playing(s) = {}
    BY <1>1
  <2>5. Playing(s) = {} => Describes(Playing(s), TagsOf', <<>>)
    BY DescribesNobody
  <2> QED
    BY <1>2, <2>1, <2>2, <2>3, <2>4, <2>5 DEF Fits
<1> QED
  BY <1>4, <1>5

-----------------------------------------------------------------------------
(* Every step *)

\* Nobody is known from the moment the connection opens until the server
\* accepts the bridge.
LEMMA NobodyStep ==
    ASSUME IInv, NobodyUnlessAttached, [Next]_vars
    PROVE  NobodyUnlessAttached'
<1>1. CASE Handle
  BY <1>1, HandleAfter DEF NobodyUnlessAttached
<1>2. CASE Connect \/ Disconnect
  BY <1>2 DEF Connect, Disconnect, ResetPresence, NobodyUnlessAttached
<1>3. CASE Attach \/ ServeGet \/ ServeSetNotify
  BY <1>3 DEF Attach, ServeGet, ServeSetNotify, bridgeVars, NobodyUnlessAttached
<1>4. CASE Players
  BY <1>4 DEF Players, ClientConnects, ClientDisconnects, ClientPlays,
              ClientTogglesDeathLink, bridgeVars, NobodyUnlessAttached
<1>5. CASE UNCHANGED vars
  BY <1>5 DEF vars, bridgeVars, linkVars, NobodyUnlessAttached
<1> QED
  BY <1>1, <1>2, <1>3, <1>4, <1>5 DEF Next

\* The server keeps its statuses in step with who is there.
LEMMA StatusStep ==
    ASSUME IInv, StatusFits, [Next]_vars
    PROVE  StatusFits'
<1>0. status \in [Slots -> Status] /\ online \subseteq Clients
  BY DEF IInv, ServerOK
<1>1. CASE Handle
  BY <1>1, HandleAfter DEF StatusFits
<1>2. CASE UNCHANGED <<online, status>>
  BY <1>2 DEF StatusFits
<1>3. CASE UNCHANGED online /\ \A s \in Slots \ {MySlot} : status'[s] = status[s]
  BY <1>3 DEF StatusFits
<1>4. ASSUME NEW c \in Clients, ClientConnects(c) PROVE StatusFits'
  <2>1. /\ online' = online \cup {c}
        /\ status' = IF status[SlotOf[c]] = 0
                     THEN [status EXCEPT ![SlotOf[c]] = 5] ELSE status
    BY <1>4 DEF ClientConnects
  <2>2. SUFFICES ASSUME NEW s \in Slots \ {MySlot}
                 PROVE  /\ status'[s] = 0 => \A d \in online' : SlotOf[d] # s
                        /\ status'[s] \in PlayingStatuses
                             => \E d \in online' : SlotOf[d] = s
    BY DEF StatusFits
  <2>3. CASE s = SlotOf[c]
    BY <1>0, <2>1, <2>3
  <2>4. CASE s # SlotOf[c]
    <3>1. status'[s] = status[s]
      BY <1>0, <2>1, <2>4
    <3> QED
      BY <2>1, <2>4, <3>1 DEF StatusFits
  <2> QED
    BY <2>3, <2>4
<1>5. ASSUME NEW c \in Clients, ClientDisconnects(c) PROVE StatusFits'
  <2> DEFINE t == SlotOf[c]
             clear == /\ status[t] # Goal
                      /\ \A d \in online \ {c} : SlotOf[d] # t
                      /\ ~(conn = "attached" /\ t = MySlot)
  <2>1. /\ c \in online /\ online' = online \ {c}
        /\ status' = IF clear THEN [status EXCEPT ![t] = 0] ELSE status
    BY <1>5 DEF ClientDisconnects
  <2>2. SUFFICES ASSUME NEW s \in Slots \ {MySlot}
                 PROVE  /\ status'[s] = 0 => \A d \in online' : SlotOf[d] # s
                        /\ status'[s] \in PlayingStatuses
                             => \E d \in online' : SlotOf[d] = s
    BY DEF StatusFits
  <2>3. CASE s = t /\ clear
    <3>1. status'[s] = 0
      BY <1>0, <2>1, <2>3
    <3> QED
      BY <2>1, <2>3, <3>1 DEF PlayingStatuses
  <2>4. CASE s = t /\ ~clear
    <3>1. status'[s] = status[s]
      BY <2>1, <2>4
    <3>2. status[s] = Goal \/ \E d \in online \ {c} : SlotOf[d] = s
      BY <2>4
    <3>3. status[s] # 0
      BY <2>1, <2>4 DEF StatusFits
    <3> QED
      BY <2>1, <3>1, <3>2, <3>3 DEF PlayingStatuses, Goal
  <2>5. CASE s # t
    <3>1. status'[s] = status[s]
      BY <1>0, <2>1, <2>5
    <3> HIDE DEF clear
    <3> QED
      BY <2>1, <2>5, <3>1 DEF StatusFits
  <2> QED
    BY <2>3, <2>4, <2>5
<1>6. ASSUME NEW c \in Clients, NEW v \in GameStatuses, ClientPlays(c, v)
      PROVE  StatusFits'
  <2>1. c \in online /\ online' = online /\ status' = [status EXCEPT ![SlotOf[c]] = v]
        /\ v # 0
    BY <1>6, SlotAssumption DEF ClientPlays
  <2> QED
    BY <1>0, <2>1 DEF StatusFits
<1>7. CASE Connect \/ ServeGet \/ ServeSetNotify \/ UNCHANGED vars
  BY <1>2, <1>7 DEF Connect, ServeGet, ServeSetNotify, vars, serverVars
<1>8. CASE Disconnect \/ Attach
  BY <1>0, <1>3, <1>8 DEF Disconnect, Attach
<1>9. ASSUME NEW c \in Clients, ClientTogglesDeathLink(c) PROVE StatusFits'
  BY <1>2, <1>9 DEF ClientTogglesDeathLink
<1> QED
  BY <1>1, <1>4, <1>5, <1>6, <1>7, <1>8, <1>9 DEF Next, Players

\* Actions between which nothing is on its way, or that only pass requests on.
LEMMA StillForeseen ==
    ASSUME Foreseen,
           conn' # "attached"
           \/ UNCHANGED <<presence, conn, inbox, preexisting, online, deathLinks>>
    PROVE  Foreseen'
<1>1. CASE conn' # "attached"
  BY <1>1 DEF Foreseen
<1>2. CASE UNCHANGED <<presence, conn, inbox, preexisting, online, deathLinks>>
  <2>1. SUFFICES ASSUME conn = "attached", NEW s \in Slots
                 PROVE  \E q \in SlotPresence :
                           Leads(s, presence[s], inbox, q) /\ Fits(s, q)'
    BY <1>2 DEF Foreseen
  <2>2. PICK q \in SlotPresence : Leads(s, presence[s], inbox, q) /\ Fits(s, q)
    BY <2>1 DEF Foreseen
  <2>3. Playing(s)' = Playing(s) /\ TagsOf' = TagsOf
    BY <1>2 DEF Playing, Plays, TagsOf, Tags
  <2>4. Fits(s, q)'
    BY <1>2, <2>2, <2>3, FitsSame
  <2> QED
    BY <2>2, <2>4
<1> QED
  BY <1>1, <1>2

LEMMA ForeseenStep ==
    ASSUME ExactInv, [Next]_vars PROVE Foreseen'
<1>1. CASE Handle
  BY <1>1, HandleForeseen DEF ExactInv
<1>2. CASE Connect \/ Disconnect
  <2>1. conn' # "attached"
    BY <1>2 DEF Connect, Disconnect
  <2> QED
    BY <2>1, StillForeseen DEF ExactInv
<1>3. CASE Attach \/ ServeGet
  BY <1>3, AttachForeseen, GetForeseen DEF ExactInv
<1>4. CASE ServeSetNotify \/ UNCHANGED vars
  <2>1. UNCHANGED <<presence, conn, inbox, preexisting, online, deathLinks>>
    BY <1>4 DEF ServeSetNotify, vars, bridgeVars, linkVars, serverVars
  <2> QED
    BY <2>1, StillForeseen DEF ExactInv
<1>5. CASE Players
  BY <1>5, ConnectForeseen, DisconnectForeseen, PlaysForeseen, ToggleForeseen
     DEF ExactInv, Players
<1> QED
  BY <1>1, <1>2, <1>3, <1>4, <1>5 DEF Next

LEMMA ExactInvariant == Spec => []ExactInv
<1>1. ASSUME Init PROVE ExactInv
  <2>1. IInv
    BY <1>1, InitInv
  <2>2. NobodyUnlessAttached /\ StatusFits /\ Foreseen
    BY <1>1 DEF Init, NobodyUnlessAttached, StatusFits, Foreseen, PlayingStatuses
  <2> QED
    BY <2>1, <2>2 DEF ExactInv
<1>2. ExactInv /\ [Next]_vars => ExactInv'
  BY StepInv, NobodyStep, StatusStep, ForeseenStep DEF ExactInv
<1> QED
  BY <1>1, <1>2, PTL DEF Spec

-----------------------------------------------------------------------------
(* The theorems *)

\* With nothing left to read, every record is right.
LEMMA CaughtUpFits ==
    ASSUME ExactInv, CaughtUp, NEW s \in Slots PROVE Fits(s, presence[s])
<1>1. presence[s] \in SlotPresence
  BY DEF ExactInv, IInv, BridgeOK
<1>2. PICK q \in SlotPresence : Leads(s, presence[s], <<>>, q) /\ Fits(s, q)
  BY DEF ExactInv, Foreseen, CaughtUp
<1> QED
  BY <1>1, <1>2, LeadsNothing

\* Once it has read everything, the bridge counts exactly the game clients of
\* every slot nobody played when it attached, whatever came and went meanwhile,
\* unless the slot stands on the server's word, or a tracker's Part there may read
\* as a game client's.
THEOREM CountsAreExact == Spec => []PresenceExact
<1>1. ASSUME ExactInv PROVE PresenceExact
  <2>1. SUFFICES ASSUME CaughtUp, NEW s \in Slots \ preexisting,
                        ~presence[s].provisional, ToldApart(s)
                 PROVE  presence[s].count = Cardinality(Playing(s))
    BY DEF PresenceExact
  <2>2. Fits(s, presence[s])
    BY <1>1, <2>1, CaughtUpFits
  <2>3. SlotOK(presence[s]) /\ Describes(Playing(s), TagsOf, presence[s].tags)
    BY <2>1, <2>2 DEF Fits
  <2>4. presence[s].tags \in Seq(SUBSET Tag)
        /\ presence[s].count = Len(presence[s].tags)
    BY <2>1, <2>3, SlotFields
  <2> QED
    BY <2>3, <2>4, DescribesCount
<1> QED
  BY <1>1, ExactInvariant, PTL

\* It never counts more clients than play, not even on slots held before.
THEOREM NeverTooMany == Spec => []NeverOvercounts
<1>1. ASSUME ExactInv PROVE NeverOvercounts
  BY <1>1, CaughtUpFits DEF NeverOvercounts, Fits
<1> QED
  BY <1>1, ExactInvariant, PTL

\* Where the server's Part messages carry readable tags, the DeathLink badge is
\* that of the clients really playing, although no notice names its client.
THEOREM BadgeIsExact ==
    ASSUME PartTexts = {"tags"} PROVE Spec => []DeathLinkExact
<1>0. ~Misread /\ \A s : ToldApart(s)
  BY DEF Misread, ToldApart
<1>1. ASSUME ExactInv PROVE DeathLinkExact
  <2>1. SUFFICES ASSUME CaughtUp, NEW s \in Slots \ preexisting,
                        ~presence[s].provisional, Held(s)
                 PROVE  presence[s].deathLink = "on"
                          <=> \E c \in Playing(s) : c \in deathLinks
    BY DEF DeathLinkExact
  <2> DEFINE t == presence[s].tags
  <2>2. Fits(s, presence[s])
    BY <1>1, <2>1, CaughtUpFits
  <2>3. SlotOK(presence[s]) /\ Describes(Playing(s), TagsOf, t)
    BY <1>0, <2>1, <2>2 DEF Fits
  <2>4. t \in Seq(SUBSET Tag) /\ Len(t) \in Nat /\ Len(t) > 0
        /\ presence[s].deathLink = LiveDeathLink(t)
    BY <2>1, <2>3, SlotFields DEF SlotOK, Held
  <2> HIDE DEF t
  <2>5. LiveDeathLink(t) = "on" <=> \E i \in 1..Len(t) : "DeathLink" \in t[i]
    <3>1. t # <<>> /\ DOMAIN t = 1..Len(t)
      BY <2>4, LenProperties
    <3> QED
      BY <3>1 DEF LiveDeathLink
  <2>6. PICK b \in [1..Len(t) -> Playing(s)] : Names(b, Playing(s), TagsOf, t)
    BY <2>3 DEF Describes
  <2>7. \A i \in 1..Len(t) : "DeathLink" \in t[i] <=> b[i] \in deathLinks
    <3> TAKE i \in 1..Len(t)
    <3>1. t[i] = TagsOf[b[i]]
      BY <1>0, <2>6 DEF Names
    <3>2. b[i] \in Clients
      BY <1>1, <2>6 DEF ExactInv, IInv, ServerOK, Playing
    <3> QED
      BY <3>1, <3>2, ClientTags
  <2>8. \A c \in Playing(s) : \E i \in 1..Len(t) : b[i] = c
    BY <2>6 DEF Names
  <2> QED
    BY <2>4, <2>5, <2>6, <2>7, <2>8
<1> QED
  BY <1>1, ExactInvariant, PTL

\* A slot only game clients connect to is never held on the server's word while
\* nobody is on it, whatever connects to the other slots
\* (_apply_server_client_status).
THEOREM WordIsOfSomebody == Spec => []NoGhostSlot
<1>1. ASSUME ExactInv PROVE NoGhostSlot
  BY <1>1, CaughtUpFits DEF NoGhostSlot, Fits, Occupied
<1> QED
  BY <1>1, ExactInvariant, PTL
=============================================================================
