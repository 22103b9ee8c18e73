---------------------------- MODULE HintsProofs ----------------------------
(***************************************************************************)
(* Theorems about Hints, for any slots, hints, requests and bounds.        *)
(*                                                                         *)
(* What is on its way to the bridge is never ahead of the server.  Of each *)
(* slot's hint, the last packet on its way tells the server's status, or   *)
(* is a print, which tells none; when there is none, the bridge holds it,  *)
(* or the save has yet to bring it.                                        *)
(***************************************************************************)
EXTENDS Hints, SequenceTheorems, FiniteSetTheorems, TLAPS

\* What a copy of the storage says of a hint the server has, or had, to say.
Real(value) ==
    \A h \in Hint : /\ value[h] # Unhinted => storage[h] # Unhinted
                    /\ value[h] = Found => storage[h] = Found

RealPacket(packet) ==
    IF packet.type = "storage" THEN Real(packet.value)
    ELSE storage[packet.hint] # Unhinted /\ MySlot \in Parties(packet.hint)

AllReal == /\ Real(save.storage)
           /\ \A i \in DOMAIN inbox : RealPacket(inbox[i])

\* Edits are about hints of the slot, which exist.
PagesReal ==
    \A p \in Pages : pages[p].state \in {"sent", "stored"} =>
        /\ pages[p].slot \in Parties(pages[p].hint)
        /\ storage[pages[p].hint] # Unhinted

\* The connection's requests are those of an attach, served in order; nothing is
\* on its way while it is down.
LinkOK ==
    /\ requests \in {<<>>, <<"Get", "SetNotify">>, <<"SetNotify">>}
    /\ requests # <<>> => ~subscribed
    /\ ~link => requests = <<>> /\ ~subscribed /\ inbox = <<>>

\* The answer to Get is sent.
Answered == subscribed \/ requests = <<"SetNotify">>

\* A packet that would have an unseen hint announced; one that marks it as seen.
Announces(packet, h) ==
    IF packet.type = "storage" THEN packet.announce /\ packet.value[h] # Unhinted
    ELSE packet.hint = h

Marks(packet, h) ==
    /\ packet.type = "storage" /\ ~packet.announce
    /\ packet.value[h] # Unhinted
    /\ packet.slots \cap Parties(h) # {}

\* A hint announced before a restart, which has forgotten it, is marked again by the
\* answer to Get before anything announces it.
Remembered(h) ==
    /\ \A i \in DOMAIN inbox : Announces(inbox[i], h) =>
          \E j \in DOMAIN inbox : j < i /\ Marks(inbox[j], h)
    /\ Answered => \E j \in DOMAIN inbox : Marks(inbox[j], h)

AnnouncedOK ==
    \A h \in Hint : announced[h] # 0 =>
        /\ announced[h] = 1
        /\ storage[h] # Unhinted
        /\ h \in seen \/ Remembered(h)

\* A packet that replaces what a slot holds of a hint, and what it tells of it.
Tells(packet, s, h) ==
    IF packet.type = "storage" THEN s \in packet.slots
    ELSE packet.hint = h /\ s = ReceiverOf[h]

Told(packet, h) == IF packet.type = "storage" THEN packet.value[h] ELSE Unspecified

\* What a slot may have of a hint in place of its status: a print has none, so that
\* the receiver of a priority hint that was printed may have it without.
Right(value, status, s, h) ==
    \/ value = status
    \/ /\ s = ReceiverOf[h] /\ MySlot \in Parties(h)
       /\ value = Unspecified /\ status = Priority

\* No packet would change it: it is right, or the save of a status it has not
\* written yet will make it so, or the one it has.
Settled(s, h) ==
    \/ Right(held[s][h], storage[h], s, h)
    \/ s \notin Quiet /\ save.storage[h] # storage[h]
    \/ unread /\ Saved(s)

LastTold(s, h) ==
    \A i \in DOMAIN inbox :
        /\ Tells(inbox[i], s, h)
        /\ \A j \in DOMAIN inbox : j > i => ~Tells(inbox[j], s, h)
        => Right(Told(inbox[i], h), storage[h], s, h)

Follows(s, h) ==
    /\ LastTold(s, h)
    /\ (\A i \in DOMAIN inbox : ~Tells(inbox[i], s, h)) => Settled(s, h)

ReadOK ==
    Answered => \A h \in Hint \ missed : \A s \in Parties(h) :
        ~Edited(s, h) => Follows(s, h)

\* A slot that paid has a hint, so that the save's count of it is merged.
PaidOK ==
    /\ \A s \in Slots : paid[s] # 0 => Known(Of(storage, s)) # {}
    /\ \A s \in Slots : save.paid[s] # 0 => Known(Of(save.storage, s)) # {}
    /\ ~unread => \A s \in Slots \ Quiet : used[s] >= save.paid[s]

Inv == /\ TypeOK /\ AllReal /\ OnlyRealHints /\ PagesReal /\ LinkOK
       /\ AnnouncedOK /\ ReadOK /\ PaidOK

-----------------------------------------------------------------------------
(* Statuses and packets. *)

LEMMA StatusFacts ==
    /\ Unhinted \notin Status /\ Found \in Status /\ Found \notin New
    /\ New \subseteq Status /\ New = {Unspecified, Priority}
    /\ Status \subseteq Int
BY HintAssumption DEF Unhinted, Unspecified, Priority, Found, New, Status

LEMMA PartyFacts ==
    ASSUME NEW h \in Hint
    PROVE  /\ Parties(h) \subseteq Slots /\ Parties(h) # {}
           /\ IsFiniteSet(Parties(h))
<1>1. Parties(h) \subseteq Slots /\ Parties(h) # {}
  BY HintAssumption DEF Parties
<1> QED BY <1>1, HintAssumption, FS_Subset

\* The keys of a hint's parties, in some order.
LEMMA KeysOfParties ==
    ASSUME NEW h \in Hint
    PROVE  /\ SetToSeq(Parties(h)) \in Seq(Parties(h))
           /\ \A s \in Parties(h) : \E i \in DOMAIN SetToSeq(Parties(h)) :
                SetToSeq(Parties(h))[i] = s
<1> DEFINE S == Parties(h)
           n == Cardinality(S)
           f == SetToSeq(S)
<1>1. IsFiniteSet(S)
  BY PartyFacts
<1> HIDE DEF S
<1>2. n \in Nat /\ ExistsBijection(1..n, S)
  BY <1>1, FS_CardinalityType
<1>3. f \in [1..n -> S] /\ IsInjective(f)
  BY <1>2 DEF SetToSeq, ExistsBijection, Bijection, Injection
<1>4. f \in Seq(S)
  BY <1>2, <1>3, IsASeq
<1>5. IsFiniteSet(1..n) /\ Cardinality(1..n) = n
  BY <1>2, FS_Interval
<1>6. f \in Surjection(1..n, S)
  BY <1>1, <1>3, <1>5, FS_Injection DEF Injection
<1>7. \A s \in S : \E i \in DOMAIN f : f[i] = s
  BY <1>3, <1>6 DEF Surjection
<1> QED BY <1>4, <1>7 DEF S

LEMMA OfType ==
    ASSUME NEW value \in Statuses, NEW s
    PROVE  /\ Of(value, s) \in Statuses
           /\ \A h \in Hint : Of(value, s)[h] =
                IF s \in Parties(h) THEN value[h] ELSE Unhinted
BY DEF Of, Statuses

LEMMA PacketFacts ==
    ASSUME NEW packet \in Packet
    PROVE  /\ packet.type \in {"storage", "print"}
           /\ packet.type = "storage" =>
                /\ packet.slots \subseteq Slots /\ packet.value \in Statuses
                /\ packet.announce \in BOOLEAN /\ packet.begun \in BOOLEAN
                /\ packet \in [type : {"storage"}, slots : SUBSET Slots, value : Statuses,
                               announce : BOOLEAN, begun : BOOLEAN]
           /\ packet.type = "print" => packet.hint \in Hint
BY DEF Packet

LEMMA SetReplyFacts ==
    ASSUME NEW s \in Slots, NEW value \in Statuses
    PROVE  /\ SetReply(s, value) \in Packet
           /\ SetReply(s, value).type = "storage"
           /\ SetReply(s, value).slots = {s}
           /\ SetReply(s, value).value = Of(value, s)
           /\ SetReply(s, value).announce = TRUE
BY OfType DEF SetReply, Packet

LEMMA PrintFacts ==
    ASSUME NEW h \in Hint
    PROVE  /\ HintPrint(h) \in Packet
           /\ HintPrint(h).type = "print"
           /\ HintPrint(h).hint = h
BY DEF HintPrint, Packet

LEMMA RetrievedFacts ==
    ASSUME storage \in Statuses
    PROVE  /\ Retrieved \in Packet
           /\ Retrieved.type = "storage"
           /\ Retrieved.slots = Slots
           /\ Retrieved.value = storage
           /\ Retrieved.announce = FALSE
BY DEF Retrieved, Packet

\* The first packet.
LEMMA HeadFacts ==
    ASSUME TypeOK, inbox # <<>>
    PROVE  /\ Head(inbox) \in Packet /\ Head(inbox) = inbox[1]
           /\ Len(inbox) \in Nat /\ Len(inbox) >= 1 /\ DOMAIN inbox = 1..Len(inbox)
<1>1. inbox \in Seq(Packet)
  BY DEF TypeOK
<1> QED BY <1>1, HeadTailProperties, EmptySeq, LenProperties

\* The rest of them.
LEMMA TailFacts ==
    ASSUME TypeOK, inbox # <<>>, inbox' = Tail(inbox)
    PROVE  /\ inbox' \in Seq(Packet)
           /\ DOMAIN inbox = 1..Len(inbox) /\ DOMAIN inbox' = 1..(Len(inbox) - 1)
           /\ Len(inbox) \in Nat /\ Len(inbox) >= 1
           /\ \A i \in 1..(Len(inbox) - 1) : inbox'[i] = inbox[i + 1]
<1>1. inbox \in Seq(Packet)
  BY DEF TypeOK
<1>2. inbox' \in Seq(Packet) /\ Len(inbox') = Len(inbox) - 1
  BY <1>1, HeadTailProperties
<1>3. DOMAIN inbox' = 1..Len(inbox')
  BY <1>2, LenProperties
<1> QED BY <1>1, <1>2, <1>3, HeadTailProperties, HeadFacts

\* The first one marked, the others as they are.
LEMMA MarkedFacts ==
    ASSUME TypeOK, inbox # <<>>, NEW x \in Packet, inbox' = <<x>> \o Tail(inbox)
    PROVE  /\ inbox' \in Seq(Packet)
           /\ DOMAIN inbox = 1..Len(inbox) /\ DOMAIN inbox' = DOMAIN inbox
           /\ Len(inbox) \in Nat /\ Len(inbox) >= 1
           /\ inbox'[1] = x
           /\ \A i \in 2..Len(inbox) : inbox'[i] = inbox[i]
<1>1. inbox \in Seq(Packet)
  BY DEF TypeOK
<1> DEFINE t == Tail(inbox)
<1>2. /\ t \in Seq(Packet) /\ Len(t) = Len(inbox) - 1
      /\ \A i \in 1..Len(t) : t[i] = inbox[i + 1]
  BY <1>1, HeadTailProperties
<1>3. <<x>> \in Seq(Packet) /\ Len(<<x>>) = 1 /\ <<x>>[1] = x
  OBVIOUS
<1>4. Len(inbox) \in Nat /\ Len(inbox) >= 1 /\ DOMAIN inbox = 1..Len(inbox)
  BY HeadFacts
<1> HIDE DEF t
<1>5. inbox' = <<x>> \o t
  BY DEF t
<1> DEFINE u == <<x>>
<1>6. u \in Seq(Packet) /\ Len(u) = 1 /\ u[1] = x /\ inbox' = u \o t
  BY <1>3, <1>5
<1> HIDE DEF u
<1>7. /\ inbox' \in Seq(Packet) /\ Len(inbox') = Len(inbox)
      /\ \A i \in 1..(1 + Len(t)) : inbox'[i] = IF i <= 1 THEN u[i] ELSE t[i - 1]
  <2>1. /\ u \o t \in Seq(Packet) /\ Len(u \o t) = Len(u) + Len(t)
        /\ \A i \in 1..(Len(u) + Len(t)) :
              (u \o t)[i] = IF i <= Len(u) THEN u[i] ELSE t[i - Len(u)]
    BY <1>2, <1>6, ConcatProperties
  <2>2. inbox' \in Seq(Packet) /\ Len(inbox') = 1 + Len(t)
        /\ \A i \in 1..(1 + Len(t)) :
              inbox'[i] = IF i <= 1 THEN u[i] ELSE t[i - 1]
    BY <2>1, <1>6
  <2>3. 1 + Len(t) = Len(inbox)
    BY <1>2, <1>4
  <2> QED BY <2>2, <2>3
<1>8. DOMAIN inbox' = DOMAIN inbox
  BY <1>4, <1>7, LenProperties
<1>9. inbox'[1] = x
  BY <1>2, <1>4, <1>6, <1>7
<1>10. ASSUME NEW i \in 2..Len(inbox) PROVE inbox'[i] = inbox[i]
  <2>1. inbox'[i] = t[i - 1] /\ i - 1 \in 1..Len(t)
    BY <1>2, <1>4, <1>7
  <2> QED BY <2>1, <1>2, <1>4
<1> QED BY <1>4, <1>7, <1>8, <1>9, <1>10

-----------------------------------------------------------------------------
(* What the server adds. *)

\* A packet of the server on a change of hint h.
News(packet, h) ==
    \/ subscribed /\ \E s \in Parties(h) : packet = SetReply(s, storage')
    \/ storage[h] = Unhinted /\ MySlot \in Parties(h) /\ packet = HintPrint(h)

\* The packets on their way stay, and some may follow them.
Grows ==
    /\ inbox' \in Seq(Packet)
    /\ Len(inbox) \in Nat /\ Len(inbox') \in Nat /\ Len(inbox) <= Len(inbox')
    /\ DOMAIN inbox = 1..Len(inbox) /\ DOMAIN inbox' = 1..Len(inbox')
    /\ \A i \in 1..Len(inbox) : inbox'[i] = inbox[i]

LEMMA ConcatGrows ==
    ASSUME TypeOK, NEW news \in Seq(Packet), inbox' = inbox \o news
    PROVE  /\ Grows
           /\ Len(inbox') = Len(inbox) + Len(news) /\ Len(news) \in Nat
           /\ \A i \in 1..Len(news) : inbox'[Len(inbox) + i] = news[i]
           /\ \A i \in (Len(inbox) + 1)..Len(inbox') :
                 i - Len(inbox) \in 1..Len(news) /\ inbox'[i] = news[i - Len(inbox)]
<1>1. inbox \in Seq(Packet)
  BY DEF TypeOK
<1>2. Len(inbox) \in Nat /\ Len(news) \in Nat /\ DOMAIN inbox = 1..Len(inbox)
  BY <1>1, LenProperties
<1>3. /\ inbox' \in Seq(Packet) /\ Len(inbox') = Len(inbox) + Len(news)
      /\ \A i \in 1..(Len(inbox) + Len(news)) : inbox'[i] =
            IF i <= Len(inbox) THEN inbox[i] ELSE news[i - Len(inbox)]
  BY <1>1, ConcatProperties
<1>4. DOMAIN inbox' = 1..Len(inbox')
  BY <1>3, LenProperties
<1> QED BY <1>2, <1>3, <1>4 DEF Grows

LEMMA TellGrows ==
    ASSUME TypeOK, NEW h \in Hint, storage' \in Statuses,
           NEW prints \in {<<>>, <<HintPrint(h)>>},
           prints # <<>> => storage[h] = Unhinted /\ MySlot \in Parties(h),
           Tell(h, prints)
    PROVE  /\ Grows
           /\ ~link => inbox' = inbox
           /\ \A i \in (Len(inbox) + 1)..Len(inbox') : News(inbox'[i], h)
           /\ link /\ subscribed => \A s \in Parties(h) :
                \E i \in (Len(inbox) + 1)..Len(inbox') : inbox'[i] = SetReply(s, storage')
           /\ missed' = IF requests = <<"SetNotify">> THEN missed \cup {h} ELSE missed
<1> DEFINE keys == IF subscribed THEN SetToSeq(Parties(h)) ELSE <<>>
           replies == [i \in DOMAIN keys |-> SetReply(keys[i], storage')]
<1>1. /\ keys \in Seq(Parties(h))
      /\ subscribed => \A s \in Parties(h) : \E i \in DOMAIN keys : keys[i] = s
      /\ ~subscribed => keys = <<>>
  BY KeysOfParties
<1>2. /\ IF link THEN inbox' \in {inbox \o prints \o replies, inbox \o replies \o prints}
         ELSE UNCHANGED inbox
      /\ missed' = IF requests = <<"SetNotify">> THEN missed \cup {h} ELSE missed
  BY DEF Tell
<1> HIDE DEF keys
<1>3. Len(keys) \in Nat /\ DOMAIN keys = 1..Len(keys)
  BY <1>1, LenProperties
<1>4. \A i \in DOMAIN keys : keys[i] \in Parties(h) /\ keys[i] \in Slots
  BY <1>1, <1>3, ElementOfSeq, PartyFacts
<1>5. replies \in [1..Len(keys) -> Packet]
  BY <1>3, <1>4, SetReplyFacts
<1>6. replies \in Seq(Packet) /\ Len(replies) = Len(keys) /\ DOMAIN replies = 1..Len(keys)
  <2>1. replies \in Seq(Packet)
    BY <1>3, <1>5, IsASeq
  <2> QED BY <2>1, <1>3, <1>5, LenProperties
<1>7. \A i \in 1..Len(replies) : News(replies[i], h)
  <2> SUFFICES ASSUME NEW i \in 1..Len(replies) PROVE News(replies[i], h)
    OBVIOUS
  <2>1. i \in DOMAIN keys
    BY <1>3, <1>6
  <2>2. subscribed
    BY <2>1, <1>1, <1>3
  <2> QED BY <2>1, <2>2, <1>4 DEF News
<1>8. subscribed => \A s \in Parties(h) : \E i \in 1..Len(replies) :
                       replies[i] = SetReply(s, storage')
  BY <1>1, <1>3, <1>6
<1>9. /\ prints \in Seq(Packet)
      /\ \A i \in 1..Len(prints) : News(prints[i], h)
  <2>1. CASE prints = <<>>
    BY <2>1
  <2>2. CASE prints = <<HintPrint(h)>>
    <3> DEFINE x == HintPrint(h)
    <3>1. x \in Packet /\ News(x, h)
      BY <2>2, PrintFacts DEF News
    <3> HIDE DEF x
    <3>2. prints = <<x>>
      BY <2>2 DEF x
    <3> QED BY <3>1, <3>2
  <2> QED BY <2>1, <2>2
<1> HIDE DEF replies
<1>10. CASE ~link
  <2>1. inbox' = inbox \o <<>> /\ inbox \in Seq(Packet) /\ inbox' = inbox
    BY <1>2, <1>10, ConcatEmptySeq DEF TypeOK
  <2>2. /\ Grows /\ Len(inbox) \in Nat
        /\ \A s \in Parties(h) : ~(link /\ subscribed)
    BY <2>1, <1>10, LenProperties DEF Grows
  <2>3. (Len(inbox) + 1)..Len(inbox') = {}
    BY <2>1, <2>2
  <2> QED BY <2>1, <2>2, <2>3, <1>2, <1>10
<1>11. ASSUME link, NEW one \in Seq(Packet), NEW two \in Seq(Packet),
              inbox' = inbox \o one \o two,
              \A i \in 1..Len(one) : News(one[i], h),
              \A i \in 1..Len(two) : News(two[i], h),
              subscribed => \A s \in Parties(h) :
                 \/ \E i \in 1..Len(one) : one[i] = SetReply(s, storage')
                 \/ \E i \in 1..Len(two) : two[i] = SetReply(s, storage')
       PROVE  /\ Grows
              /\ \A i \in (Len(inbox) + 1)..Len(inbox') : News(inbox'[i], h)
              /\ subscribed => \A s \in Parties(h) :
                   \E i \in (Len(inbox) + 1)..Len(inbox') :
                      inbox'[i] = SetReply(s, storage')
  <2> DEFINE news == one \o two
  <2>1. news \in Seq(Packet) /\ inbox' = inbox \o news
    <3>1. inbox \in Seq(Packet)
      BY DEF TypeOK
    <3>2. (inbox \o one) \o two = inbox \o (one \o two)
      BY <3>1, ConcatAssociative
    <3>3. one \o two \in Seq(Packet)
      BY ConcatProperties
    <3> QED BY <3>2, <3>3, <1>11
  <2>2. /\ Len(one) \in Nat /\ Len(two) \in Nat /\ Len(news) = Len(one) + Len(two)
        /\ \A i \in 1..Len(news) : news[i] =
              IF i <= Len(one) THEN one[i] ELSE two[i - Len(one)]
    BY ConcatProperties, LenProperties
  <2> HIDE DEF news
  <2>3. \A i \in 1..Len(news) : News(news[i], h)
    <3> SUFFICES ASSUME NEW i \in 1..Len(news) PROVE News(news[i], h)
      OBVIOUS
    <3>1. CASE i <= Len(one)
      <4>1. i \in 1..Len(one) /\ news[i] = one[i]
        BY <3>1, <2>2
      <4> QED BY <4>1, <1>11
    <3>2. CASE ~(i <= Len(one))
      <4>1. i - Len(one) \in 1..Len(two) /\ news[i] = two[i - Len(one)]
        BY <3>2, <2>2
      <4> QED BY <4>1, <1>11
    <3> QED BY <3>1, <3>2
  <2>4. ASSUME subscribed, NEW s \in Parties(h)
        PROVE  \E i \in 1..Len(news) : news[i] = SetReply(s, storage')
    <3>1. ASSUME NEW i \in 1..Len(one), one[i] = SetReply(s, storage')
          PROVE  \E k \in 1..Len(news) : news[k] = SetReply(s, storage')
      BY <3>1, <2>2
    <3>2. ASSUME NEW i \in 1..Len(two), two[i] = SetReply(s, storage')
          PROVE  \E k \in 1..Len(news) : news[k] = SetReply(s, storage')
      <4>1. Len(one) + i \in 1..Len(news) /\ ~(Len(one) + i <= Len(one))
            /\ Len(one) + i - Len(one) = i
        BY <2>2
      <4>2. news[Len(one) + i] = two[i]
        BY <4>1, <2>2
      <4> QED BY <4>1, <4>2, <3>2
    <3> QED BY <3>1, <3>2, <2>4, <1>11
  <2>5. Grows /\ \A i \in (Len(inbox) + 1)..Len(inbox') : News(inbox'[i], h)
    BY <2>1, <2>3, ConcatGrows
  <2>6. ASSUME subscribed, NEW s \in Parties(h)
        PROVE  \E i \in (Len(inbox) + 1)..Len(inbox') : inbox'[i] = SetReply(s, storage')
    <3>1. PICK i \in 1..Len(news) : news[i] = SetReply(s, storage')
      BY <2>6, <2>4
    <3>2. Len(inbox) \in Nat /\ Len(inbox') = Len(inbox) + Len(news) /\ Len(news) \in Nat
          /\ inbox'[Len(inbox) + i] = news[i]
      BY <2>1, <3>1, ConcatGrows DEF Grows
    <3>3. Len(inbox) + i \in (Len(inbox) + 1)..Len(inbox')
      BY <3>2
    <3> QED BY <3>1, <3>2, <3>3
  <2> QED BY <2>5, <2>6
<1>12. CASE link
  <2>1. \/ inbox' = inbox \o prints \o replies
        \/ inbox' = inbox \o replies \o prints
    BY <1>2, <1>12 DEF replies
  <2> DEFINE G == /\ Grows
                  /\ \A i \in (Len(inbox) + 1)..Len(inbox') : News(inbox'[i], h)
                  /\ subscribed => \A s \in Parties(h) :
                       \E i \in (Len(inbox) + 1)..Len(inbox') :
                          inbox'[i] = SetReply(s, storage')
  <2>2. ASSUME inbox' = inbox \o prints \o replies PROVE G
    BY <2>2, <1>6, <1>7, <1>8, <1>9, <1>11, <1>12 DEF G
  <2>3. ASSUME inbox' = inbox \o replies \o prints PROVE G
    BY <2>3, <1>6, <1>7, <1>8, <1>9, <1>11, <1>12 DEF G
  <2> HIDE DEF G
  <2>4. G
    BY <2>1, <2>2, <2>3
  <2> QED BY <2>4, <1>2, <1>12 DEF G
<1> QED BY <1>10, <1>12

-----------------------------------------------------------------------------
(* A change of a hint at the server: what all of them have in common. *)

Changes(h, status) ==
    /\ h \in Hint /\ status \in Status /\ storage[h] # Found
    /\ SetStatus(h, status)
    /\ storage[h] = Unhinted => status \in New
    /\ Grows
    /\ ~link => inbox' = inbox
    /\ \A i \in (Len(inbox) + 1)..Len(inbox') : News(inbox'[i], h)
    /\ subscribed => \A s \in Parties(h) :
          \E i \in (Len(inbox) + 1)..Len(inbox') : inbox'[i] = SetReply(s, storage')
    /\ missed' = IF requests = <<"SetNotify">> THEN missed \cup {h} ELSE missed
    /\ UNCHANGED <<saveVars, link, links, requests, subscribed, held, used, unread,
                   feedVars, restarts>>
    /\ \A s \in Slots, k \in Hint : Edited(s, k)' <=> Edited(s, k)

LEMMA ChangedStatuses ==
    ASSUME Inv, NEW h, NEW status, Changes(h, status)
    PROVE  /\ storage \in Statuses /\ storage' \in Statuses
           /\ \A k \in Hint : storage'[k] = IF k = h THEN status ELSE storage[k]
           /\ \A k \in Hint : /\ storage[k] # Unhinted => storage'[k] # Unhinted
                              /\ storage[k] = Found => storage'[k] = Found
BY StatusFacts DEF Inv, TypeOK, Changes, SetStatus, Statuses

LEMMA NewsFacts ==
    ASSUME Inv, NEW h, NEW status, Changes(h, status), NEW packet, News(packet, h)
    PROVE  \/ /\ subscribed /\ packet.type = "storage" /\ packet.announce = TRUE
              /\ \E s \in Parties(h) : packet.slots = {s} /\ packet.value = Of(storage', s)
           \/ /\ storage[h] = Unhinted /\ MySlot \in Parties(h) /\ status \in New
              /\ packet.type = "print" /\ packet.hint = h
<1>1. h \in Hint /\ storage' \in Statuses
  BY ChangedStatuses DEF Changes
<1>2. ASSUME NEW s \in Parties(h), packet = SetReply(s, storage')
      PROVE  /\ packet.type = "storage" /\ packet.announce = TRUE
             /\ packet.slots = {s} /\ packet.value = Of(storage', s)
  BY <1>1, <1>2, PartyFacts, SetReplyFacts
<1>3. ASSUME packet = HintPrint(h)
      PROVE  packet.type = "print" /\ packet.hint = h
  BY <1>1, <1>3, PrintFacts
<1> QED BY <1>2, <1>3 DEF News, Changes

\* Each packet is one that was there, or news.
LEMMA OldOrNew ==
    ASSUME NEW h, NEW status, Changes(h, status), NEW i \in DOMAIN inbox'
    PROVE  \/ i \in DOMAIN inbox /\ inbox'[i] = inbox[i]
           \/ /\ i \in (Len(inbox) + 1)..Len(inbox') /\ News(inbox'[i], h)
              /\ \A j \in DOMAIN inbox : j < i /\ j \in DOMAIN inbox' /\ inbox'[j] = inbox[j]
BY DEF Changes, Grows

LEMMA ChangeReal ==
    ASSUME Inv, NEW h, NEW status, Changes(h, status)
    PROVE  AllReal' /\ OnlyRealHints' /\ LinkOK'
<1>1. /\ storage \in Statuses /\ storage' \in Statuses
      /\ \A k \in Hint : /\ storage[k] # Unhinted => storage'[k] # Unhinted
                         /\ storage[k] = Found => storage'[k] = Found
  BY ChangedStatuses
<1>2. UNCHANGED <<save, held>>
  BY DEF Changes, saveVars
<1>3. Real(save.storage)'
  BY <1>1, <1>2 DEF Inv, AllReal, Real
<1>4. ASSUME NEW i \in DOMAIN inbox' PROVE RealPacket(inbox[i])'
  <2>1. CASE i \in DOMAIN inbox /\ inbox'[i] = inbox[i]
    <3>1. RealPacket(inbox[i]) /\ inbox[i] \in Packet
      BY <2>1, LenProperties, ElementOfSeq DEF Inv, AllReal, TypeOK
    <3> QED BY <2>1, <3>1, <1>1, PacketFacts DEF RealPacket, Real
  <2>2. CASE News(inbox'[i], h)
    <3>1. CASE /\ inbox'[i].type = "storage"
               /\ \E s \in Parties(h) : inbox'[i].value = Of(storage', s)
      BY <3>1, <1>1, OfType, StatusFacts DEF RealPacket, Real, Unhinted, Found
    <3>2. CASE /\ storage[h] = Unhinted /\ MySlot \in Parties(h) /\ status \in New
               /\ inbox'[i].type = "print" /\ inbox'[i].hint = h
      <4>1. storage'[h] \in New
        <5>1. h \in Hint
          BY DEF Changes
        <5> QED BY <5>1, <3>2, ChangedStatuses
      <4> QED BY <3>2, <4>1, StatusFacts DEF RealPacket
    <3>3. \/ /\ subscribed /\ inbox'[i].type = "storage" /\ inbox'[i].announce = TRUE
             /\ \E r \in Parties(h) : inbox'[i].slots = {r} /\ inbox'[i].value = Of(storage', r)
          \/ /\ storage[h] = Unhinted /\ MySlot \in Parties(h) /\ status \in New
             /\ inbox'[i].type = "print" /\ inbox'[i].hint = h
      BY <2>2, NewsFacts
    <3> QED BY <3>1, <3>2, <3>3
  <2> QED BY <2>1, <2>2, OldOrNew
<1>5. AllReal'
  BY <1>3, <1>4 DEF AllReal
<1>6. OnlyRealHints'
  <2> SUFFICES ASSUME NEW s \in Slots, NEW k \in Hint, held[s][k] # Unhinted
               PROVE  /\ s \in Parties(k) /\ storage'[k] # Unhinted
                      /\ held[s][k] = Found /\ ~Edited(s, k)' => storage'[k] = Found
    BY <1>2 DEF OnlyRealHints, Known
  <2>1. k \in Known(held[s])
    BY DEF Known
  <2>2. Edited(s, k)' <=> Edited(s, k)
    BY DEF Changes
  <2> QED BY <2>1, <2>2, <1>1 DEF Inv, OnlyRealHints
<1>7. LinkOK'
  BY DEF Inv, Changes, LinkOK
<1> QED BY <1>5, <1>6, <1>7

LEMMA ChangeAnnounced ==
    ASSUME Inv, NEW h, NEW status, Changes(h, status)
    PROVE  AnnouncedOK'
<1> SUFFICES ASSUME NEW k \in Hint, announced[k] # 0
             PROVE  /\ announced[k] = 1 /\ storage'[k] # Unhinted
                    /\ k \in seen \/ Remembered(k)'
  BY DEF Changes, AnnouncedOK, feedVars
<1>1. announced[k] = 1 /\ storage[k] # Unhinted /\ (k \in seen \/ Remembered(k))
  BY DEF Inv, AnnouncedOK
<1>2. storage'[k] # Unhinted
  BY <1>1, ChangedStatuses
<1>3. ASSUME Remembered(k) PROVE Remembered(k)'
  <2>1. Answered' <=> Answered
    BY DEF Answered, Changes
  <2>2. \A j \in DOMAIN inbox : j \in DOMAIN inbox' /\ inbox'[j] = inbox[j]
    BY DEF Changes, Grows
  <2>3. Answered => \E j \in DOMAIN inbox' : Marks(inbox'[j], k)
    BY <1>3, <2>2 DEF Remembered
  <2>4. ASSUME NEW i \in DOMAIN inbox', Announces(inbox'[i], k)
        PROVE  \E j \in DOMAIN inbox' : j < i /\ Marks(inbox'[j], k)
    <3>1. CASE i \in DOMAIN inbox /\ inbox'[i] = inbox[i]
      BY <3>1, <1>3, <2>2, <2>4 DEF Remembered
    <3>2. CASE /\ News(inbox'[i], h)
               /\ \A j \in DOMAIN inbox :
                     j < i /\ j \in DOMAIN inbox' /\ inbox'[j] = inbox[j]
      <4>1. subscribed
        <5>1. ~(storage[h] = Unhinted /\ inbox'[i].type = "print" /\ inbox'[i].hint = h)
          BY <1>1, <2>4 DEF Announces
        <5> QED BY <3>2, <5>1, NewsFacts
      <4>2. \E j \in DOMAIN inbox : Marks(inbox[j], k)
        BY <4>1, <1>3 DEF Remembered, Answered
      <4> QED BY <3>2, <4>2
    <3> QED BY <3>1, <3>2, OldOrNew
  <2>5. \A x : Marks(x, k)' <=> Marks(x, k)
    BY DEF Marks
  <2>6. \A x : Announces(x, k)' <=> Announces(x, k)
    BY DEF Announces
  <2> QED BY <2>1, <2>3, <2>4 DEF Remembered, Marks, Announces
<1> QED BY <1>1, <1>2, <1>3

LEMMA ChangeFollows ==
    ASSUME Inv, NEW h, NEW status, Changes(h, status)
    PROVE  ReadOK'
<1> SUFFICES ASSUME Answered', NEW k \in Hint, k \notin missed', NEW s \in Parties(k),
                    ~Edited(s, k)'
             PROVE  Follows(s, k)'
  BY DEF ReadOK
<1>1. Answered /\ k \notin missed /\ ~Edited(s, k) /\ s \in Slots
  BY PartyFacts DEF Answered, Changes
<1>2. Follows(s, k)
  BY <1>1 DEF Inv, ReadOK
<1>3. \A j \in DOMAIN inbox : j \in DOMAIN inbox' /\ inbox'[j] = inbox[j]
  BY DEF Changes, Grows
<1>4. \A x : Tells(x, s, k)' <=> Tells(x, s, k)
  BY DEF Tells
<1>5. /\ storage \in Statuses /\ storage' \in Statuses
      /\ storage'[k] = IF k = h THEN status ELSE storage[k]
  BY ChangedStatuses
<1>6. ASSUME NEW i \in DOMAIN inbox', News(inbox'[i], h), Tells(inbox'[i], s, k)
      PROVE  Right(Told(inbox'[i], k), storage'[k], s, k)
  <2>1. CASE /\ inbox'[i].type = "storage"
             /\ \E r \in Parties(h) : inbox'[i].slots = {r} /\ inbox'[i].value = Of(storage', r)
    <3>1. inbox'[i].value = Of(storage', s)
      BY <2>1, <1>6 DEF Tells
    <3> QED BY <2>1, <3>1, <1>5, OfType DEF Told, Right
  <2>2. CASE /\ storage[h] = Unhinted /\ MySlot \in Parties(h) /\ status \in New
             /\ inbox'[i].type = "print" /\ inbox'[i].hint = h
    <3>1. k = h /\ s = ReceiverOf[k] /\ Told(inbox'[i], k) = Unspecified
      BY <2>2, <1>6 DEF Told, Tells
    <3>2. storage'[k] \in {Unspecified, Priority}
      BY <3>1, <2>2, <1>5, StatusFacts
    <3> QED BY <3>1, <3>2, <2>2 DEF Right
  <2>3. \/ /\ subscribed /\ inbox'[i].type = "storage" /\ inbox'[i].announce = TRUE
           /\ \E r \in Parties(h) : inbox'[i].slots = {r} /\ inbox'[i].value = Of(storage', r)
        \/ /\ storage[h] = Unhinted /\ MySlot \in Parties(h) /\ status \in New
           /\ inbox'[i].type = "print" /\ inbox'[i].hint = h
    BY <1>6, NewsFacts
  <2> QED BY <2>1, <2>2, <2>3
<1>7. CASE k = h
  <2>1. subscribed
    BY <1>1, <1>7 DEF Answered, Changes
  <2>2. PICK n \in (Len(inbox) + 1)..Len(inbox') : inbox'[n] = SetReply(s, storage')
    BY <2>1, <1>7 DEF Changes
  <2>3. n \in DOMAIN inbox' /\ \A j \in DOMAIN inbox : j < n
    BY <2>2 DEF Changes, Grows
  <2>4. Tells(inbox'[n], s, k)
    BY <2>2, <1>1, <1>5, SetReplyFacts DEF Tells
  <2>5. ASSUME NEW i \in DOMAIN inbox', Tells(inbox'[i], s, k),
               \A j \in DOMAIN inbox' : j > i => ~Tells(inbox'[j], s, k)
        PROVE  Right(Told(inbox'[i], k), storage'[k], s, k)
    <3>1. i \notin DOMAIN inbox
      BY <2>3, <2>4, <2>5 DEF Changes, Grows
    <3>2. News(inbox'[i], h)
      BY <3>1, OldOrNew
    <3> QED BY <3>2, <2>5, <1>6
  <2> QED BY <2>3, <2>4, <2>5 DEF Follows, LastTold, Tells, Told
<1>8. CASE k # h
  <2>1. ASSUME NEW i \in DOMAIN inbox', Tells(inbox'[i], s, k),
               \A j \in DOMAIN inbox' : j > i => ~Tells(inbox'[j], s, k)
        PROVE  Right(Told(inbox'[i], k), storage'[k], s, k)
    <3>1. CASE i \in DOMAIN inbox /\ inbox'[i] = inbox[i]
      <4>1. \A j \in DOMAIN inbox : j > i => ~Tells(inbox[j], s, k)
        BY <2>1, <1>3
      <4> QED BY <3>1, <4>1, <2>1, <1>2, <1>5, <1>8 DEF Follows, LastTold
    <3>2. CASE News(inbox'[i], h)
      BY <3>2, <2>1, <1>6
    <3> QED BY <3>1, <3>2, OldOrNew
  <2>2. ASSUME \A i \in DOMAIN inbox' : ~Tells(inbox'[i], s, k) PROVE Settled(s, k)'
    <3>1. Settled(s, k)
      BY <2>2, <1>2, <1>3 DEF Follows
    <3> QED BY <3>1, <1>5, <1>8 DEF Settled, Saved, Changes, saveVars
  <2> QED BY <2>1, <2>2 DEF Follows, LastTold, Tells, Told
<1> QED BY <1>7, <1>8

\* A slot's hints stay known.
LEMMA KnownStay ==
    ASSUME Inv, NEW h, NEW status, Changes(h, status), NEW s
    PROVE  Known(Of(storage, s)) \subseteq Known(Of(storage', s))
BY ChangedStatuses, OfType DEF Known

-----------------------------------------------------------------------------
(* Requests of the pages. *)

LEMMA PageFacts ==
    ASSUME TypeOK, NEW p \in Pages
    PROVE  /\ pages[p] \in PageState
           /\ pages[p].state \in Purchasing =>
                pages[p] \in [state : Purchasing, slot : Slots, paid : BOOLEAN]
           /\ pages[p].state \in {"sent", "stored"} =>
                pages[p] \in [state : {"sent", "stored"}, slot : Slots, hint : Hint,
                              status : Status, served : {"no", "applied", "ignored"}]
BY DEF TypeOK, PageState, None, Gone, Purchasing

\* A request goes on; the edits stored are the same.
LEMMA PageGoesOn ==
    ASSUME TypeOK, NEW p \in Pages, NEW x \in PageState, pages' = [pages EXCEPT ![p] = x],
           x.state = "stored" \/ pages[p].state = "stored" =>
              /\ x.state = pages[p].state
              /\ x.slot = pages[p].slot /\ x.hint = pages[p].hint
    PROVE  /\ pages' \in [Pages -> PageState]
           /\ pages'[p] = x /\ \A q \in Pages : q # p => pages'[q] = pages[q]
           /\ \A s \in Slots, k \in Hint : Edited(s, k)' <=> Edited(s, k)
<1>1. /\ pages' \in [Pages -> PageState]
      /\ pages'[p] = x /\ \A q \in Pages : q # p => pages'[q] = pages[q]
  BY DEF TypeOK
<1>2. ASSUME NEW s \in Slots, NEW k \in Hint PROVE Edited(s, k)' <=> Edited(s, k)
  BY <1>1 DEF Edited
<1> QED BY <1>1, <1>2

\* What a step that leaves hints and packets alone keeps.
LEMMA HintsAlone ==
    ASSUME Inv,
           UNCHANGED <<storage, saveVars, linkVars, inbox, held, unread, feedVars>>,
           \A s \in Slots, k \in Hint : Edited(s, k) => Edited(s, k)'
    PROVE  LinkOK' /\ AnnouncedOK' /\ AllReal' /\ ReadOK'
<1>1. UNCHANGED <<storage, save, link, requests, subscribed, missed, inbox, held, unread,
                  seen, announced>>
  BY DEF saveVars, linkVars, feedVars
<1>2. LinkOK' /\ AllReal'
  BY <1>1 DEF Inv, LinkOK, AllReal, Real, RealPacket
<1>3. AnnouncedOK'
  BY <1>1 DEF Inv, AnnouncedOK, Remembered, Answered, Announces, Marks
<1>4. \A s \in Slots, k \in Hint : Follows(s, k) => Follows(s, k)'
  BY <1>1 DEF Follows, LastTold, Settled, Saved, Tells, Told
<1>5. ReadOK'
  BY <1>1, <1>4, PartyFacts DEF Inv, ReadOK, Answered
<1> QED BY <1>2, <1>3, <1>5

LEMMA SameHints ==
    ASSUME Inv, UNCHANGED <<storage, held>>,
           \A s \in Slots, k \in Hint : Edited(s, k)' <=> Edited(s, k)
    PROVE  OnlyRealHints'
<1> SUFFICES ASSUME NEW s \in Slots, NEW k \in Hint, held[s][k] # Unhinted
             PROVE  /\ s \in Parties(k) /\ storage[k] # Unhinted
                    /\ held[s][k] = Found /\ ~Edited(s, k)' => storage[k] = Found
  BY DEF OnlyRealHints, Known
<1>1. k \in Known(held[s])
  BY DEF Known
<1> QED BY <1>1 DEF Inv, OnlyRealHints

LEMMA EditBeginsOK ==
    ASSUME Inv, NEW p \in Pages, NEW s \in Slots, NEW h \in Hint, NEW status \in Asked,
           EditBegins(p, s, h, status)
    PROVE  Inv'
<1> DEFINE x == [state |-> "sent", slot |-> s, hint |-> h, status |-> status,
                 served |-> "no"]
<1>1. /\ held[s][h] # Unhinted /\ pages[p] = None
      /\ pages' = [pages EXCEPT ![p] = x]
      /\ UNCHANGED <<serverVars, saveVars, linkVars, inbox, held, used, unread, feedVars,
                     restarts>>
  BY DEF EditBegins
<1>2. x \in PageState /\ x.state = "sent" /\ x.slot = s /\ x.hint = h
  BY DEF PageState, Status
<1>3. pages[p].state = "none"
  BY <1>1 DEF None
<1> HIDE DEF x
<1>4. /\ pages' \in [Pages -> PageState]
      /\ pages'[p] = x /\ \A q \in Pages : q # p => pages'[q] = pages[q]
      /\ \A r \in Slots, k \in Hint : Edited(r, k)' <=> Edited(r, k)
  BY <1>1, <1>2, <1>3, PageGoesOn DEF Inv
<1>5. UNCHANGED <<storage, paid, save, used, unread, held>>
  BY <1>1 DEF serverVars, saveVars
<1>6. TypeOK'
  BY <1>1, <1>4 DEF Inv, TypeOK, serverVars, saveVars, linkVars, feedVars
<1>7. LinkOK' /\ AnnouncedOK' /\ AllReal' /\ ReadOK' /\ OnlyRealHints'
  BY <1>1, <1>4, <1>5, HintsAlone, SameHints
<1>8. PagesReal'
  <2>1. s \in Parties(h) /\ storage[h] # Unhinted
    BY <1>1 DEF Inv, OnlyRealHints, Known
  <2> QED BY <2>1, <1>2, <1>4, <1>5 DEF Inv, PagesReal
<1>9. PaidOK'
  BY <1>5 DEF Inv, PaidOK
<1> QED BY <1>6, <1>7, <1>8, <1>9 DEF Inv

LEMMA PurchaseBeginsOK ==
    ASSUME Inv, NEW p \in Pages, NEW s \in Slots, PurchaseBegins(p, s)
    PROVE  Inv'
<1> DEFINE x == [state |-> "asked", slot |-> s, paid |-> FALSE]
<1>1. /\ pages[p] = None
      /\ pages' = [pages EXCEPT ![p] = x]
      /\ UNCHANGED <<serverVars, saveVars, linkVars, inbox, held, used, unread, feedVars,
                     restarts>>
  BY DEF PurchaseBegins
<1>2. x \in PageState /\ x.state = "asked"
  BY DEF PageState, Purchasing
<1>3. pages[p].state = "none"
  BY <1>1 DEF None
<1> HIDE DEF x
<1>4. /\ pages' \in [Pages -> PageState]
      /\ pages'[p] = x /\ \A q \in Pages : q # p => pages'[q] = pages[q]
      /\ \A r \in Slots, k \in Hint : Edited(r, k)' <=> Edited(r, k)
  BY <1>1, <1>2, <1>3, PageGoesOn DEF Inv
<1>5. UNCHANGED <<storage, paid, save, used, unread, held>>
  BY <1>1 DEF serverVars, saveVars
<1>6. TypeOK'
  BY <1>1, <1>4 DEF Inv, TypeOK, serverVars, saveVars, linkVars, feedVars
<1>7. LinkOK' /\ AnnouncedOK' /\ AllReal' /\ ReadOK' /\ OnlyRealHints'
  BY <1>1, <1>4, <1>5, HintsAlone, SameHints
<1>8. PagesReal'
  BY <1>1, <1>2, <1>4, <1>5 DEF Inv, PagesReal
<1>9. PaidOK'
  BY <1>5 DEF Inv, PaidOK
<1> QED BY <1>6, <1>7, <1>8, <1>9 DEF Inv

\* A request ends, failed or done, other than with an edit stored.
LEMMA PageEndsOK ==
    ASSUME Inv, NEW p \in Pages,
           EditFails(p) \/ PurchaseConfirmed(p) \/ PurchaseFails(p)
    PROVE  Inv'
<1>1. PICK x \in {Gone, [pages[p] EXCEPT !.state = "over"]} :
         /\ pages' = [pages EXCEPT ![p] = x]
         /\ x # Gone => pages[p].state \in Purchasing
  BY DEF EditFails, PurchaseConfirmed, PurchaseFails, Inv, TypeOK, Purchasing
<1>2. /\ pages[p].state \in {"sent", "asked", "granted"}
      /\ UNCHANGED <<serverVars, saveVars, linkVars, inbox, held, unread, feedVars,
                     restarts>>
  BY DEF EditFails, PurchaseConfirmed, PurchaseFails
<1>3. x \in PageState /\ x.state \in {"gone", "over"}
  <2>1. CASE x = Gone
    BY <2>1 DEF PageState, Gone
  <2>2. CASE x # Gone
    <3>1. pages[p] \in [state : Purchasing, slot : Slots, paid : BOOLEAN]
      BY <2>2, <1>1, PageFacts DEF Inv
    <3>2. x \in [state : Purchasing, slot : Slots, paid : BOOLEAN] /\ x.state = "over"
      BY <3>1, <2>2, <1>1 DEF Purchasing
    <3> QED BY <3>2 DEF PageState
  <2> QED BY <2>1, <2>2
<1>4. /\ pages' \in [Pages -> PageState]
      /\ pages'[p] = x /\ \A q \in Pages : q # p => pages'[q] = pages[q]
      /\ \A r \in Slots, k \in Hint : Edited(r, k)' <=> Edited(r, k)
  BY <1>1, <1>2, <1>3, PageGoesOn DEF Inv
<1>5. UNCHANGED <<storage, paid, save, unread, held>>
  BY <1>2 DEF serverVars, saveVars
<1>6. used' \in [Slots -> Nat] /\ \A s \in Slots : used'[s] >= used[s]
  <2>1. used \in [Slots -> Nat]
    BY DEF Inv, TypeOK
  <2>2. CASE UNCHANGED used
    BY <2>1, <2>2
  <2>3. CASE used' = [used EXCEPT ![pages[p].slot] = @ + 1]
    <3>1. ASSUME NEW s \in Slots PROVE used'[s] \in {used[s], used[s] + 1}
      BY <2>1, <2>3
    <3>2. \A s \in Slots : used[s] \in Nat /\ used'[s] \in Nat /\ used'[s] >= used[s]
      BY <2>1, <3>1
    <3> QED BY <2>1, <2>3, <3>2
  <2> QED BY <2>2, <2>3 DEF EditFails, PurchaseConfirmed, PurchaseFails
<1>7. TypeOK'
  BY <1>2, <1>4, <1>6 DEF Inv, TypeOK, serverVars, saveVars, linkVars, feedVars
<1>8. LinkOK' /\ AnnouncedOK' /\ AllReal' /\ ReadOK' /\ OnlyRealHints'
  BY <1>2, <1>4, <1>5, HintsAlone, SameHints DEF serverVars
<1>9. PagesReal'
  BY <1>3, <1>4, <1>5 DEF Inv, PagesReal
<1>10. PaidOK'
  <2>1. \A s \in Slots : save.paid[s] \in Nat /\ used[s] \in Nat
    BY DEF Inv, TypeOK
  <2>2. ASSUME ~unread, NEW s \in Slots \ Quiet PROVE used'[s] >= save.paid[s]
    <3>1. used[s] >= save.paid[s]
      BY <2>2 DEF Inv, PaidOK
    <3> QED BY <3>1, <2>1, <1>6
  <2> QED BY <2>2, <1>5 DEF Inv, PaidOK
<1> QED BY <1>7, <1>8, <1>9, <1>10 DEF Inv

LEMMA EditStoresOK ==
    ASSUME Inv, NEW p \in Pages, EditStores(p)
    PROVE  Inv'
<1> DEFINE x == [pages[p] EXCEPT !.state = "stored"]
<1>1. /\ pages[p].state = "sent"
      /\ pages' = [pages EXCEPT ![p] = x]
      /\ held' = [held EXCEPT ![pages[p].slot][pages[p].hint] = pages[p].status]
      /\ UNCHANGED <<serverVars, saveVars, linkVars, inbox, used, unread, feedVars,
                     restarts>>
  BY DEF EditStores, Inv, TypeOK
<1>2. pages[p] \in [state : {"sent", "stored"}, slot : Slots, hint : Hint,
                    status : Status, served : {"no", "applied", "ignored"}]
  BY <1>1, PageFacts DEF Inv
<1> PICK s \in Slots, h \in Hint : s = pages[p].slot /\ h = pages[p].hint
  BY <1>2
<1>3. x \in PageState /\ x.state = "stored" /\ x.slot = s /\ x.hint = h
      /\ s \in Slots /\ h \in Hint /\ pages[p].status \in Status
  BY <1>2 DEF PageState
<1>4. s \in Parties(h) /\ storage[h] # Unhinted
  BY <1>1 DEF Inv, PagesReal
<1> HIDE DEF x
<1>5. /\ pages' \in [Pages -> PageState]
      /\ pages'[p] = x /\ \A q \in Pages : q # p => pages'[q] = pages[q]
  BY <1>1, <1>3 DEF Inv, TypeOK
<1>6. /\ \A r \in Slots, k \in Hint : Edited(r, k) => Edited(r, k)'
      /\ Edited(s, h)'
      /\ \A r \in Slots, k \in Hint : r # s \/ k # h => (Edited(r, k)' <=> Edited(r, k))
  BY <1>1, <1>3, <1>5 DEF Edited
<1>7. UNCHANGED <<storage, paid, save, used, unread, link, requests, subscribed, missed,
                  inbox, seen, announced>>
  BY <1>1 DEF serverVars, saveVars, linkVars, feedVars
<1>8. /\ held' \in [Slots -> Statuses]
      /\ \A r \in Slots, k \in Hint : r # s \/ k # h => held'[r][k] = held[r][k]
  BY <1>1, <1>3 DEF Inv, TypeOK, Statuses
<1>9. TypeOK'
  BY <1>1, <1>5, <1>8 DEF Inv, TypeOK, serverVars, saveVars, linkVars, feedVars
<1>10. LinkOK' /\ AllReal' /\ AnnouncedOK'
  BY <1>7 DEF Inv, LinkOK, AllReal, Real, RealPacket, AnnouncedOK, Remembered, Answered,
              Announces, Marks
<1>11. OnlyRealHints'
  <2> SUFFICES ASSUME NEW r \in Slots, NEW k \in Hint, held'[r][k] # Unhinted
               PROVE  /\ r \in Parties(k) /\ storage[k] # Unhinted
                      /\ held'[r][k] = Found /\ ~Edited(r, k)' => storage[k] = Found
    BY <1>7 DEF OnlyRealHints, Known
  <2>1. CASE r = s /\ k = h
    BY <2>1, <1>4, <1>6
  <2>2. CASE r # s \/ k # h
    <3>1. k \in Known(held[r])
      BY <2>2, <1>8 DEF Known
    <3> QED BY <3>1, <2>2, <1>6, <1>8 DEF Inv, OnlyRealHints
  <2> QED BY <2>1, <2>2
<1>12. ReadOK'
  <2> SUFFICES ASSUME Answered', NEW k \in Hint, k \notin missed', NEW r \in Parties(k),
                      ~Edited(r, k)'
               PROVE  Follows(r, k)'
    BY DEF ReadOK
  <2>1. r \in Slots /\ Answered /\ k \notin missed /\ ~Edited(r, k)
    BY <1>6, <1>7, PartyFacts DEF Answered
  <2>2. Follows(r, k)
    BY <2>1 DEF Inv, ReadOK
  <2>3. held'[r][k] = held[r][k]
    BY <2>1, <1>6, <1>8
  <2> QED BY <2>2, <2>3, <1>7 DEF Follows, LastTold, Settled, Saved, Tells, Told
<1>13. PagesReal'
  BY <1>3, <1>4, <1>5, <1>7 DEF Inv, PagesReal
<1>14. PaidOK'
  BY <1>7 DEF Inv, PaidOK
<1> QED BY <1>9, <1>10, <1>11, <1>12, <1>13, <1>14 DEF Inv

-----------------------------------------------------------------------------
(* The server. *)

\* A change told is a change in the sense above.
LEMMA TellChanges ==
    ASSUME Inv, NEW h \in Hint, NEW status \in Status, NEW prints,
           storage[h] # Found, SetStatus(h, status),
           storage[h] = Unhinted => status \in New,
           prints \in {<<>>, <<HintPrint(h)>>},
           prints # <<>> => storage[h] = Unhinted /\ MySlot \in Parties(h),
           Tell(h, prints),
           UNCHANGED <<saveVars, link, links, requests, subscribed, held, used, unread,
                       feedVars, restarts>>,
           \A s \in Slots, k \in Hint : Edited(s, k)' <=> Edited(s, k)
    PROVE  Changes(h, status)
<1>1. TypeOK /\ (subscribed => link)
  BY DEF Inv, LinkOK
<1>2. storage' \in Statuses
  BY <1>1 DEF TypeOK, SetStatus, Statuses
<1>3. /\ Grows
      /\ ~link => inbox' = inbox
      /\ \A i \in (Len(inbox) + 1)..Len(inbox') : News(inbox'[i], h)
      /\ link /\ subscribed => \A s \in Parties(h) :
           \E i \in (Len(inbox) + 1)..Len(inbox') : inbox'[i] = SetReply(s, storage')
      /\ missed' = IF requests = <<"SetNotify">> THEN missed \cup {h} ELSE missed
  BY <1>1, <1>2, TellGrows
<1> QED BY <1>1, <1>3 DEF Changes

\* What a change keeps, whatever becomes of requests and payments.
LEMMA ChangeKeeps ==
    ASSUME Inv, NEW h, NEW status, Changes(h, status),
           paid' \in [Slots -> Nat], pages' \in [Pages -> PageState]
    PROVE  /\ TypeOK' /\ AllReal' /\ OnlyRealHints' /\ LinkOK' /\ AnnouncedOK' /\ ReadOK'
<1>1. TypeOK'
  BY ChangedStatuses DEF Inv, TypeOK, Changes, Grows, saveVars, feedVars
<1> QED BY <1>1, ChangeReal, ChangeAnnounced, ChangeFollows

\* A slot's payment, of a hint it then has.
LEMMA PaymentKept ==
    ASSUME Inv, NEW h, NEW status, Changes(h, status),
           \A s \in Slots : paid'[s] # 0 /\ paid[s] = 0 => Known(Of(storage', s)) # {}
    PROVE  PaidOK'
<1>1. \A s \in Slots : Known(Of(storage, s)) \subseteq Known(Of(storage', s))
  BY KnownStay
<1>2. \A s \in Slots : paid'[s] # 0 => Known(Of(storage', s)) # {}
  BY <1>1 DEF Inv, PaidOK
<1>3. UNCHANGED <<save, used, unread>>
  BY DEF Changes, saveVars
<1> QED BY <1>2, <1>3 DEF Inv, PaidOK

LEMMA FindItemOK ==
    ASSUME Inv, NEW h \in Hint, FindItem(h)
    PROVE  Inv'
<1>1. UNCHANGED <<paid, saveVars, link, links, requests, subscribed, held, used, unread,
                  feedVars, pages, restarts>>
  BY DEF FindItem
<1>2. \A s \in Slots, k \in Hint : Edited(s, k)' <=> Edited(s, k)
  BY <1>1 DEF Edited
<1>3. storage[h] \notin {Unhinted, Found} /\ SetStatus(h, Found) /\ Tell(h, <<>>)
  BY DEF FindItem
<1>4. Changes(h, Found)
  BY <1>1, <1>2, <1>3, StatusFacts, TellChanges
<1>5. TypeOK' /\ AllReal' /\ OnlyRealHints' /\ LinkOK' /\ AnnouncedOK' /\ ReadOK'
  BY <1>1, <1>4, ChangeKeeps DEF Inv, TypeOK
<1>6. PaidOK'
  BY <1>1, <1>4, PaymentKept
<1>7. PagesReal'
  <2>1. \A k \in Hint : storage[k] # Unhinted => storage'[k] # Unhinted
    BY <1>4, ChangedStatuses
  <2>2. \A p \in Pages : pages[p].state \in {"sent", "stored"} => pages[p].hint \in Hint
    BY PageFacts DEF Inv
  <2> QED BY <2>1, <2>2, <1>1 DEF Inv, PagesReal
<1> QED BY <1>5, <1>6, <1>7 DEF Inv

\* The requests a new hint's print reaches are purchases; the edits are as they were.
LEMMA RepliedFacts ==
    ASSUME TypeOK, NEW h \in Hint, NEW ps \in [Pages -> PageState],
           \A p \in Pages :
              \/ ps[p] = pages[p]
              \/ ps[p].state \in Purchasing /\ pages[p].state \in Purchasing,
           pages' = Replied(h, ps)
    PROVE  /\ pages' \in [Pages -> PageState]
           /\ \A p \in Pages :
                pages[p].state \in {"sent", "stored"} \/ pages'[p].state \in {"sent", "stored"}
                   => pages'[p] = pages[p]
<1>1. ASSUME NEW p \in Pages
      PROVE  /\ pages'[p] \in PageState
             /\ \/ pages'[p] = pages[p]
                \/ pages'[p].state \in Purchasing /\ pages[p].state \in Purchasing
  <2>1. CASE pages'[p] = ps[p]
    BY <2>1
  <2>2. CASE ps[p].state = "asked" /\ pages'[p] = [ps[p] EXCEPT !.state = "granted"]
    <3>1. ps[p] \in [state : Purchasing, slot : Slots, paid : BOOLEAN]
      BY <2>2 DEF PageState, None, Gone, Purchasing
    <3>2. pages'[p] \in [state : Purchasing, slot : Slots, paid : BOOLEAN]
      BY <3>1, <2>2 DEF Purchasing
    <3>3. pages[p].state \in Purchasing
      BY <3>1
    <3> QED BY <3>2, <3>3 DEF PageState
  <2>3. pages'[p] = IF ps[p].state = "asked" /\ ps[p].slot \in Parties(h)
                    THEN [ps[p] EXCEPT !.state = "granted"] ELSE ps[p]
    BY DEF Replied
  <2> QED BY <2>1, <2>2, <2>3
<1>2. pages' \in [Pages -> PageState]
  BY <1>1 DEF Replied
<1>3. "sent" \notin Purchasing /\ "stored" \notin Purchasing
  BY DEF Purchasing
<1> QED BY <1>1, <1>2, <1>3

\* A hint is made, paid for by one of its parties if at all.
LEMMA NewHintOK ==
    ASSUME Inv, NEW h \in Hint, NewHint(h),
           paid' \in [Slots -> Nat],
           \A s \in Slots : paid'[s] # paid[s] => s \in Parties(h),
           pages' \in [Pages -> PageState],
           \A p \in Pages :
              pages[p].state \in {"sent", "stored"} \/ pages'[p].state \in {"sent", "stored"}
                 => pages'[p] = pages[p]
    PROVE  Inv'
<1> DEFINE prints == IF MySlot \in Parties(h) THEN <<HintPrint(h)>> ELSE <<>>
<1>1. /\ storage[h] = Unhinted /\ Tell(h, prints)
      /\ UNCHANGED <<saveVars, link, links, requests, subscribed, held, used, unread,
                     feedVars, restarts>>
  BY DEF NewHint
<1>2. PICK status \in New : SetStatus(h, status)
  BY HintAssumption DEF NewHint
<1>3. prints \in {<<>>, <<HintPrint(h)>>} /\ (prints # <<>> => MySlot \in Parties(h))
  OBVIOUS
<1> HIDE DEF prints
<1>4. \A s \in Slots, k \in Hint : Edited(s, k)' <=> Edited(s, k)
  BY DEF Edited
<1>5. status \in Status /\ storage[h] # Found
  BY <1>1, StatusFacts
<1>6. Changes(h, status)
  BY <1>1, <1>2, <1>3, <1>4, <1>5, TellChanges
<1>7. TypeOK' /\ AllReal' /\ OnlyRealHints' /\ LinkOK' /\ AnnouncedOK' /\ ReadOK'
  BY <1>6, ChangeKeeps
<1>8. storage'[h] = status /\ storage' \in Statuses
  BY <1>6, ChangedStatuses
<1>9. PaidOK'
  <2>1. ASSUME NEW s \in Slots, paid'[s] # 0, paid[s] = 0
        PROVE  Known(Of(storage', s)) # {}
    <3>1. s \in Parties(h)
      BY <2>1
    <3>2. h \in Known(Of(storage', s))
      BY <3>1, <1>5, <1>8, OfType, StatusFacts DEF Known
    <3> QED BY <3>2
  <2> QED BY <2>1, <1>6, PaymentKept
<1>10. PagesReal'
  <2>1. \A k \in Hint : storage[k] # Unhinted => storage'[k] # Unhinted
    BY <1>6, ChangedStatuses
  <2>2. \A p \in Pages : pages[p].state \in {"sent", "stored"} => pages[p].hint \in Hint
    BY PageFacts DEF Inv
  <2> QED BY <2>1, <2>2 DEF Inv, PagesReal
<1> QED BY <1>7, <1>9, <1>10 DEF Inv

LEMMA CreateHintOK ==
    ASSUME Inv, NEW h \in Hint, CreateHint(h)
    PROVE  Inv'
<1>1. NewHint(h) /\ pages' = Replied(h, pages) /\ UNCHANGED paid
  BY DEF CreateHint
<1>2. TypeOK /\ pages \in [Pages -> PageState] /\ paid' \in [Slots -> Nat]
  BY <1>1 DEF Inv, TypeOK
<1>3. /\ pages' \in [Pages -> PageState]
      /\ \A p \in Pages :
           pages[p].state \in {"sent", "stored"} \/ pages'[p].state \in {"sent", "stored"}
              => pages'[p] = pages[p]
  BY <1>1, <1>2, RepliedFacts
<1> QED BY <1>1, <1>2, <1>3, NewHintOK

LEMMA GrantPurchaseOK ==
    ASSUME Inv, NEW p \in Pages, NEW h \in Hint, GrantPurchase(p, h)
    PROVE  Inv'
<1> DEFINE x == [pages[p] EXCEPT !.paid = TRUE]
           ps == [pages EXCEPT ![p] = x]
<1>1. /\ pages[p].state \in Purchasing /\ pages[p].slot \in Parties(h)
      /\ NewHint(h)
      /\ paid' = [paid EXCEPT ![pages[p].slot] = @ + 1]
      /\ pages' = Replied(h, ps)
  BY DEF GrantPurchase, Inv, TypeOK
<1>2. TypeOK /\ pages \in [Pages -> PageState] /\ paid \in [Slots -> Nat]
  BY DEF Inv, TypeOK
<1>3. pages[p] \in [state : Purchasing, slot : Slots, paid : BOOLEAN]
  BY <1>1, <1>2, PageFacts
<1>4. x \in PageState /\ x.state \in Purchasing
  BY <1>3 DEF PageState
<1> HIDE DEF x
<1>5. /\ ps \in [Pages -> PageState]
      /\ \A q \in Pages : \/ ps[q] = pages[q]
                          \/ ps[q].state \in Purchasing /\ pages[q].state \in Purchasing
  BY <1>1, <1>2, <1>4
<1> HIDE DEF ps
<1>6. /\ pages' \in [Pages -> PageState]
      /\ \A q \in Pages :
           pages[q].state \in {"sent", "stored"} \/ pages'[q].state \in {"sent", "stored"}
              => pages'[q] = pages[q]
  BY <1>1, <1>2, <1>5, RepliedFacts
<1>7. /\ paid' \in [Slots -> Nat]
      /\ \A s \in Slots : paid'[s] # paid[s] => s \in Parties(h)
  <2>1. PICK s \in Slots : s = pages[p].slot
    BY <1>3
  <2>2. paid' = [paid EXCEPT ![s] = @ + 1] /\ s \in Parties(h)
    BY <1>1, <2>1
  <2>3. paid[s] + 1 \in Nat
    BY <1>2
  <2> QED BY <1>2, <2>2, <2>3
<1> QED BY <1>1, <1>6, <1>7, NewHintOK

LEMMA ServeEditOK ==
    ASSUME Inv, NEW p \in Pages, ServeEdit(p)
    PROVE  Inv'
<1>1. /\ pages[p].state \in {"sent", "stored"}
      /\ pages[p] \in [state : {"sent", "stored"}, slot : Slots, hint : Hint,
                       status : Status, served : {"no", "applied", "ignored"}]
  BY PageFacts DEF ServeEdit, Inv
<1> PICK s \in Slots, h \in Hint, status \in Status :
        s = pages[p].slot /\ h = pages[p].hint /\ status = pages[p].status
  BY <1>1
<1>2. PICK served \in {"applied", "ignored"} :
        pages' = [pages EXCEPT ![p] = [pages[p] EXCEPT !.served = served]]
  BY DEF ServeEdit, Inv, TypeOK
<1> DEFINE x == [pages[p] EXCEPT !.served = served]
<1>3. x \in PageState /\ x.state = pages[p].state /\ x.slot = s /\ x.hint = h
  BY <1>1 DEF PageState
<1>4. pages' = [pages EXCEPT ![p] = x]
  BY <1>2
<1> HIDE DEF x
<1>5. /\ pages' \in [Pages -> PageState]
      /\ pages'[p] = x /\ \A q \in Pages : q # p => pages'[q] = pages[q]
      /\ \A r \in Slots, k \in Hint : Edited(r, k)' <=> Edited(r, k)
  BY <1>3, <1>4, PageGoesOn DEF Inv
<1>6. UNCHANGED <<paid, saveVars, link, links, requests, subscribed, held, used, unread,
                  feedVars, restarts>>
  BY DEF ServeEdit
<1>7. s \in Parties(h) /\ storage[h] # Unhinted
  BY <1>1 DEF Inv, PagesReal
<1>8. PagesReal' \/ ~(\A k \in Hint : storage[k] # Unhinted => storage'[k] # Unhinted)
  <2>1. \A q \in Pages : pages[q].state \in {"sent", "stored"} => pages[q].hint \in Hint
    BY PageFacts DEF Inv
  <2> QED BY <2>1, <1>1, <1>3, <1>5, <1>7 DEF Inv, PagesReal
<1>9. CASE UNCHANGED <<storage, inbox, missed>>
  <2>1. UNCHANGED <<storage, saveVars, linkVars, inbox, held, unread, feedVars, used, paid,
                    save>>
    BY <1>6, <1>9 DEF linkVars, saveVars
  <2>2. TypeOK'
    BY <1>5, <1>6, <1>9 DEF Inv, TypeOK, saveVars, feedVars
  <2>3. LinkOK' /\ AnnouncedOK' /\ AllReal' /\ ReadOK' /\ OnlyRealHints'
    BY <2>1, <1>5, HintsAlone, SameHints
  <2>4. PaidOK'
    BY <2>1 DEF Inv, PaidOK
  <2> QED BY <2>1, <2>2, <2>3, <2>4, <1>8 DEF Inv
<1>10. CASE /\ ~(storage[h] = Found \/ status \in {Found, storage[h]})
            /\ SetStatus(h, status) /\ Tell(h, <<>>)
  <2>1. Changes(h, status)
    BY <1>5, <1>6, <1>7, <1>10, TellChanges
  <2>2. TypeOK' /\ AllReal' /\ OnlyRealHints' /\ LinkOK' /\ AnnouncedOK' /\ ReadOK'
    BY <2>1, <1>5, <1>6, ChangeKeeps DEF Inv, TypeOK
  <2>3. PaidOK'
    BY <2>1, <1>6, PaymentKept
  <2>4. PagesReal'
    BY <2>1, <1>8, ChangedStatuses
  <2> QED BY <2>2, <2>3, <2>4 DEF Inv
<1> QED BY <1>9, <1>10 DEF ServeEdit

LEMMA ServeGetOK ==
    ASSUME Inv, ServeGet
    PROVE  Inv'
<1>1. /\ requests # <<>> /\ Head(requests) = "Get" /\ requests' = Tail(requests)
      /\ inbox' = Append(inbox, Retrieved)
      /\ UNCHANGED <<serverVars, saveVars, link, links, subscribed, missed, held, used,
                     unread, feedVars, pages, restarts>>
  BY DEF ServeGet
<1>2. requests = <<"Get", "SetNotify">> /\ requests' = <<"SetNotify">>
      /\ ~subscribed /\ link
  <2>1. /\ requests \in {<<"Get", "SetNotify">>, <<"SetNotify">>}
        /\ ~subscribed /\ link
    BY <1>1 DEF Inv, LinkOK
  <2>2. requests # <<"SetNotify">>
    BY <1>1
  <2>3. requests = <<"Get", "SetNotify">>
    BY <2>1, <2>2
  <2>4. Tail(<<"Get", "SetNotify">>) = <<"SetNotify">>
    OBVIOUS
  <2> QED BY <2>1, <2>3, <2>4, <1>1
<1>3. UNCHANGED <<storage, paid, save, used, unread, held, pages, announced, seen, missed>>
  BY <1>1 DEF serverVars, saveVars, feedVars
<1>4. /\ Retrieved \in Packet /\ Retrieved.type = "storage"
      /\ Retrieved.slots = Slots /\ Retrieved.value = storage /\ Retrieved.announce = FALSE
  BY RetrievedFacts DEF Inv, TypeOK
<1> DEFINE x == Retrieved
           n == Len(inbox) + 1
<1> HIDE DEF x
<1>5. inbox' = Append(inbox, x) /\ x \in Packet /\ inbox \in Seq(Packet)
  BY <1>1, <1>4 DEF x, Inv, TypeOK
<1>6. /\ inbox' \in Seq(Packet)
      /\ Len(inbox) \in Nat /\ DOMAIN inbox = 1..Len(inbox) /\ DOMAIN inbox' = 1..n
      /\ \A i \in 1..Len(inbox) : inbox'[i] = inbox[i]
      /\ inbox'[n] = x
  BY <1>5, AppendProperties, LenProperties
<1>7. /\ \A i \in DOMAIN inbox' : (i \in DOMAIN inbox /\ inbox'[i] = inbox[i]) \/ i = n
      /\ \A i \in DOMAIN inbox : i < n /\ i \in DOMAIN inbox' /\ inbox'[i] = inbox[i]
      /\ n \in DOMAIN inbox'
  BY <1>6
<1> HIDE DEF n
<1>8. TypeOK'
  BY <1>1, <1>2, <1>6 DEF Inv, TypeOK, serverVars, saveVars, feedVars
<1>9. LinkOK'
  BY <1>1, <1>2 DEF LinkOK
<1>10. AllReal'
  <2>1. \A i \in DOMAIN inbox' : RealPacket(inbox'[i])
    BY <1>4, <1>6, <1>7 DEF Inv, AllReal, RealPacket, Real, x
  <2> QED BY <2>1, <1>3 DEF Inv, AllReal, RealPacket, Real
<1>11. AnnouncedOK'
  <2> SUFFICES ASSUME NEW k \in Hint, announced[k] # 0
               PROVE  /\ announced[k] = 1 /\ storage[k] # Unhinted
                      /\ k \in seen \/ Remembered(k)'
    BY <1>3 DEF AnnouncedOK
  <2>1. announced[k] = 1 /\ storage[k] # Unhinted /\ (k \in seen \/ Remembered(k))
    BY DEF Inv, AnnouncedOK
  <2>2. Marks(inbox'[n], k) /\ ~Announces(inbox'[n], k)
    BY <2>1, <1>4, <1>6, PartyFacts DEF Marks, Announces, x
  <2>3. ASSUME Remembered(k) PROVE Remembered(k)'
    <3>1. ASSUME NEW i \in DOMAIN inbox', Announces(inbox'[i], k)
          PROVE  \E j \in DOMAIN inbox' : j < i /\ Marks(inbox'[j], k)
      <4>1. i \in DOMAIN inbox /\ inbox'[i] = inbox[i]
        BY <3>1, <2>2, <1>7
      <4>2. PICK j \in DOMAIN inbox : j < i /\ Marks(inbox[j], k)
        BY <4>1, <3>1, <2>3 DEF Remembered
      <4> QED BY <4>2, <1>7
    <3> QED BY <3>1, <2>2, <1>7 DEF Remembered, Announces, Marks
  <2> QED BY <2>1, <2>3
<1>12. ReadOK'
  <2> SUFFICES ASSUME NEW k \in Hint, NEW s \in Parties(k) PROVE Follows(s, k)'
    BY DEF ReadOK
  <2>1. Tells(inbox'[n], s, k) /\ Right(Told(inbox'[n], k), storage[k], s, k)
    BY <1>4, <1>6, PartyFacts DEF Tells, Told, Right, x
  <2>2. ASSUME NEW i \in DOMAIN inbox',
               \A j \in DOMAIN inbox' : j > i => ~Tells(inbox'[j], s, k)
        PROVE  i = n
    <3>1. CASE i \in DOMAIN inbox
      BY <3>1, <2>1, <2>2, <1>6, <1>7
    <3> QED BY <3>1, <1>7
  <2> QED BY <2>1, <2>2, <1>3, <1>7 DEF Follows, LastTold, Tells, Told
<1>13. OnlyRealHints' /\ PagesReal' /\ PaidOK'
  BY <1>3 DEF Inv, OnlyRealHints, Known, Edited, PagesReal, PaidOK
<1> QED BY <1>8, <1>9, <1>10, <1>11, <1>12, <1>13 DEF Inv

LEMMA ServeSetNotifyOK ==
    ASSUME Inv, ServeSetNotify
    PROVE  Inv'
<1>1. /\ requests # <<>> /\ Head(requests) = "SetNotify" /\ requests' = Tail(requests)
      /\ subscribed' = TRUE
      /\ UNCHANGED <<serverVars, saveVars, link, links, missed, inbox, held, used, unread,
                     feedVars, pages, restarts>>
  BY DEF ServeSetNotify
<1>2. requests = <<"SetNotify">> /\ requests' = <<>> /\ link
  <2>1. requests \in {<<"Get", "SetNotify">>, <<"SetNotify">>} /\ link
    BY <1>1 DEF Inv, LinkOK
  <2>2. requests # <<"Get", "SetNotify">>
    BY <1>1
  <2>3. requests = <<"SetNotify">>
    BY <2>1, <2>2
  <2>4. Tail(<<"SetNotify">>) = <<>>
    OBVIOUS
  <2> QED BY <2>1, <2>3, <2>4, <1>1
<1>3. UNCHANGED <<storage, paid, save, used, unread, held, pages, announced, seen, missed,
                  inbox>>
  BY <1>1 DEF serverVars, saveVars, feedVars
<1>4. Answered /\ Answered'
  BY <1>1, <1>2 DEF Answered
<1>5. TypeOK'
  BY <1>1, <1>2 DEF Inv, TypeOK, serverVars, saveVars, feedVars
<1>6. LinkOK'
  BY <1>1, <1>2 DEF LinkOK
<1>7. AllReal' /\ OnlyRealHints' /\ PagesReal' /\ PaidOK'
  BY <1>3 DEF Inv, AllReal, RealPacket, Real, OnlyRealHints, Known, Edited, PagesReal, PaidOK
<1>8. AnnouncedOK'
  BY <1>3, <1>4 DEF Inv, AnnouncedOK, Remembered, Announces, Marks
<1>9. \A k \in Hint, s \in Slots : Follows(s, k)' <=> Follows(s, k)
  BY <1>3 DEF Follows, LastTold, Settled, Saved, Tells, Told
<1>10. ReadOK'
  BY <1>3, <1>4, <1>9, PartyFacts DEF Inv, ReadOK, Edited
<1> QED BY <1>5, <1>6, <1>7, <1>8, <1>10 DEF Inv

LEMMA WriteSaveOK ==
    ASSUME Inv, WriteSave
    PROVE  Inv'
<1>1. /\ saves < MaxSaves /\ saves' = saves + 1
      /\ save' = [storage |-> storage, paid |-> paid]
      /\ unread' = TRUE
      /\ UNCHANGED <<serverVars, linkVars, inbox, held, used, feedVars, pages, restarts>>
  BY DEF WriteSave
<1>2. UNCHANGED <<storage, paid, link, requests, subscribed, missed, inbox, held, used,
                  pages, seen, announced>>
  BY <1>1 DEF serverVars, linkVars, feedVars
<1>3. save'.storage = storage /\ save'.paid = paid
  BY <1>1
<1>4. TypeOK'
  BY <1>1, HintAssumption DEF Inv, TypeOK, serverVars, linkVars, feedVars
<1>5. LinkOK' /\ AllReal' /\ OnlyRealHints' /\ PagesReal'
  BY <1>2, <1>3 DEF Inv, LinkOK, AllReal, RealPacket, Real, OnlyRealHints, Known, Edited,
              PagesReal
<1>6. AnnouncedOK'
  BY <1>2 DEF Inv, AnnouncedOK, Remembered, Answered, Announces, Marks
<1>7. PaidOK'
  BY <1>1, <1>2, <1>3 DEF Inv, PaidOK
<1>8. ReadOK'
  <2> SUFFICES ASSUME Answered', NEW k \in Hint, k \notin missed', NEW s \in Parties(k),
                      ~Edited(s, k)'
               PROVE  Follows(s, k)'
    BY DEF ReadOK
  <2>1. s \in Slots /\ Follows(s, k)
    BY <1>2, PartyFacts DEF Inv, ReadOK, Answered, Edited
  <2>2. ASSUME Settled(s, k), ~Right(held[s][k], storage[k], s, k)
        PROVE  s \notin Quiet /\ storage[k] # Unhinted
    <3>1. s \notin Quiet
      BY <2>2 DEF Settled, Saved
    <3>2. CASE held[s][k] # Unhinted
      <4>1. k \in Known(held[s])
        BY <3>2 DEF Known
      <4> QED BY <3>1, <4>1, <2>1 DEF Inv, OnlyRealHints
    <3>3. CASE held[s][k] = Unhinted
      BY <3>1, <3>3, <2>2 DEF Right
    <3> QED BY <3>2, <3>3
  <2>3. ASSUME Settled(s, k) PROVE Settled(s, k)'
    <3>1. CASE Right(held[s][k], storage[k], s, k)
      BY <3>1, <1>2 DEF Settled
    <3>2. CASE ~Right(held[s][k], storage[k], s, k)
      <4>1. Of(storage, s)[k] = storage[k]
        BY OfType DEF Inv, TypeOK
      <4>2. k \in Known(Of(storage, s))
        BY <4>1, <3>2, <2>2, <2>3 DEF Known
      <4> QED BY <4>2, <3>2, <2>2, <2>3, <1>1, <1>3 DEF Settled, Saved
    <3> QED BY <3>1, <3>2
  <2>4. LastTold(s, k)'
    BY <2>1, <1>2 DEF Follows, LastTold, Tells, Told
  <2>5. (\A i \in DOMAIN inbox : ~Tells(inbox[i], s, k))' => Settled(s, k)'
    BY <2>1, <2>3, <1>2 DEF Follows, Tells
  <2> QED BY <2>4, <2>5 DEF Follows
<1> QED BY <1>4, <1>5, <1>6, <1>7, <1>8 DEF Inv

-----------------------------------------------------------------------------
(* Reading: the first packet goes, or stays with less to do. *)

\* What either keeps of the others.
AfterReading ==
    /\ AllReal' /\ LinkOK'
    /\ \A k \in Hint, s \in Slots : LastTold(s, k) => LastTold(s, k)'
    /\ \A k \in Hint, s \in Slots :
          /\ LastTold(s, k)
          /\ \A i \in DOMAIN inbox' : ~Tells(inbox'[i], s, k)
          => \/ Tells(inbox[1], s, k) /\ Right(Told(inbox[1], k), storage[k], s, k)
             \/ \A i \in DOMAIN inbox : ~Tells(inbox[i], s, k)

LEMMA PoppedReading ==
    ASSUME Inv, inbox # <<>>, inbox' = Tail(inbox),
           UNCHANGED <<storage, save, link, requests, subscribed>>
    PROVE  /\ AfterReading
           /\ \A k \in Hint : Remembered(k) /\ ~Marks(inbox[1], k) => Remembered(k)'
<1>1. TypeOK
  BY DEF Inv
<1> DEFINE n == Len(inbox)
<1>2. /\ n \in Nat /\ n >= 1
      /\ DOMAIN inbox = 1..n /\ DOMAIN inbox' = 1..(n - 1)
      /\ \A i \in 1..(n - 1) : inbox'[i] = inbox[i + 1]
  BY <1>1, TailFacts
<1>3. \A i \in DOMAIN inbox' : i + 1 \in DOMAIN inbox /\ inbox'[i] = inbox[i + 1]
  BY <1>2
<1>4. ASSUME NEW j \in DOMAIN inbox, j # 1
      PROVE  /\ j - 1 \in DOMAIN inbox' /\ inbox'[j - 1] = inbox[j]
             /\ \A i \in DOMAIN inbox' : (j > i + 1 <=> j - 1 > i) /\ (j < i + 1 <=> j - 1 < i)
  <2>1. j - 1 \in 1..(n - 1) /\ (j - 1) + 1 = j
    BY <1>2, <1>4
  <2> QED BY <2>1, <1>2
<1> HIDE DEF n
<1>5. AllReal'
  <2>1. \A i \in DOMAIN inbox' : RealPacket(inbox'[i])
    BY <1>3 DEF Inv, AllReal
  <2> QED BY <2>1 DEF Inv, AllReal, RealPacket, Real
<1>6. LinkOK'
  BY DEF Inv, LinkOK
<1>7. ASSUME NEW k \in Hint, NEW s \in Slots, LastTold(s, k) PROVE LastTold(s, k)'
  <2>1. ASSUME NEW i \in DOMAIN inbox', Tells(inbox'[i], s, k),
               \A j \in DOMAIN inbox' : j > i => ~Tells(inbox'[j], s, k)
        PROVE  Right(Told(inbox'[i], k), storage[k], s, k)
    <3>1. i + 1 \in DOMAIN inbox /\ Tells(inbox[i + 1], s, k)
      BY <2>1, <1>3
    <3>2. ASSUME NEW j \in DOMAIN inbox, j > i + 1 PROVE ~Tells(inbox[j], s, k)
      <4>1. j # 1
        BY <3>2, <1>2
      <4> QED BY <4>1, <3>2, <1>4, <2>1
    <3> QED BY <3>1, <3>2, <1>3, <1>7 DEF LastTold
  <2> QED BY <2>1 DEF LastTold, Tells, Told
<1>8. ASSUME NEW k \in Hint, NEW s \in Slots, LastTold(s, k),
             \A i \in DOMAIN inbox' : ~Tells(inbox'[i], s, k)
      PROVE  \/ Tells(inbox[1], s, k) /\ Right(Told(inbox[1], k), storage[k], s, k)
             \/ \A i \in DOMAIN inbox : ~Tells(inbox[i], s, k)
  <2>1. \A j \in DOMAIN inbox : j # 1 => ~Tells(inbox[j], s, k)
    BY <1>4, <1>8
  <2>2. \A j \in DOMAIN inbox : j > 1 => ~Tells(inbox[j], s, k)
    BY <2>1
  <2>3. 1 \in DOMAIN inbox
    BY <1>2
  <2> QED BY <2>1, <2>2, <2>3, <1>8 DEF LastTold
<1>9. ASSUME NEW k \in Hint, Remembered(k), ~Marks(inbox[1], k) PROVE Remembered(k)'
  <2>1. ASSUME NEW j \in DOMAIN inbox, Marks(inbox[j], k)
        PROVE  /\ j # 1 /\ j - 1 \in DOMAIN inbox' /\ Marks(inbox'[j - 1], k)
               /\ \A i \in DOMAIN inbox' : j < i + 1 <=> j - 1 < i
    <3>1. j # 1
      BY <2>1, <1>9
    <3> QED BY <3>1, <2>1, <1>4
  <2>2. ASSUME NEW i \in DOMAIN inbox', Announces(inbox'[i], k)
        PROVE  \E j \in DOMAIN inbox' : j < i /\ Marks(inbox'[j], k)
    <3>1. i + 1 \in DOMAIN inbox /\ Announces(inbox[i + 1], k)
      BY <2>2, <1>3
    <3>2. PICK j \in DOMAIN inbox : j < i + 1 /\ Marks(inbox[j], k)
      BY <3>1, <1>9 DEF Remembered
    <3> QED BY <3>2, <2>1
  <2>3. Answered => \E j \in DOMAIN inbox' : Marks(inbox'[j], k)
    BY <2>1, <1>9 DEF Remembered
  <2> QED BY <2>2, <2>3 DEF Remembered, Answered, Announces, Marks
<1> QED BY <1>5, <1>6, <1>7, <1>8, <1>9 DEF AfterReading

\* The first packet, with its later keys or as begun.
Lessens(x, packet) ==
    /\ packet.type = "storage" /\ x.type = "storage"
    /\ x.value = packet.value /\ x.announce = packet.announce
    /\ x.slots \subseteq packet.slots

LEMMA LessenedReading ==
    ASSUME Inv, inbox # <<>>, NEW x \in Packet, inbox' = <<x>> \o Tail(inbox),
           Lessens(x, inbox[1]), link,
           UNCHANGED <<storage, save, link, requests, subscribed>>
    PROVE  /\ AfterReading
           /\ \A k \in Hint : Remembered(k) /\ (Marks(inbox[1], k) => Marks(x, k))
                                 => Remembered(k)'
<1>1. TypeOK
  BY DEF Inv
<1>2. /\ Len(inbox) \in Nat /\ Len(inbox) >= 1
      /\ DOMAIN inbox = 1..Len(inbox) /\ DOMAIN inbox' = DOMAIN inbox
      /\ inbox'[1] = x
      /\ \A i \in 2..Len(inbox) : inbox'[i] = inbox[i]
  BY <1>1, MarkedFacts
<1>3. \A i \in DOMAIN inbox : i = 1 \/ (i > 1 /\ inbox'[i] = inbox[i])
  <2> SUFFICES ASSUME NEW i \in DOMAIN inbox, i # 1 PROVE i > 1 /\ inbox'[i] = inbox[i]
    OBVIOUS
  <2>1. i \in 2..Len(inbox) /\ i > 1
    BY <1>2
  <2> QED BY <2>1, <1>2
<1>4. 1 \in DOMAIN inbox /\ ~(1 > 1) /\ \A i \in DOMAIN inbox : i \in Int /\ i >= 1
  BY <1>2
<1>5. AllReal'
  <2>1. \A i \in DOMAIN inbox' : RealPacket(inbox'[i])
    BY <1>2, <1>3, <1>4 DEF Inv, AllReal, RealPacket, Lessens
  <2> QED BY <2>1 DEF Inv, AllReal, RealPacket, Real
<1>6. LinkOK'
  BY DEF Inv, LinkOK
<1>7. \A k, s : /\ Tells(x, s, k) => Tells(inbox[1], s, k)
                /\ Told(x, k) = Told(inbox[1], k)
                /\ Announces(x, k) <=> Announces(inbox[1], k)
  BY DEF Tells, Told, Announces, Lessens
<1>8. ASSUME NEW k \in Hint, NEW s \in Slots, LastTold(s, k) PROVE LastTold(s, k)'
  <2>1. ASSUME NEW i \in DOMAIN inbox', Tells(inbox'[i], s, k),
               \A j \in DOMAIN inbox' : j > i => ~Tells(inbox'[j], s, k)
        PROVE  Right(Told(inbox'[i], k), storage[k], s, k)
    <3>1. i \in DOMAIN inbox /\ Tells(inbox[i], s, k) /\ Told(inbox'[i], k) = Told(inbox[i], k)
      BY <2>1, <1>2, <1>3, <1>7
    <3>2. \A j \in DOMAIN inbox : j > i => ~Tells(inbox[j], s, k)
      BY <2>1, <1>2, <1>3, <1>4
    <3> QED BY <3>1, <3>2, <1>8 DEF LastTold
  <2> QED BY <2>1 DEF LastTold, Tells, Told
<1>9. ASSUME NEW k \in Hint, NEW s \in Slots, LastTold(s, k),
             \A i \in DOMAIN inbox' : ~Tells(inbox'[i], s, k)
      PROVE  \/ Tells(inbox[1], s, k) /\ Right(Told(inbox[1], k), storage[k], s, k)
             \/ \A i \in DOMAIN inbox : ~Tells(inbox[i], s, k)
  <2>1. \A j \in DOMAIN inbox : j # 1 => ~Tells(inbox[j], s, k)
    BY <1>2, <1>3, <1>9
  <2>2. \A j \in DOMAIN inbox : j > 1 => ~Tells(inbox[j], s, k)
    BY <2>1
  <2> QED BY <2>1, <2>2, <1>4, <1>9 DEF LastTold
<1>10. ASSUME NEW k \in Hint, Remembered(k), Marks(inbox[1], k) => Marks(x, k)
       PROVE  Remembered(k)'
  <2>1. \A j \in DOMAIN inbox : Marks(inbox[j], k) => Marks(inbox'[j], k)
    BY <1>2, <1>3, <1>10
  <2>2. \A i \in DOMAIN inbox : Announces(inbox'[i], k) => Announces(inbox[i], k)
    BY <1>2, <1>3, <1>7
  <2>3. \A i \in DOMAIN inbox' : Announces(inbox'[i], k) =>
           \E j \in DOMAIN inbox' : j < i /\ Marks(inbox'[j], k)
    BY <2>1, <2>2, <1>2, <1>10 DEF Remembered
  <2>4. Answered => \E j \in DOMAIN inbox' : Marks(inbox'[j], k)
    BY <2>1, <1>2, <1>10 DEF Remembered
  <2> QED BY <2>3, <2>4 DEF Remembered, Answered, Announces, Marks
<1> QED BY <1>5, <1>6, <1>8, <1>9, <1>10 DEF AfterReading

\* A packet that would announce a hint forgotten is behind one that marks it.
LEMMA NotAnnouncedYet ==
    ASSUME Inv, inbox # <<>>, NEW k \in Hint, k \notin seen, Announces(inbox[1], k)
    PROVE  announced[k] = 0
<1>1. 1 \in DOMAIN inbox /\ \A j \in DOMAIN inbox : j \in Int /\ ~(j < 1)
  BY HeadFacts DEF Inv
<1> SUFFICES ASSUME announced[k] # 0 PROVE FALSE
  OBVIOUS
<1>2. Remembered(k)
  BY DEF Inv, AnnouncedOK
<1> QED BY <1>1, <1>2 DEF Remembered

LEMMA AnnounceNewOK ==
    ASSUME Inv, AnnounceNew
    PROVE  Inv'
<1> DEFINE packet == Head(inbox)
           x == [packet EXCEPT !.begun = TRUE]
<1>1. /\ inbox # <<>> /\ packet.type = "storage" /\ packet.announce
      /\ inbox' = <<x>> \o Tail(inbox)
      /\ UNCHANGED <<serverVars, saveVars, linkVars, held, used, unread, pages, restarts>>
  BY DEF AnnounceNew, Reading
<1>2. PICK s \in packet.slots, h \in Hint :
        h \in Unseen(packet, s) /\ seen' = seen \cup {h} /\ Announce(h)
  BY DEF AnnounceNew, Unseen, Known
<1>3. packet \in Packet /\ packet = inbox[1] /\ 1 \in DOMAIN inbox
  BY <1>1, HeadFacts DEF Inv
<1>4. /\ packet \in [type : {"storage"}, slots : SUBSET Slots, value : Statuses,
                     announce : BOOLEAN, begun : BOOLEAN]
      /\ packet.slots \subseteq Slots /\ packet.value \in Statuses
  BY <1>1, <1>3, PacketFacts
<1>5. x \in Packet /\ Lessens(x, packet) /\ x.slots = packet.slots
  BY <1>4 DEF Packet, Lessens
<1>6. /\ h \in Hint /\ h \notin seen /\ packet.value[h] # Unhinted
  BY <1>2, <1>4, OfType DEF Unseen, Known
<1>7. announced[h] = 0
  BY <1>1, <1>3, <1>6, NotAnnouncedYet DEF Announces
<1>8. storage[h] # Unhinted
  BY <1>1, <1>3, <1>6 DEF Inv, AllReal, RealPacket, Real
<1> HIDE DEF x, packet
<1>9. UNCHANGED <<storage, paid, save, held, used, unread, pages, link, requests,
                  subscribed, missed>>
  BY <1>1 DEF serverVars, saveVars, linkVars
<1>10. link
  BY <1>1 DEF Inv, LinkOK
<1>11. /\ AfterReading
       /\ \A k \in Hint : Remembered(k) /\ (Marks(packet, k) => Marks(x, k)) => Remembered(k)'
  BY <1>1, <1>3, <1>5, <1>9, <1>10, LessenedReading
<1>12. inbox' \in Seq(Packet)
  BY <1>1, <1>5, MarkedFacts DEF Inv
<1>13. /\ announced' \in [Hint -> Nat] /\ announced'[h] = 1
       /\ \A k \in Hint : k # h => announced'[k] = announced[k]
  BY <1>2, <1>6, <1>7 DEF Announce, Inv, TypeOK
<1>14. TypeOK'
  BY <1>1, <1>2, <1>6, <1>12, <1>13 DEF Inv, TypeOK, serverVars, saveVars, linkVars
<1>15. AnnouncedOK'
  <2> SUFFICES ASSUME NEW k \in Hint, announced'[k] # 0
               PROVE  /\ announced'[k] = 1 /\ storage[k] # Unhinted
                      /\ k \in seen' \/ Remembered(k)'
    BY <1>9 DEF AnnouncedOK
  <2>1. CASE k = h
    BY <2>1, <1>2, <1>8, <1>13
  <2>2. CASE k # h
    <3>1. announced[k] = 1 /\ storage[k] # Unhinted /\ (k \in seen \/ Remembered(k))
      BY <2>2, <1>13 DEF Inv, AnnouncedOK
    <3>2. Marks(packet, k) => Marks(x, k)
      BY <1>5 DEF Marks, Lessens
    <3> QED BY <2>2, <3>1, <3>2, <1>2, <1>11, <1>13
  <2> QED BY <2>1, <2>2
<1>16. ReadOK'
  <2> SUFFICES ASSUME Answered', NEW k \in Hint, k \notin missed', NEW r \in Parties(k),
                      ~Edited(r, k)'
               PROVE  Follows(r, k)'
    BY DEF ReadOK
  <2>1. r \in Slots /\ Follows(r, k)
    BY <1>9, PartyFacts DEF Inv, ReadOK, Answered, Edited
  <2>2. LastTold(r, k)'
    BY <2>1, <1>11 DEF AfterReading, Follows
  <2>3. ASSUME \A i \in DOMAIN inbox' : ~Tells(inbox'[i], r, k)
        PROVE  \A i \in DOMAIN inbox : ~Tells(inbox[i], r, k)
    <3>1. 1 \in DOMAIN inbox' /\ inbox'[1] = x
      BY <1>1, <1>3, <1>5, MarkedFacts DEF Inv
    <3>2. ~Tells(inbox[1], r, k)
      BY <2>3, <3>1, <1>3, <1>5 DEF Tells, Lessens
    <3> QED BY <2>1, <2>3, <3>2, <1>11 DEF AfterReading, Follows
  <2>4. (\A i \in DOMAIN inbox : ~Tells(inbox[i], r, k))' => Settled(r, k)'
    BY <2>1, <2>3, <1>9 DEF Follows, Settled, Saved, Tells
  <2> QED BY <2>2, <2>4 DEF Follows
<1>17. OnlyRealHints' /\ PagesReal' /\ PaidOK'
  BY <1>9 DEF Inv, OnlyRealHints, Known, Edited, PagesReal, PaidOK
<1> QED BY <1>11, <1>14, <1>15, <1>16, <1>17 DEF Inv, AfterReading

LEMMA StoreHintsOK ==
    ASSUME Inv, StoreHints
    PROVE  Inv'
<1> DEFINE packet == Head(inbox)
<1>1. /\ inbox # <<>> /\ packet.type = "storage"
      /\ UNCHANGED <<serverVars, saveVars, linkVars, used, unread, announced, pages,
                     restarts>>
  BY DEF StoreHints, Reading
<1>2. PICK s \in packet.slots :
        LET rest == packet.slots \ {s} IN
        /\ packet.announce => Unseen(packet, s) = {}
        /\ seen' = seen \cup Unseen(packet, s)
        /\ held' = [held EXCEPT ![s] = Of(packet.value, s)]
        /\ inbox' = IF rest = {} THEN Tail(inbox)
                    ELSE <<[packet EXCEPT !.slots = rest, !.begun = TRUE]>> \o Tail(inbox)
  BY DEF StoreHints
<1> DEFINE rest == packet.slots \ {s}
           x == [packet EXCEPT !.slots = rest, !.begun = TRUE]
<1>3. packet \in Packet /\ packet = inbox[1] /\ 1 \in DOMAIN inbox
  BY <1>1, HeadFacts DEF Inv
<1>4. /\ packet \in [type : {"storage"}, slots : SUBSET Slots, value : Statuses,
                     announce : BOOLEAN, begun : BOOLEAN]
      /\ packet.slots \subseteq Slots /\ packet.value \in Statuses /\ s \in Slots
  BY <1>1, <1>3, PacketFacts
<1>5. x \in Packet /\ Lessens(x, packet) /\ x.slots = rest
  BY <1>4 DEF Packet, Lessens
<1>6. /\ Of(packet.value, s) \in Statuses
      /\ \A k \in Hint : Of(packet.value, s)[k] =
            IF s \in Parties(k) THEN packet.value[k] ELSE Unhinted
  BY <1>4, OfType
<1>7. /\ seen' = seen \cup Unseen(packet, s)
      /\ held' \in [Slots -> Statuses]
      /\ held'[s] = Of(packet.value, s)
      /\ \A r \in Slots : r # s => held'[r] = held[r]
      /\ \/ rest = {} /\ inbox' = Tail(inbox)
         \/ rest # {} /\ inbox' = <<x>> \o Tail(inbox)
  BY <1>2, <1>4, <1>6 DEF Inv, TypeOK
<1>8. \A k \in Hint : s \in Parties(k) /\ packet.value[k] # Unhinted => k \in seen'
  BY <1>6, <1>7 DEF Unseen, Known
<1>9. Real(packet.value)
  BY <1>1, <1>3 DEF Inv, AllReal, RealPacket
<1>10. seen' \subseteq Hint /\ seen \subseteq seen'
  BY <1>7 DEF Unseen, Known, Inv, TypeOK
<1> HIDE DEF x
<1>11. UNCHANGED <<storage, paid, save, used, unread, pages, link, requests,
                   subscribed, missed, announced>>
  BY <1>1 DEF serverVars, saveVars, linkVars
<1>12. link
  BY <1>1 DEF Inv, LinkOK
<1>13. /\ AfterReading /\ inbox' \in Seq(Packet)
       /\ \A k \in Hint : Remembered(k) /\ k \notin seen' => Remembered(k)'
  <2>1. CASE rest = {} /\ inbox' = Tail(inbox)
    <3>1. inbox' \in Seq(Packet)
      BY <2>1, <1>1, TailFacts DEF Inv
    <3>2. /\ AfterReading
          /\ \A k \in Hint : Remembered(k) /\ ~Marks(inbox[1], k) => Remembered(k)'
      BY <2>1, <1>1, <1>11, PoppedReading
    <3>3. \A k \in Hint : k \notin seen' => ~Marks(packet, k)
      BY <2>1, <1>8 DEF Marks
    <3> QED BY <3>1, <3>2, <3>3, <1>3
  <2>2. CASE rest # {} /\ inbox' = <<x>> \o Tail(inbox)
    <3>1. inbox' \in Seq(Packet)
      BY <2>2, <1>1, <1>5, MarkedFacts DEF Inv
    <3>2. /\ AfterReading
          /\ \A k \in Hint : Remembered(k) /\ (Marks(inbox[1], k) => Marks(x, k))
                                => Remembered(k)'
      BY <2>2, <1>1, <1>3, <1>5, <1>11, <1>12, LessenedReading
    <3>3. \A k \in Hint : k \notin seen' /\ Marks(packet, k) => Marks(x, k)
      BY <1>5, <1>8 DEF Marks, Lessens
    <3> QED BY <3>1, <3>2, <3>3, <1>3
  <2> QED BY <2>1, <2>2, <1>7
<1> HIDE DEF packet
<1>14. TypeOK'
  BY <1>1, <1>7, <1>10, <1>13 DEF Inv, TypeOK, serverVars, saveVars, linkVars
<1>15. AnnouncedOK'
  BY <1>10, <1>11, <1>13 DEF Inv, AnnouncedOK
<1>16. OnlyRealHints'
  <2> SUFFICES ASSUME NEW r \in Slots, NEW k \in Hint, held'[r][k] # Unhinted
               PROVE  /\ r \in Parties(k) /\ storage[k] # Unhinted
                      /\ held'[r][k] = Found /\ ~Edited(r, k)' => storage[k] = Found
    BY <1>11 DEF OnlyRealHints, Known
  <2>1. CASE r = s
    BY <2>1, <1>6, <1>7, <1>9, StatusFacts DEF Real
  <2>2. CASE r # s
    <3>1. held'[r] = held[r] /\ k \in Known(held[r])
      BY <2>2, <1>7 DEF Known
    <3> QED BY <3>1, <1>11 DEF Inv, OnlyRealHints, Edited
  <2> QED BY <2>1, <2>2
<1>17. ReadOK'
  <2> SUFFICES ASSUME Answered', NEW k \in Hint, k \notin missed', NEW r \in Parties(k),
                      ~Edited(r, k)'
               PROVE  Follows(r, k)'
    BY DEF ReadOK
  <2>1. r \in Slots /\ Follows(r, k)
    BY <1>11, PartyFacts DEF Inv, ReadOK, Answered, Edited
  <2>2. LastTold(r, k)'
    BY <2>1, <1>13 DEF AfterReading, Follows
  <2>3. ASSUME \A i \in DOMAIN inbox' : ~Tells(inbox'[i], r, k)
        PROVE  Settled(r, k)'
    <3>1. \/ Tells(packet, r, k) /\ Right(Told(packet, k), storage[k], r, k)
          \/ \A i \in DOMAIN inbox : ~Tells(inbox[i], r, k)
      BY <2>1, <2>3, <1>3, <1>13 DEF AfterReading, Follows
    <3>2. Tells(packet, s, k)
      BY <1>1 DEF Tells
    <3>3. CASE r = s
      <4>1. Right(Told(packet, k), storage[k], r, k)
        BY <3>1, <3>2, <3>3, <1>3
      <4>2. Right(held'[r][k], storage[k], r, k)
        BY <4>1, <3>3, <1>1, <1>6, <1>7 DEF Told
      <4> QED BY <4>2, <1>11 DEF Settled
    <3>4. CASE r # s
      <4>1. ~Tells(packet, r, k)
        <5>1. CASE rest = {}
          BY <5>1, <3>4, <1>1 DEF Tells
        <5>2. CASE inbox' = <<x>> \o Tail(inbox)
          <6>1. 1 \in DOMAIN inbox' /\ inbox'[1] = x
            BY <5>2, <1>1, <1>3, <1>5, MarkedFacts DEF Inv
          <6>2. ~Tells(x, r, k)
            BY <6>1, <2>3
          <6> QED BY <6>2, <3>4, <1>1, <1>5 DEF Tells, Lessens
        <5> QED BY <5>1, <5>2, <1>7
      <4>2. Settled(r, k)
        BY <4>1, <3>1, <2>1 DEF Follows
      <4> QED BY <4>2, <3>4, <2>1, <1>7, <1>11 DEF Settled, Saved
    <3> QED BY <3>3, <3>4
  <2>4. (\A i \in DOMAIN inbox : ~Tells(inbox[i], r, k))' => Settled(r, k)'
    BY <2>3 DEF Tells
  <2> QED BY <2>2, <2>4 DEF Follows
<1>18. PagesReal' /\ PaidOK'
  BY <1>11 DEF Inv, PagesReal, PaidOK
<1> QED BY <1>13, <1>14, <1>15, <1>16, <1>17, <1>18 DEF Inv, AfterReading

LEMMA HandlePrintOK ==
    ASSUME Inv, HandlePrint
    PROVE  Inv'
<1>1. /\ inbox # <<>> /\ Head(inbox).type = "print"
      /\ inbox' = Tail(inbox)
      /\ UNCHANGED <<serverVars, saveVars, linkVars, used, unread, pages, restarts>>
  BY DEF HandlePrint, Reading
<1>2. Head(inbox) \in Packet /\ Head(inbox) = inbox[1] /\ 1 \in DOMAIN inbox
  BY <1>1, HeadFacts DEF Inv
<1>3. Head(inbox).hint \in Hint
  BY <1>1, <1>2, PacketFacts
<1> PICK h \in Hint, s \in Slots : h = inbox[1].hint /\ s = ReceiverOf[h]
  BY <1>2, <1>3, HintAssumption
<1>4. /\ held' = [held EXCEPT ![s][h] = Unspecified]
      /\ IF h \in seen THEN UNCHANGED announced ELSE Announce(h)
      /\ seen' = seen \cup {h}
      /\ inbox[1].type = "print" /\ inbox[1].hint = h
  BY <1>1, <1>2 DEF HandlePrint
<1>5. /\ held' \in [Slots -> Statuses]
      /\ held'[s][h] = Unspecified
      /\ \A r \in Slots, k \in Hint : r # s \/ k # h => held'[r][k] = held[r][k]
  BY <1>4, StatusFacts DEF Inv, TypeOK, Statuses
<1>6. s \in Parties(h)
  BY DEF Parties
<1>7. storage[h] # Unhinted /\ Unspecified # Found
  BY <1>2, <1>4, StatusFacts DEF Inv, AllReal, RealPacket
<1>8. UNCHANGED <<storage, paid, save, used, unread, pages, link, requests,
                  subscribed, missed>>
  BY <1>1 DEF serverVars, saveVars, linkVars
<1>9. h \notin seen => announced[h] = 0
  BY <1>1, <1>4, NotAnnouncedYet DEF Announces
<1>10. /\ announced' \in [Hint -> Nat]
       /\ h \in seen => announced' = announced
       /\ h \notin seen => announced'[h] = 1
       /\ \A k \in Hint : k # h => announced'[k] = announced[k]
  <2>1. announced \in [Hint -> Nat]
    BY DEF Inv, TypeOK
  <2>2. CASE h \in seen
    BY <2>1, <2>2, <1>4
  <2>3. CASE h \notin seen
    BY <2>1, <2>3, <1>4, <1>9 DEF Announce
  <2> QED BY <2>2, <2>3
<1>11. /\ AfterReading
       /\ \A k \in Hint : Remembered(k) /\ ~Marks(inbox[1], k) => Remembered(k)'
  BY <1>1, <1>8, PoppedReading
<1>12. inbox' \in Seq(Packet)
  BY <1>1, TailFacts DEF Inv
<1>13. TypeOK'
  BY <1>1, <1>4, <1>5, <1>10, <1>12 DEF Inv, TypeOK, serverVars, saveVars, linkVars
<1>14. AnnouncedOK'
  <2> SUFFICES ASSUME NEW k \in Hint, announced'[k] # 0
               PROVE  /\ announced'[k] = 1 /\ storage[k] # Unhinted
                      /\ k \in seen' \/ Remembered(k)'
    BY <1>8 DEF AnnouncedOK
  <2>1. CASE k = h
    BY <2>1, <1>4, <1>7, <1>10 DEF Inv, AnnouncedOK
  <2>2. CASE k # h
    <3>1. announced[k] = 1 /\ storage[k] # Unhinted /\ (k \in seen \/ Remembered(k))
      BY <2>2, <1>10 DEF Inv, AnnouncedOK
    <3>2. ~Marks(inbox[1], k)
      BY <1>4 DEF Marks
    <3> QED BY <2>2, <3>1, <3>2, <1>4, <1>10, <1>11
  <2> QED BY <2>1, <2>2
<1>15. OnlyRealHints'
  <2> SUFFICES ASSUME NEW r \in Slots, NEW k \in Hint, held'[r][k] # Unhinted
               PROVE  /\ r \in Parties(k) /\ storage[k] # Unhinted
                      /\ held'[r][k] = Found /\ ~Edited(r, k)' => storage[k] = Found
    BY <1>8 DEF OnlyRealHints, Known
  <2>1. CASE r = s /\ k = h
    BY <2>1, <1>5, <1>6, <1>7
  <2>2. CASE r # s \/ k # h
    <3>1. held'[r][k] = held[r][k] /\ k \in Known(held[r])
      BY <2>2, <1>5 DEF Known
    <3> QED BY <3>1, <1>8 DEF Inv, OnlyRealHints, Edited
  <2> QED BY <2>1, <2>2
<1>16. ReadOK'
  <2> SUFFICES ASSUME Answered', NEW k \in Hint, k \notin missed', NEW r \in Parties(k),
                      ~Edited(r, k)'
               PROVE  Follows(r, k)'
    BY DEF ReadOK
  <2>1. r \in Slots /\ Follows(r, k)
    BY <1>8, PartyFacts DEF Inv, ReadOK, Answered, Edited
  <2>2. LastTold(r, k)'
    BY <2>1, <1>11 DEF AfterReading, Follows
  <2>3. ASSUME \A i \in DOMAIN inbox' : ~Tells(inbox'[i], r, k)
        PROVE  Settled(r, k)'
    <3>1. \/ Tells(inbox[1], r, k) /\ Right(Told(inbox[1], k), storage[k], r, k)
          \/ \A i \in DOMAIN inbox : ~Tells(inbox[i], r, k)
      BY <2>1, <2>3, <1>11 DEF AfterReading, Follows
    <3>2. CASE r = s /\ k = h
      <4>1. Tells(inbox[1], r, k)
        BY <3>2, <1>4 DEF Tells
      <4>2. Right(held'[r][k], storage[k], r, k)
        BY <4>1, <3>1, <3>2, <1>2, <1>4, <1>5 DEF Told
      <4> QED BY <4>2, <1>8 DEF Settled
    <3>3. CASE r # s \/ k # h
      <4>1. ~Tells(inbox[1], r, k)
        BY <3>3, <1>4 DEF Tells
      <4>2. Settled(r, k)
        BY <4>1, <3>1, <2>1 DEF Follows
      <4>3. held'[r][k] = held[r][k]
        BY <3>3, <2>1, <1>5
      <4> QED BY <4>2, <4>3, <1>8 DEF Settled, Saved
    <3> QED BY <3>2, <3>3
  <2>4. (\A i \in DOMAIN inbox : ~Tells(inbox[i], r, k))' => Settled(r, k)'
    BY <2>3 DEF Tells
  <2> QED BY <2>2, <2>4 DEF Follows
<1>17. PagesReal' /\ PaidOK'
  BY <1>8 DEF Inv, PagesReal, PaidOK
<1> QED BY <1>11, <1>13, <1>14, <1>15, <1>16, <1>17 DEF Inv, AfterReading

-----------------------------------------------------------------------------
(* The save's merge, the connection, the restart. *)

LEMMA MergeOK ==
    ASSUME Inv, Merge
    PROVE  Inv'
<1>1. /\ unread /\ ~unread'
      /\ held' = [s \in Slots |-> IF Saved(s) THEN Of(save.storage, s) ELSE held[s]]
      /\ used' = [s \in Slots |-> IF Saved(s) THEN save.paid[s] ELSE used[s]]
      /\ UNCHANGED <<serverVars, saveVars, linkVars, inbox, feedVars, pages, restarts>>
      /\ unread' = FALSE
  BY DEF Merge, MergeHints
<1>2. UNCHANGED <<storage, paid, save, link, requests, subscribed, missed, inbox, pages,
                  seen, announced>>
  BY <1>1 DEF serverVars, saveVars, linkVars, feedVars
<1>3. save.storage \in Statuses /\ save.paid \in [Slots -> Nat]
  BY DEF Inv, TypeOK
<1>4. \A s \in Slots : Of(save.storage, s) \in Statuses
  BY <1>3, OfType
<1>5. \A s \in Slots : /\ Saved(s) => held'[s] = Of(save.storage, s)
                       /\ ~Saved(s) => held'[s] = held[s]
  BY <1>1
<1>6. held' \in [Slots -> Statuses]
  BY <1>1, <1>4 DEF Inv, TypeOK
<1>7. used' \in [Slots -> Nat]
  BY <1>1, <1>3 DEF Inv, TypeOK
<1>8. TypeOK'
  BY <1>1, <1>6, <1>7 DEF Inv, TypeOK, serverVars, saveVars, linkVars, feedVars
<1>9. LinkOK' /\ AllReal' /\ PagesReal'
  BY <1>2 DEF Inv, LinkOK, AllReal, RealPacket, Real, PagesReal
<1>10. AnnouncedOK'
  BY <1>2 DEF Inv, AnnouncedOK, Remembered, Answered, Announces, Marks
<1>11. OnlyRealHints'
  <2> SUFFICES ASSUME NEW s \in Slots, NEW k \in Hint, held'[s][k] # Unhinted
               PROVE  /\ s \in Parties(k) /\ storage[k] # Unhinted
                      /\ held'[s][k] = Found /\ ~Edited(s, k)' => storage[k] = Found
    BY <1>2 DEF OnlyRealHints, Known
  <2>1. CASE Saved(s)
    <3>1. Of(save.storage, s)[k] = IF s \in Parties(k) THEN save.storage[k] ELSE Unhinted
      BY <1>3, OfType
    <3> QED BY <2>1, <3>1, <1>5 DEF Inv, AllReal, Real
  <2>2. CASE ~Saved(s)
    <3>1. held'[s] = held[s] /\ k \in Known(held[s])
      BY <2>2, <1>5 DEF Known
    <3> QED BY <3>1, <1>2 DEF Inv, OnlyRealHints, Edited
  <2> QED BY <2>1, <2>2
<1>12. ReadOK'
  <2> SUFFICES ASSUME Answered', NEW k \in Hint, k \notin missed', NEW s \in Parties(k),
                      ~Edited(s, k)'
               PROVE  Follows(s, k)'
    BY DEF ReadOK
  <2>1. s \in Slots /\ Follows(s, k)
    BY <1>2, PartyFacts DEF Inv, ReadOK, Answered, Edited
  <2>2. ASSUME Settled(s, k) PROVE Settled(s, k)'
    <3>1. CASE Saved(s)
      <4>1. held'[s][k] = save.storage[k] /\ s \notin Quiet
        BY <3>1, <2>1, <1>3, <1>5, OfType DEF Saved
      <4> QED BY <4>1, <1>2 DEF Settled, Right
    <3>2. CASE ~Saved(s)
      <4>1. held'[s] = held[s]
        BY <3>2, <2>1, <1>5
      <4> QED BY <4>1, <3>2, <2>2, <1>2 DEF Settled
    <3> QED BY <3>1, <3>2
  <2>3. LastTold(s, k)'
    BY <2>1, <1>2 DEF Follows, LastTold, Tells, Told
  <2>4. (\A i \in DOMAIN inbox : ~Tells(inbox[i], s, k))' => Settled(s, k)'
    BY <2>1, <2>2, <1>2 DEF Follows, Tells
  <2> QED BY <2>3, <2>4 DEF Follows
<1>13. PaidOK'
  <2>1. ASSUME NEW s \in Slots \ Quiet PROVE used'[s] >= save.paid[s]
    <3>1. CASE Saved(s)
      BY <3>1, <1>1, <1>3
    <3>2. CASE ~Saved(s)
      <4>1. save.paid[s] = 0
        BY <3>2 DEF Inv, PaidOK, Saved
      <4> QED BY <4>1, <1>7
    <3> QED BY <3>1, <3>2
  <2> QED BY <2>1, <1>2 DEF Inv, PaidOK
<1> QED BY <1>8, <1>9, <1>10, <1>11, <1>12, <1>13 DEF Inv

\* The connection comes up, or goes down, and nothing is answered yet.
LEMMA LinkChangesOK ==
    ASSUME Inv, LinkUp \/ LinkDown
    PROVE  Inv'
<1>1. UNCHANGED <<serverVars, saveVars, held, used, unread, feedVars, pages, restarts>>
  BY DEF LinkUp, LinkDown
<1>2. UNCHANGED <<storage, paid, save, held, used, unread, seen, announced, pages>>
  BY <1>1 DEF serverVars, saveVars, feedVars
<1>3. /\ inbox' = <<>> /\ link' \in BOOLEAN /\ links' \in 0..MaxLinks
      /\ requests' \in {<<>>, <<"Get", "SetNotify">>}
      /\ subscribed' = FALSE /\ missed' \subseteq Hint
      /\ ~link' => requests' = <<>>
  <2>1. CASE LinkUp
    <3>1. subscribed = FALSE /\ inbox = <<>>
      BY <2>1 DEF LinkUp, Inv, LinkOK, TypeOK
    <3> QED BY <2>1, <3>1, HintAssumption DEF LinkUp, Inv, TypeOK
  <2>2. CASE LinkDown
    BY <2>2 DEF LinkDown, Disconnected, Inv, TypeOK
  <2> QED BY <2>1, <2>2
<1>4. requests' # <<"SetNotify">>
  BY <1>3
<1>5. ~Answered'
  BY <1>3, <1>4 DEF Answered
<1>6. DOMAIN inbox' = {}
  BY <1>3
<1>7. requests' \in Seq({"Get", "SetNotify"}) /\ inbox' \in Seq(Packet)
  <2>1. /\ <<>> \in Seq({"Get", "SetNotify"})
        /\ <<"Get", "SetNotify">> \in Seq({"Get", "SetNotify"})
    OBVIOUS
  <2>2. inbox' \in Seq(Packet)
    BY <1>3
  <2> QED BY <2>1, <2>2, <1>3
<1>8. TypeOK'
  BY <1>1, <1>3, <1>7 DEF Inv, TypeOK, serverVars, saveVars, feedVars
<1>9. LinkOK' /\ ReadOK'
  BY <1>3, <1>5 DEF LinkOK, ReadOK
<1>10. AllReal' /\ OnlyRealHints' /\ PagesReal' /\ PaidOK'
  BY <1>2, <1>6 DEF Inv, AllReal, Real, OnlyRealHints, Known, Edited, PagesReal, PaidOK
<1>11. AnnouncedOK'
  <2>1. \A k : Remembered(k)'
    BY <1>5, <1>6 DEF Remembered
  <2> QED BY <2>1, <1>2 DEF Inv, AnnouncedOK
<1> QED BY <1>8, <1>9, <1>10, <1>11 DEF Inv

LEMMA RestartOK ==
    ASSUME Inv, Restart
    PROVE  Inv'
<1> DEFINE read(s) == Of(IF s \in Quiet THEN [h \in Hint |-> Unhinted] ELSE save.storage, s)
<1>1. /\ restarts < MaxRestarts /\ restarts' = restarts + 1
      /\ link' = FALSE /\ requests' = <<>> /\ subscribed' = FALSE /\ inbox' = <<>>
      /\ UNCHANGED links
      /\ held' = [s \in Slots |-> read(s)]
      /\ used' = [s \in Slots |-> IF s \in Quiet THEN 0 ELSE save.paid[s]]
      /\ unread' = TRUE
      /\ seen' = {}
      /\ pages' = [p \in Pages |-> IF pages[p] = None THEN None ELSE Gone]
      /\ missed' = {}
      /\ UNCHANGED <<serverVars, saveVars, announced>>
  BY DEF Restart, Disconnected
<1>2. UNCHANGED <<storage, paid, save, announced>>
  BY <1>1 DEF serverVars, saveVars
<1>3. save.storage \in Statuses /\ save.paid \in [Slots -> Nat]
  BY DEF Inv, TypeOK
<1>4. ASSUME NEW s \in Slots
      PROVE  /\ read(s) \in Statuses
             /\ \A k \in Hint : read(s)[k] # Unhinted =>
                   s \in Parties(k) /\ read(s)[k] = save.storage[k]
  <2> DEFINE value == IF s \in Quiet THEN [h \in Hint |-> Unhinted] ELSE save.storage
  <2>1. /\ value \in Statuses
        /\ \A k \in Hint : value[k] # Unhinted => value[k] = save.storage[k]
    BY <1>3 DEF Statuses
  <2>2. read(s) = Of(value, s)
    OBVIOUS
  <2> HIDE DEF value, read
  <2> QED BY <2>1, <2>2, OfType
<1> HIDE DEF read
<1>5. held' \in [Slots -> Statuses]
  BY <1>1, <1>4
<1>6. used' \in [Slots -> Nat]
  BY <1>1, <1>3
<1>7. /\ pages' \in [Pages -> PageState]
      /\ \A p \in Pages : pages'[p].state \in {"none", "gone"}
  BY <1>1 DEF PageState, None, Gone
<1>8. /\ DOMAIN inbox' = {} /\ inbox' \in Seq(Packet)
      /\ requests' \in Seq({"Get", "SetNotify"})
  BY <1>1
<1>9. restarts' \in 0..MaxRestarts
  BY <1>1, HintAssumption DEF Inv, TypeOK
<1>10. TypeOK'
  BY <1>1, <1>5, <1>6, <1>7, <1>8, <1>9 DEF Inv, TypeOK, serverVars, saveVars
<1>11. requests' # <<"SetNotify">>
  BY <1>1
<1>12. ~Answered'
  BY <1>1, <1>11 DEF Answered
<1>13. LinkOK' /\ ReadOK'
  BY <1>1, <1>12 DEF LinkOK, ReadOK
<1>14. AnnouncedOK'
  <2>1. \A k : Remembered(k)'
    BY <1>8, <1>12 DEF Remembered
  <2> QED BY <2>1, <1>2 DEF Inv, AnnouncedOK
<1>15. OnlyRealHints'
  <2> SUFFICES ASSUME NEW s \in Slots, NEW k \in Hint, held'[s][k] # Unhinted
               PROVE  /\ s \in Parties(k) /\ storage[k] # Unhinted
                      /\ held'[s][k] = Found => storage[k] = Found
    BY <1>2 DEF OnlyRealHints, Known
  <2>1. held'[s] = read(s)
    BY <1>1
  <2>2. s \in Parties(k) /\ held'[s][k] = save.storage[k]
    BY <2>1, <1>4
  <2> QED BY <2>2 DEF Inv, AllReal, Real
<1>16. AllReal' /\ PagesReal' /\ PaidOK'
  BY <1>1, <1>2, <1>7, <1>8 DEF Inv, AllReal, Real, PagesReal, PaidOK
<1> QED BY <1>10, <1>13, <1>14, <1>15, <1>16 DEF Inv

-----------------------------------------------------------------------------
(* The invariant holds. *)

LEMMA InitOK == Init => Inv
<1> SUFFICES ASSUME Init PROVE Inv
  OBVIOUS
<1>1. DOMAIN inbox = {} /\ ~Answered
  <2>1. requests # <<"SetNotify">>
    BY DEF Init
  <2> QED BY <2>1 DEF Init, Answered
<1>2. storage \in Statuses
  BY DEF Init, Statuses
<1>3. TypeOK
  <2>1. pages \in [Pages -> PageState]
    BY DEF Init, PageState
  <2>2. requests \in Seq({"Get", "SetNotify"}) /\ inbox \in Seq(Packet)
    BY DEF Init
  <2>3. /\ save \in [storage : Statuses, paid : [Slots -> Nat]]
        /\ held \in [Slots -> Statuses]
    BY <1>2 DEF Init
  <2>4. /\ paid \in [Slots -> Nat] /\ used \in [Slots -> Nat] /\ announced \in [Hint -> Nat]
        /\ saves \in 0..MaxSaves /\ links \in 0..MaxLinks /\ restarts \in 0..MaxRestarts
    BY HintAssumption DEF Init
  <2>5. /\ link \in BOOLEAN /\ subscribed \in BOOLEAN /\ unread \in BOOLEAN
        /\ missed \subseteq Hint /\ seen \subseteq Hint
    BY DEF Init
  <2> QED BY <1>2, <2>1, <2>2, <2>3, <2>4, <2>5 DEF TypeOK
<1>4. \A s \in Slots, k \in Hint : held[s][k] = Unhinted
  BY DEF Init
<1>5. OnlyRealHints
  BY <1>4 DEF OnlyRealHints, Known
<1>6. AllReal /\ LinkOK /\ ReadOK
  BY <1>1, StatusFacts DEF Init, AllReal, Real, LinkOK, ReadOK, Unhinted, Found
<1>7. PagesReal /\ AnnouncedOK
  BY DEF Init, PagesReal, AnnouncedOK, None
<1>8. PaidOK
  BY DEF Init, PaidOK
<1> QED BY <1>3, <1>5, <1>6, <1>7, <1>8 DEF Inv

LEMMA NextOK == Inv /\ [Next]_vars => Inv'
<1> SUFFICES ASSUME Inv, [Next]_vars PROVE Inv'
  OBVIOUS
<1>1. CASE Handle
  BY <1>1, AnnounceNewOK, StoreHintsOK, HandlePrintOK DEF Handle
<1>2. CASE Merge \/ LinkUp \/ LinkDown \/ Restart
  BY <1>2, MergeOK, LinkChangesOK, RestartOK
<1>3. CASE Server
  BY <1>3, ServeGetOK, ServeSetNotifyOK, WriteSaveOK, CreateHintOK, FindItemOK,
     ServeEditOK, GrantPurchaseOK DEF Server
<1>4. ASSUME NEW p \in Pages, Page(p) PROVE Inv'
  BY <1>4, EditStoresOK, PageEndsOK, EditBeginsOK, PurchaseBeginsOK DEF Page
<1>5. CASE UNCHANGED vars
  <2>1. UNCHANGED <<storage, paid, save, saves, link, links, requests, subscribed, missed,
                    inbox, held, used, unread, seen, announced, pages, restarts>>
    BY <1>5 DEF vars, serverVars, saveVars, linkVars, feedVars
  <2>2. TypeOK' /\ OnlyRealHints' /\ PagesReal' /\ PaidOK'
    BY <2>1 DEF Inv, TypeOK, OnlyRealHints, Known, Edited, PagesReal, PaidOK
  <2>3. LinkOK' /\ AnnouncedOK' /\ AllReal' /\ ReadOK'
    BY <1>5, <2>1, HintsAlone DEF vars, serverVars, Edited
  <2> QED BY <2>2, <2>3 DEF Inv
<1> QED BY <1>1, <1>2, <1>3, <1>4, <1>5 DEF Next

LEMMA Invariance == Spec => []Inv
<1>1. Inv /\ [Next]_vars => Inv'
  BY NextOK
<1> QED BY <1>1, InitOK, PTL DEF Spec

\* The variables keep their types (core/ap_client.py, core/rest_hints.py).
THEOREM HintTypes == Spec => []TypeOK
<1>1. Inv => TypeOK
  BY DEF Inv
<1> QED BY <1>1, Invariance, PTL

\* However many roads a hint comes by, and however often the connection and the
\* bridge restart, _ingest_hint_storage and _handle_print_json announce it once.
THEOREM NoHintTwice == Spec => []AnnouncedOnce
<1>1. Inv => AnnouncedOnce
  <2> SUFFICES ASSUME Inv, NEW h \in Hint PROVE announced[h] <= 1
    BY DEF AnnouncedOnce
  <2>1. announced[h] \in Nat /\ (announced[h] # 0 => announced[h] = 1)
    BY DEF Inv, TypeOK, AnnouncedOK
  <2> QED BY <2>1
<1> QED BY <1>1, Invariance, PTL

\* _hints of a slot holds hints of its own that the server has, and none as found
\* before its item is.
THEOREM HintsAreReal == Spec => []OnlyRealHints
<1>1. Inv => OnlyRealHints
  BY DEF Inv
<1> QED BY <1>1, Invariance, PTL

\* Once the packets are read and the save is merged, set_hints, _track_hint and
\* apply_saved_states have left each slot with the server's statuses, but for the
\* receiver of a priority hint whose print _track_hint read as unspecified.
THEOREM HintsCatchUp == Spec => []HintsExact
<1>1. Inv => HintsExact
  <2> SUFFICES ASSUME Inv, CaughtUp, NEW h \in Hint \ missed, NEW s \in Parties(h),
                      ~Edited(s, h)
               PROVE  held[s][h] = storage[h] \/ PrintedOver(s, h)
    BY DEF HintsExact
  <2>1. Answered /\ DOMAIN inbox = {} /\ ~unread /\ save.storage = storage
    BY DEF CaughtUp, Answered
  <2>2. Settled(s, h)
    BY <2>1 DEF Inv, ReadOK, Follows
  <2> QED BY <2>1, <2>2 DEF Settled, Right, PrintedOver
<1> QED BY <1>1, Invariance, PTL

\* And the merge's count of paid hints makes up for a confirmation that was lost.
THEOREM PaymentsCount == Spec => []PaidHintsCount
<1>1. Inv => PaidHintsCount
  BY DEF Inv, PaidOK, PaidHintsCount
<1> QED BY <1>1, Invariance, PTL
=============================================================================
