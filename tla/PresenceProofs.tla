--------------------------- MODULE PresenceProofs ---------------------------
(***************************************************************************)
(* Proofs about Presence, for any slots, clients, tags and bounds.         *)
(*                                                                         *)
(* First what each handler makes of one slot's record (it keeps SlotOK and *)
(* changes what the pages show only when it says so), then the inductive   *)
(* invariant, one lemma per action, and the theorems.                      *)
(***************************************************************************)
EXTENDS Presence, SequenceTheorems, TLAPS

\* What every slot's record satisfies; the inductive core.
SlotOK(p) ==
    /\ p \in SlotPresence
    /\ SlotConsistent(p)
    /\ p.deathLink = LiveDeathLink(p.tags)

-----------------------------------------------------------------------------
(* Operators on one slot *)

\* A choice among some indices of a sequence is an index of it, since the
\* default is the last one.
LEMMA PickInRange ==
    ASSUME NEW n \in Nat \ {0}, NEW I \in SUBSET (1..n)
    PROVE  Pick(I, n) \in 1..n
<1>1. CASE I = {}
  BY <1>1 DEF Pick
<1>2. CASE I # {}
  <2>1. (CHOOSE i \in I : TRUE) \in I
    BY <1>2
  <2>2. Pick(I, n) = CHOOSE i \in I : TRUE
    BY <1>2 DEF Pick
  <2> QED
    BY <2>1, <2>2
<1> QED
  BY <1>1, <1>2

\* RemoveAt shortens a sequence by one and keeps its elements' type.
LEMMA RemoveAtProperties ==
    ASSUME NEW S, NEW s \in Seq(S), NEW i \in 1..Len(s)
    PROVE  RemoveAt(s, i) \in Seq(S) /\ Len(RemoveAt(s, i)) = Len(s) - 1
<1> DEFINE before == SubSeq(s, 1, i-1)
           after  == SubSeq(s, i+1, Len(s))
<1>0. Len(s) \in Nat /\ \A k \in 1..Len(s) : s[k] \in S
  BY LenProperties, ElementOfSeq
<1>1. before \in Seq(S) /\ Len(before) = i - 1
  <2>1. \A k \in 1..(i-1) : s[k] \in S
    BY <1>0
  <2>2. Len(before) = IF 1 <= i-1 THEN i-1-1+1 ELSE 0
    BY <1>0, <2>1, SubSeqProperties
  <2> QED
    BY <1>0, <2>1, <2>2, SubSeqProperties
<1>2. after \in Seq(S) /\ Len(after) = Len(s) - i
  <2>1. \A k \in (i+1)..Len(s) : s[k] \in S
    BY <1>0
  <2>2. Len(after) = IF i+1 <= Len(s) THEN Len(s)-(i+1)+1 ELSE 0
    BY <1>0, <2>1, SubSeqProperties
  <2> QED
    BY <1>0, <2>1, <2>2, SubSeqProperties
<1> HIDE DEF before, after
<1>3. before \o after \in Seq(S) /\ Len(before \o after) = (i-1) + (Len(s)-i)
  BY <1>0, <1>1, <1>2, ConcatProperties
<1>4. RemoveAt(s, i) = before \o after
  BY DEF RemoveAt, before, after
<1> QED
  BY <1>0, <1>3, <1>4

\* ReplaceAt keeps a sequence's length and its elements' type.
LEMMA ReplaceAtProperties ==
    ASSUME NEW S, NEW s \in Seq(S), NEW i \in 1..Len(s), NEW e \in S
    PROVE  ReplaceAt(s, i, e) \in Seq(S) /\ Len(ReplaceAt(s, i, e)) = Len(s)
BY ExceptSeq DEF ReplaceAt

\* The badge computed from any tags is a badge.
LEMMA LiveDeathLinkType == \A entries : LiveDeathLink(entries) \in DeathLinkView
BY DEF LiveDeathLink, DeathLinkView

\* Refreshing the badge restores the last part of SlotOK.
LEMMA RefreshOK ==
    ASSUME NEW p \in SlotPresence, SlotConsistent(p)
    PROVE  SlotOK(RefreshDeathLink(p)) /\ RefreshDeathLink(p).count = p.count
BY LiveDeathLinkType DEF SlotOK, SlotPresence, SlotConsistent, RefreshDeathLink

\* A Join keeps the record consistent and owns up to what it changes.
LEMMA JoinOK ==
    ASSUME NEW p, SlotOK(p), NEW tags \in SUBSET Tag,
           NEW q, q = RefreshDeathLink(ClientJoined(p, tags))
    PROVE  /\ SlotOK(q)
           /\ ~JoinChanges(p, tags) /\ q.deathLink = p.deathLink
                => Shown(q) = Shown(p)
<1> DEFINE r == ClientJoined(p, tags)
<1>0. p \in SlotPresence /\ SlotConsistent(p) /\ p.tags \in Seq(SUBSET Tag)
      /\ p.count \in Nat /\ p.provisional \in BOOLEAN
  BY DEF SlotOK, SlotPresence
<1>1. CASE ~IsPlayingClient(tags)
  <2>1. r = p
    BY <1>1 DEF ClientJoined
  <2> QED
    BY <1>0, <2>1, RefreshOK DEF Shown
<1>2. CASE IsPlayingClient(tags)
  <2>1. Append(p.tags, tags) \in Seq(SUBSET Tag)
        /\ Len(Append(p.tags, tags)) = Len(p.tags) + 1
    BY <1>0, AppendProperties
  <2>2. p.provisional => Len(p.tags) = 0
    BY <1>0 DEF SlotConsistent
  <2>3. /\ r.count = IF p.provisional THEN 1 ELSE p.count + 1
        /\ r.provisional = FALSE
        /\ r.tags = Append(p.tags, tags)
        /\ r \in SlotPresence
    <3> DEFINE n == IF p.provisional THEN 1 ELSE p.count + 1
               t == Append(p.tags, tags)
    <3>1. r = [p EXCEPT !.count = n, !.provisional = FALSE, !.tags = t]
      BY <1>2 DEF ClientJoined
    <3>2. n \in Nat /\ t \in Seq(SUBSET Tag)
      BY <1>0, <2>1
    <3> HIDE DEF n, t, r
    <3>3. /\ r \in SlotPresence
          /\ r.count = n /\ r.provisional = FALSE /\ r.tags = t
      BY <1>0, <3>1, <3>2 DEF SlotPresence
    <3> QED
      BY <3>3 DEF n, t
  <2>4. SlotConsistent(r)
    BY <1>0, <2>1, <2>2, <2>3 DEF SlotConsistent
  <2>5. SlotOK(q) /\ q.count = r.count
    BY <2>3, <2>4, RefreshOK
  <2>6. ~JoinChanges(p, tags) => p.count > 0 /\ r.count > 0
    BY <1>0, <1>2, <2>3 DEF JoinChanges
  <2> QED
    BY <1>0, <2>5, <2>6 DEF Shown
<1> QED
  BY <1>1, <1>2

\* Likewise a Part.
LEMMA PartOK ==
    ASSUME NEW p, SlotOK(p), NEW tags \in SUBSET Tag,
           NEW q, q = RefreshDeathLink(ClientLeft(p, tags))
    PROVE  /\ SlotOK(q)
           /\ ~PartChanges(p, tags) /\ q.deathLink = p.deathLink
                => Shown(q) = Shown(p)
<1> DEFINE r == ClientLeft(p, tags)
<1>0. p \in SlotPresence /\ SlotConsistent(p) /\ p.tags \in Seq(SUBSET Tag)
      /\ p.count \in Nat /\ p.provisional \in BOOLEAN
  BY DEF SlotOK, SlotPresence
<1>1. CASE ~IsPlayingClient(tags)
  <2>1. r = p
    BY <1>1 DEF ClientLeft
  <2> QED
    BY <1>0, <2>1, RefreshOK DEF Shown
<1>2. CASE IsPlayingClient(tags) /\ Remaining(p) = 0
  <2>1. <<>> \in Seq(SUBSET Tag) /\ Len(<<>>) = 0
    OBVIOUS
  <2>2. /\ r.count = 0 /\ r.provisional = FALSE /\ r.tags = <<>>
        /\ r \in SlotPresence
    <3>1. r = [p EXCEPT !.count = 0, !.provisional = FALSE, !.tags = <<>>]
      BY <1>2 DEF ClientLeft
    <3> HIDE DEF r
    <3> QED
      BY <1>0, <2>1, <3>1 DEF SlotPresence
  <2>3. SlotConsistent(r)
    BY <2>1, <2>2 DEF SlotConsistent
  <2>4. SlotOK(q)
    BY <2>2, <2>3, RefreshOK
  <2> QED
    BY <1>2, <2>4 DEF PartChanges
<1>3. CASE IsPlayingClient(tags) /\ Remaining(p) # 0
  <2>1. /\ ~p.provisional /\ p.count > 1 /\ Remaining(p) = p.count - 1
        /\ Len(p.tags) = p.count /\ p.tags # <<>>
    BY <1>0, <1>3 DEF Remaining, SlotConsistent
  <2> DEFINE i == LeavingIndex(p.tags, tags)
  <2>2. i \in 1..Len(p.tags)
    <3> DEFINE I == {k \in DOMAIN p.tags :
                       /\ p.tags[k] = tags
                       /\ \A j \in DOMAIN p.tags : j > k => p.tags[j] # tags}
    <3>1. I \in SUBSET (1..Len(p.tags)) /\ Len(p.tags) \in Nat \ {0}
      BY <1>0, <2>1
    <3> HIDE DEF I
    <3>2. Pick(I, Len(p.tags)) \in 1..Len(p.tags)
      BY <3>1, PickInRange
    <3> QED
      BY <3>2 DEF LeavingIndex, I
  <2> HIDE DEF i
  <2>3. RemoveAt(p.tags, i) \in Seq(SUBSET Tag)
        /\ Len(RemoveAt(p.tags, i)) = Len(p.tags) - 1
    BY <1>0, <2>2, RemoveAtProperties
  <2>4. /\ r.count = p.count - 1 /\ r.provisional = FALSE
        /\ r.tags = RemoveAt(p.tags, i)
        /\ r \in SlotPresence
    <3> DEFINE t == RemoveAt(p.tags, i)
    <3>1. r = [p EXCEPT !.count = p.count - 1, !.provisional = FALSE, !.tags = t]
      BY <1>3, <2>1 DEF ClientLeft, i
    <3>2. p.count - 1 \in Nat
      BY <1>0, <2>1
    <3> HIDE DEF r, t
    <3>3. t \in Seq(SUBSET Tag)
      BY <2>3 DEF t
    <3>4. /\ r \in SlotPresence
          /\ r.count = p.count - 1 /\ r.provisional = FALSE /\ r.tags = t
      BY <1>0, <3>1, <3>2, <3>3 DEF SlotPresence
    <3> QED
      BY <3>4 DEF t
  <2>5. SlotConsistent(r)
    BY <1>0, <2>1, <2>3, <2>4 DEF SlotConsistent
  <2>6. SlotOK(q) /\ q.count = r.count
    BY <2>4, <2>5, RefreshOK
  <2> QED
    BY <1>0, <2>1, <2>4, <2>6 DEF Shown
<1> QED
  BY <1>1, <1>2, <1>3

\* Likewise a change of tags, which never changes the count.
LEMMA TagsChangedOK ==
    ASSUME NEW p, SlotOK(p), NEW tags \in SUBSET Tag,
           NEW q, q = RefreshDeathLink(ClientTagsChanged(p, tags))
    PROVE  SlotOK(q) /\ (q.deathLink = p.deathLink => Shown(q) = Shown(p))
<1> DEFINE r == ClientTagsChanged(p, tags)
<1>0. p \in SlotPresence /\ SlotConsistent(p) /\ p.tags \in Seq(SUBSET Tag)
      /\ p.count \in Nat /\ p.provisional \in BOOLEAN
  BY DEF SlotOK, SlotPresence
<1>1. CASE p.tags = <<>> \/ ~IsPlayingClient(tags)
  <2>1. r = p
    BY <1>1 DEF ClientTagsChanged
  <2> QED
    BY <1>0, <2>1, RefreshOK DEF Shown
<1>2. CASE p.tags # <<>> /\ IsPlayingClient(tags)
  <2> DEFINE i == ChangedIndex(p.tags, tags)
             toggled(e) == (e \ tags) \cup (tags \ e) = {"DeathLink"}
             I == {k \in DOMAIN p.tags :
                     /\ toggled(p.tags[k])
                     /\ \A j \in DOMAIN p.tags : j < k => ~toggled(p.tags[j])}
  <2>1. i \in 1..Len(p.tags)
    <3>1. I \in SUBSET (1..Len(p.tags)) /\ Len(p.tags) \in Nat \ {0}
      BY <1>0, <1>2
    <3>2. Pick(I, Len(p.tags)) \in 1..Len(p.tags)
      <4> HIDE DEF I
      <4> QED
        BY <3>1, PickInRange
    <3>3. i = Pick(I, Len(p.tags))
      BY DEF ChangedIndex
    <3> QED
      BY <3>2, <3>3
  <2> HIDE DEF i, I
  <2>2. ReplaceAt(p.tags, i, tags) \in Seq(SUBSET Tag)
        /\ Len(ReplaceAt(p.tags, i, tags)) = Len(p.tags)
    BY <1>0, <2>1, ReplaceAtProperties
  <2>3. /\ r.count = p.count /\ r.provisional = p.provisional
        /\ r.tags = ReplaceAt(p.tags, i, tags)
        /\ r \in SlotPresence
    BY <1>0, <1>2, <2>2 DEF ClientTagsChanged, SlotPresence, i
  <2>4. ~p.provisional
    BY <1>0, <1>2 DEF SlotConsistent
  <2>5. SlotConsistent(r)
    BY <1>0, <2>2, <2>3, <2>4 DEF SlotConsistent
  <2>6. SlotOK(q) /\ q.count = r.count
    BY <2>3, <2>5, RefreshOK
  <2> QED
    BY <2>3, <2>6 DEF Shown
<1> QED
  BY <1>1, <1>2

\* The record of a slot nobody holds.
LEMMA NobodyOK == SlotOK(Nobody)
BY DEF SlotOK, Nobody, SlotPresence, SlotConsistent, LiveDeathLink, DeathLinkView

\* Likewise the server's word, which may empty a slot or fill an empty one.
LEMMA StatusOK ==
    ASSUME NEW p, SlotOK(p), NEW s, NEW value,
           NEW q, q = ApplyServerStatus(s, p, value)
    PROVE  SlotOK(q) /\ (~StatusChanges(s, p, value) => Shown(q) = Shown(p))
<1>0. /\ p \in SlotPresence /\ SlotConsistent(p)
      /\ p.tags \in Seq(SUBSET Tag) /\ p.count \in Nat /\ p.provisional \in BOOLEAN
      /\ p.deathLink = LiveDeathLink(p.tags) /\ p.deathLink \in DeathLinkView
  BY DEF SlotOK, SlotPresence
<1>1. CASE q = p
  BY <1>1 DEF Shown
<1>2. CASE s # MySlot /\ value = 0 /\ p.count = 0 /\ p.tags = <<>>
  <2>1. q = [p EXCEPT !.provisional = FALSE]
    BY <1>2 DEF ApplyServerStatus
  <2>2. q \in SlotPresence /\ q.count = 0 /\ q.tags = <<>> /\ ~q.provisional
        /\ q.deathLink = p.deathLink
    BY <1>0, <1>2, <2>1 DEF SlotPresence
  <2>3. SlotOK(q)
    BY <1>0, <1>2, <2>2 DEF SlotOK, SlotConsistent
  <2> QED
    BY <1>2, <2>2, <2>3 DEF Shown
<1>3. CASE s # MySlot /\ value = 0 /\ ~(p.count = 0 /\ p.tags = <<>>)
  <2> DEFINE r == [p EXCEPT !.count = 0, !.tags = <<>>, !.provisional = FALSE]
  <2>1. q = RefreshDeathLink(r)
    BY <1>3 DEF ApplyServerStatus
  <2>2. r \in SlotPresence /\ r.count = 0 /\ r.tags = <<>> /\ ~r.provisional
    <3>1. r = [p EXCEPT !.count = 0, !.provisional = FALSE, !.tags = <<>>]
      OBVIOUS
    <3>2. <<>> \in Seq(SUBSET Tag)
      OBVIOUS
    <3> HIDE DEF r
    <3> QED
      BY <1>0, <3>1, <3>2 DEF SlotPresence
  <2>3. SlotConsistent(r)
    BY <2>2 DEF SlotConsistent
  <2>4. SlotOK(q)
    BY <2>1, <2>2, <2>3, RefreshOK
  <2>5. p.count > 0
    BY <1>0, <1>3 DEF SlotConsistent
  <2> QED
    BY <1>3, <2>4, <2>5 DEF StatusChanges
<1>4. CASE s # MySlot /\ value # 0 /\ value \in PlayingStatuses /\ p.count = 0
  <2>1. q = [p EXCEPT !.count = 1, !.provisional = TRUE]
    BY <1>4 DEF ApplyServerStatus
  <2>2. p.tags = <<>>
    BY <1>0, <1>4 DEF SlotConsistent
  <2>3. q \in SlotPresence /\ q.count = 1 /\ q.tags = <<>> /\ q.provisional
        /\ q.deathLink = p.deathLink
    <3>1. q.count = 1 /\ q.provisional = TRUE
          /\ q.tags = p.tags /\ q.deathLink = p.deathLink
      BY <1>0, <2>1 DEF SlotPresence
    <3>2. q \in SlotPresence
      <4>1. q = [count |-> 1, tags |-> p.tags, provisional |-> TRUE,
                 deathLink |-> p.deathLink]
        BY <1>0, <2>1 DEF SlotPresence
      <4> QED
        BY <1>0, <4>1 DEF SlotPresence
    <3>3. q.provisional
      BY <3>1, Zenon
    <3> QED
      BY <2>2, <3>1, <3>2, <3>3, Zenon
  <2>4. SlotOK(q)
    BY <1>0, <2>2, <2>3 DEF SlotOK, SlotConsistent
  <2> QED
    BY <1>4, <2>4 DEF StatusChanges
<1> QED
  BY <1>1, <1>2, <1>3, <1>4 DEF ApplyServerStatus

-----------------------------------------------------------------------------
(* The inductive invariant *)

\* Nothing is on its way, either way, before the server has accepted the bridge.
QuietUnlessAttached ==
    conn # "attached" => inbox = <<>> /\ requests = <<>>

BridgeOK ==
    /\ presence \in [Slots -> SlotPresence]
    /\ published \in [Slots -> [held : BOOLEAN, deathLink : DeathLinkView]]
    /\ \A s \in Slots : SlotOK(presence[s])
    /\ PublishedIsCurrent
    /\ NobodyWhileDown

LinkOK ==
    /\ conn \in {"down", "open", "attached"}
    /\ attaches \in 0..MaxAttach
    /\ inbox \in Seq(Packet)
    /\ requests \in Seq({"Get", "SetNotify"})
    /\ subscribed \in BOOLEAN
    /\ preexisting \subseteq Slots
    /\ QuietUnlessAttached

ServerOK ==
    /\ online \subseteq Clients
    /\ deathLinks \subseteq Clients
    /\ status \in [Slots -> Status]

IInv == BridgeOK /\ LinkOK /\ ServerOK

\* A snapshot of well-formed records has the type of what is broadcast.
LEMMA SnapshotType ==
    ASSUME NEW ps, \A s \in Slots : SlotOK(ps[s])
    PROVE  Snapshot(ps) \in [Slots -> [held : BOOLEAN, deathLink : DeathLinkView]]
<1>1. \A s \in Slots : Shown(ps[s]) \in [held : BOOLEAN, deathLink : DeathLinkView]
  <2> TAKE s \in Slots
  <2>1. ps[s].deathLink \in DeathLinkView
    BY DEF SlotOK, SlotPresence
  <2>2. (ps[s].count > 0) \in BOOLEAN
    OBVIOUS
  <2> QED
    BY <2>1, <2>2 DEF Shown
<1> QED
  BY <1>1 DEF Snapshot

\* The shape all per-slot handlers share: one slot's record is replaced by a
\* well-formed one, and a broadcast follows unless it shows the same.
LEMMA HandleOneSlot ==
    ASSUME BridgeOK, conn' # "down",
           NEW t \in Slots, NEW q, SlotOK(q),
           NEW changed \in BOOLEAN, ~changed => Shown(q) = Shown(presence[t]),
           presence' = [presence EXCEPT ![t] = q],
           BroadcastIf(changed)
    PROVE  BridgeOK'
<1>1. q \in SlotPresence
  BY DEF SlotOK
<1>2. presence' \in [Slots -> SlotPresence]
  BY <1>1 DEF BridgeOK
<1>3. \A s \in Slots : SlotOK(presence'[s])
  BY DEF BridgeOK
<1>4. published' = Snapshot(presence')
  <2>1. CASE changed
    BY <2>1 DEF BroadcastIf
  <2>2. CASE ~changed
    <3>1. \A s \in Slots : Shown(presence'[s]) = Shown(presence[s])
      BY <2>2 DEF BridgeOK
    <3>2. Snapshot(presence') = Snapshot(presence)
      BY <3>1 DEF Snapshot
    <3> QED
      BY <2>2, <3>2 DEF BridgeOK, PublishedIsCurrent, BroadcastIf
  <2> QED
    BY <2>1, <2>2
<1>5. published' \in [Slots -> [held : BOOLEAN, deathLink : DeathLinkView]]
  BY <1>3, <1>4, SnapshotType
<1> QED
  BY <1>2, <1>3, <1>4, <1>5 DEF BridgeOK, PublishedIsCurrent, NobodyWhileDown

\* Taking a packet off the connection: it is a packet, and there is a
\* connection to take it from.
LEMMA ReceiveOK ==
    ASSUME IInv, NEW type, Receive(type)
    PROVE  /\ conn = "attached"
           /\ Head(inbox) \in Packet /\ Head(inbox).type = type
           /\ inbox' \in Seq(Packet)
BY HeadTailProperties DEF IInv, LinkOK, QuietUnlessAttached, Receive

\* What a notice or a status packet carries.
LEMMA PacketFields ==
    ASSUME NEW m \in Packet
    PROVE  /\ m.type \in {"Join", "Part", "TagsChanged"}
                => m.slot \in Slots /\ m.tags \in SUBSET Tag
           /\ m.type = "SetReply" => m.slot \in Slots /\ m.status \in Status
           /\ m.type = "Retrieved" => m.statuses \in [Slots -> Status]
BY DEF Packet

-----------------------------------------------------------------------------
(* One lemma per action *)

\* At first everybody is unknown and the pages show it.
LEMMA InitInv == ASSUME Init PROVE IInv
<1>1. \A s \in Slots : presence[s] = Nobody /\ SlotOK(presence[s])
  BY NobodyOK DEF Init
<1>2. Nobody \in SlotPresence
  BY NobodyOK DEF SlotOK
<1>3. published \in [Slots -> [held : BOOLEAN, deathLink : DeathLinkView]]
  BY <1>1, SnapshotType DEF Init
<1>4. BridgeOK
  BY <1>1, <1>2, <1>3 DEF Init, BridgeOK, PublishedIsCurrent, NobodyWhileDown
<1>5. LinkOK
  <2>1. inbox \in Seq(Packet) /\ requests \in Seq({"Get", "SetNotify"})
    BY EmptySeq DEF Init
  <2>2. attaches \in 0..MaxAttach
    BY SlotAssumption DEF Init
  <2> QED
    BY <2>1, <2>2 DEF Init, LinkOK, QuietUnlessAttached
<1>6. ServerOK
  BY SlotAssumption DEF Init, ServerOK, Status
<1> QED
  BY <1>4, <1>5, <1>6 DEF IInv

\* A Join disturbs one slot's record and what is published of it.
LEMMA JoinInv == ASSUME IInv, HandleJoin PROVE IInv'
<1> DEFINE m == Head(inbox)
           p == presence[m.slot]
           q == RefreshDeathLink(ClientJoined(p, m.tags))
           changed == JoinChanges(p, m.tags) \/ q.deathLink # p.deathLink
<1>1. conn = "attached" /\ m \in Packet /\ m.type = "Join" /\ inbox' \in Seq(Packet)
  BY ReceiveOK DEF HandleJoin
<1>2. m.slot \in Slots /\ m.tags \in SUBSET Tag
  BY <1>1, PacketFields
<1>3. SlotOK(p)
  BY <1>2 DEF IInv, BridgeOK
<1>4. SlotOK(q) /\ (~changed => Shown(q) = Shown(p))
  BY <1>2, <1>3, JoinOK
<1>5. presence' = [presence EXCEPT ![m.slot] = q] /\ BroadcastIf(changed)
  BY DEF HandleJoin
<1>6. changed \in BOOLEAN
  BY DEF JoinChanges
<1>7. BridgeOK'
  <2> HIDE DEF q, changed, m
  <2> QED
    BY <1>1, <1>2, <1>4, <1>5, <1>6, HandleOneSlot DEF IInv, HandleJoin
<1> QED
  BY <1>1, <1>7 DEF HandleJoin, IInv, LinkOK, QuietUnlessAttached, ServerOK, serverVars

\* Likewise a Part.
LEMMA PartInv == ASSUME IInv, HandlePart PROVE IInv'
<1> DEFINE m == Head(inbox)
           p == presence[m.slot]
           q == RefreshDeathLink(ClientLeft(p, m.tags))
           changed == PartChanges(p, m.tags) \/ q.deathLink # p.deathLink
<1>1. conn = "attached" /\ m \in Packet /\ m.type = "Part" /\ inbox' \in Seq(Packet)
  BY ReceiveOK DEF HandlePart
<1>2. m.slot \in Slots /\ m.tags \in SUBSET Tag
  BY <1>1, PacketFields
<1>3. SlotOK(p)
  BY <1>2 DEF IInv, BridgeOK
<1>4. SlotOK(q) /\ (~changed => Shown(q) = Shown(p))
  BY <1>2, <1>3, PartOK
<1>5. presence' = [presence EXCEPT ![m.slot] = q] /\ BroadcastIf(changed)
  BY DEF HandlePart
<1>6. changed \in BOOLEAN
  BY DEF PartChanges
<1>7. BridgeOK'
  <2> HIDE DEF q, changed, m
  <2> QED
    BY <1>1, <1>2, <1>4, <1>5, <1>6, HandleOneSlot DEF IInv, HandlePart
<1> QED
  BY <1>1, <1>7 DEF HandlePart, IInv, LinkOK, QuietUnlessAttached, ServerOK, serverVars

\* Likewise a change of tags.
LEMMA TagsChangedInv == ASSUME IInv, HandleTagsChanged PROVE IInv'
<1> DEFINE m == Head(inbox)
           p == presence[m.slot]
           q == RefreshDeathLink(ClientTagsChanged(p, m.tags))
           changed == q.deathLink # p.deathLink
<1>1. conn = "attached" /\ m \in Packet /\ m.type = "TagsChanged"
      /\ inbox' \in Seq(Packet)
  BY ReceiveOK DEF HandleTagsChanged
<1>2. m.slot \in Slots /\ m.tags \in SUBSET Tag
  BY <1>1, PacketFields
<1>3. SlotOK(p)
  BY <1>2 DEF IInv, BridgeOK
<1>4. SlotOK(q) /\ (~changed => Shown(q) = Shown(p))
  BY <1>2, <1>3, TagsChangedOK
<1>5. presence' = [presence EXCEPT ![m.slot] = q] /\ BroadcastIf(changed)
  BY DEF HandleTagsChanged
<1>6. changed \in BOOLEAN
  OBVIOUS
<1>7. BridgeOK'
  <2> HIDE DEF q, changed, m
  <2> QED
    BY <1>1, <1>2, <1>4, <1>5, <1>6, HandleOneSlot DEF IInv, HandleTagsChanged
<1> QED
  BY <1>1, <1>7 DEF HandleTagsChanged, IInv, LinkOK, QuietUnlessAttached, ServerOK,
                    serverVars

\* Likewise the server's word on one slot.
LEMMA SetReplyInv == ASSUME IInv, HandleSetReply PROVE IInv'
<1> DEFINE m == Head(inbox)
           p == presence[m.slot]
           q == ApplyServerStatus(m.slot, p, m.status)
           changed == StatusChanges(m.slot, p, m.status)
<1>1. conn = "attached" /\ m \in Packet /\ m.type = "SetReply" /\ inbox' \in Seq(Packet)
  BY ReceiveOK DEF HandleSetReply
<1>2. m.slot \in Slots
  BY <1>1, PacketFields
<1>3. SlotOK(p)
  BY <1>2 DEF IInv, BridgeOK
<1>4. SlotOK(q) /\ (~changed => Shown(q) = Shown(p))
  BY <1>3, StatusOK
<1>5. presence' = [presence EXCEPT ![m.slot] = q] /\ BroadcastIf(changed)
  BY DEF HandleSetReply
<1>6. changed \in BOOLEAN
  BY DEF StatusChanges
<1>7. BridgeOK'
  <2> HIDE DEF q, changed, m
  <2> QED
    BY <1>1, <1>2, <1>4, <1>5, <1>6, HandleOneSlot DEF IInv, HandleSetReply
<1> QED
  BY <1>1, <1>7 DEF HandleSetReply, IInv, LinkOK, QuietUnlessAttached, ServerOK,
                    serverVars

\* The snapshot of every slot's status, applied slot by slot.
LEMMA RetrievedInv == ASSUME IInv, HandleRetrieved PROVE IInv'
<1> DEFINE told == Head(inbox).statuses
           new(s) == ApplyServerStatus(s, presence[s], told[s])
           changed == \E s \in Slots : StatusChanges(s, presence[s], told[s])
<1>1. conn = "attached" /\ inbox' \in Seq(Packet)
  BY ReceiveOK DEF HandleRetrieved
<1>2. \A s \in Slots :
        /\ SlotOK(new(s))
        /\ ~StatusChanges(s, presence[s], told[s]) => Shown(new(s)) = Shown(presence[s])
  <2> TAKE s \in Slots
  <2>1. SlotOK(presence[s])
    BY DEF IInv, BridgeOK
  <2> QED
    BY <2>1, StatusOK
<1>3. presence' = [s \in Slots |-> new(s)] /\ BroadcastIf(changed)
  BY DEF HandleRetrieved
<1> HIDE DEF new
<1>4. \A s \in Slots : SlotOK(presence'[s]) /\ presence'[s] \in SlotPresence
  BY <1>2, <1>3 DEF SlotOK
<1>5. published' = Snapshot(presence')
  <2>1. CASE changed
    BY <1>3, <2>1 DEF BroadcastIf
  <2>2. CASE ~changed
    <3>1. \A s \in Slots : Shown(presence'[s]) = Shown(presence[s])
      BY <1>2, <1>3, <2>2
    <3>2. Snapshot(presence') = Snapshot(presence)
      BY <3>1 DEF Snapshot
    <3> QED
      BY <1>3, <2>2, <3>2 DEF IInv, BridgeOK, PublishedIsCurrent, BroadcastIf
  <2> QED
    BY <2>1, <2>2
<1>6. published' \in [Slots -> [held : BOOLEAN, deathLink : DeathLinkView]]
  BY <1>4, <1>5, SnapshotType
<1>7. presence' \in [Slots -> SlotPresence]
  BY <1>3, <1>4
<1>8. conn' = "attached"
  BY <1>1 DEF HandleRetrieved
<1>9. BridgeOK'
  BY <1>4, <1>5, <1>6, <1>7, <1>8 DEF BridgeOK, PublishedIsCurrent, NobodyWhileDown
<1> QED
  BY <1>1, <1>9 DEF HandleRetrieved, IInv, LinkOK, QuietUnlessAttached, ServerOK,
                    serverVars

\* Actions that leave the bridge's view alone and do not close the connection.
LEMMA BridgeUnchanged ==
    ASSUME BridgeOK, UNCHANGED bridgeVars, conn' = "down" => conn = "down"
    PROVE  BridgeOK'
BY DEF BridgeOK, bridgeVars, PublishedIsCurrent, NobodyWhileDown

\* Connected sends the two requests and broadcasts.
LEMMA ConnectedInv == ASSUME IInv, HandleConnected PROVE IInv'
<1>1. conn = "attached" /\ inbox' \in Seq(Packet)
  BY ReceiveOK DEF HandleConnected
<1>2. published' = published
  BY DEF HandleConnected, BroadcastIf, Snapshot, IInv, BridgeOK, PublishedIsCurrent
<1>3. BridgeOK'
  BY <1>1, <1>2, BridgeUnchanged DEF HandleConnected, IInv, bridgeVars
<1>4. <<"Get", "SetNotify">> \in Seq({"Get", "SetNotify"})
  OBVIOUS
<1> QED
  BY <1>1, <1>3, <1>4 DEF HandleConnected, IInv, LinkOK, QuietUnlessAttached,
                          ServerOK, serverVars

\* Forgetting everybody, whether or not there was somebody.
LEMMA ResetInv == ASSUME BridgeOK, ResetPresence PROVE BridgeOK'
<1> DEFINE changed == \E s \in Slots : \/ presence[s].count > 0
                                       \/ presence[s].deathLink # "unknown"
<1>1. \A s \in Slots : presence'[s] = Nobody /\ SlotOK(presence'[s])
  BY NobodyOK DEF ResetPresence
<1>2. presence' \in [Slots -> SlotPresence]
  BY NobodyOK DEF ResetPresence, SlotOK
<1>3. published' = Snapshot(presence')
  <2>1. CASE changed
    BY <2>1 DEF ResetPresence, BroadcastIf
  <2>2. CASE ~changed
    <3>1. \A s \in Slots : Shown(presence'[s]) = Shown(presence[s])
      <4> TAKE s \in Slots
      <4>1. presence[s].count \in Nat
        BY DEF BridgeOK, SlotPresence
      <4>2. presence[s].count = 0 /\ presence[s].deathLink = "unknown"
        BY <2>2, <4>1
      <4> QED
        BY <1>1, <4>2 DEF Shown, Nobody
    <3>2. Snapshot(presence') = Snapshot(presence)
      BY <3>1 DEF Snapshot
    <3>3. published' = published
      BY <2>2 DEF ResetPresence, BroadcastIf
    <3> QED
      BY <3>2, <3>3 DEF BridgeOK, PublishedIsCurrent
  <2> QED
    BY <2>1, <2>2
<1>4. published' \in [Slots -> [held : BOOLEAN, deathLink : DeathLinkView]]
  BY <1>1, <1>3, SnapshotType
<1> QED
  BY <1>1, <1>2, <1>3, <1>4 DEF BridgeOK, PublishedIsCurrent, NobodyWhileDown

\* A new connection starts from nobody.
LEMMA ConnectInv == ASSUME IInv, Connect PROVE IInv'
<1>1. BridgeOK'
  BY ResetInv DEF IInv, Connect
<1>2. attaches' \in 0..MaxAttach
  BY SlotAssumption DEF Connect, IInv, LinkOK
<1> QED
  BY <1>1, <1>2 DEF Connect, IInv, LinkOK, QuietUnlessAttached, ServerOK, serverVars

\* A lost connection leaves nobody, and nothing on its way.
LEMMA DisconnectInv == ASSUME IInv, Disconnect PROVE IInv'
<1>1. BridgeOK'
  BY ResetInv DEF IInv, Disconnect
<1>2. inbox' \in Seq(Packet) /\ requests' \in Seq({"Get", "SetNotify"})
  BY EmptySeq DEF Disconnect
<1>3. LinkOK'
  BY <1>2 DEF Disconnect, IInv, LinkOK, QuietUnlessAttached
<1>4. ServerOK'
  BY DEF Disconnect, IInv, ServerOK, Status
<1> QED
  BY <1>1, <1>3, <1>4 DEF IInv

-----------------------------------------------------------------------------
(* What the server puts on the connection are packets. *)

\* A printed notice is a packet.
LEMMA NoticeOK ==
    ASSUME NEW type \in {"Join", "Part", "TagsChanged"}, NEW s \in Slots,
           NEW tags \in SUBSET Tag
    PROVE  Notice(type, s, tags) \in Packet
BY DEF Notice, Packet

\* A status notification is at most one packet.
LEMMA StatusNoticeOK ==
    ASSUME NEW s \in Slots, NEW value \in Status
    PROVE  StatusNotice(s, value) \in Seq(Packet)
<1>1. [type |-> "SetReply", slot |-> s, status |-> value] \in Packet
  BY DEF Packet
<1> QED
  BY <1>1 DEF StatusNotice

\* A client's tags are tags.
LEMMA TagsOK == ASSUME NEW c \in Clients PROVE Tags(c) \in SUBSET Tag
<1>1. BaseTags[c] \subseteq Tag
  BY SlotAssumption
<1>2. "DeathLink" \in Tag
  BY SlotAssumption DEF BridgeTags
<1> QED
  BY <1>1, <1>2 DEF Tags

\* So is whatever is read of them in its Part.
LEMMA PartTagsOK ==
    ASSUME NEW c \in Clients, NEW tags \in PartTags(c)
    PROVE  tags \in SUBSET Tag
<1>1. PICK text \in PartTexts : tags = ReadAs(c, text)
  BY DEF PartTags
<1>2. text \in {"tags", "verb", "neither"}
  BY SlotAssumption
<1>3. BaseTags[c] \cap NonPlayingTags \in SUBSET Tag
  BY SlotAssumption
<1>4. Tags(c) \in SUBSET Tag
  BY TagsOK
<1>5. CASE text = "tags"
  BY <1>1, <1>4, <1>5 DEF ReadAs
<1>6. CASE text = "verb"
  BY <1>1, <1>3, <1>6 DEF ReadAs
<1>7. CASE text = "neither"
  BY <1>1, <1>7 DEF ReadAs
<1> QED
  BY <1>2, <1>5, <1>6, <1>7

\* Packets join the inbox of an attached bridge only.
LEMMA SendOK ==
    ASSUME LinkOK, NEW packets \in Seq(Packet), Send(packets)
    PROVE  inbox' \in Seq(Packet) /\ (conn # "attached" => inbox' = inbox)
<1>1. inbox \o packets \in Seq(Packet)
  BY ConcatProperties DEF LinkOK
<1> QED
  BY <1>1 DEF Send, LinkOK

\* A player's action: some packets are sent, the bridge does nothing yet.
LEMMA ClientStep ==
    ASSUME IInv, NEW packets \in Seq(Packet), Send(packets),
           UNCHANGED <<bridgeVars, conn, attaches, requests, subscribed, preexisting>>,
           ServerOK'
    PROVE  IInv'
<1>1. inbox' \in Seq(Packet) /\ (conn # "attached" => inbox' = inbox)
  BY SendOK DEF IInv
<1>2. BridgeOK'
  BY BridgeUnchanged DEF IInv, bridgeVars
<1> QED
  BY <1>1, <1>2 DEF IInv, LinkOK, QuietUnlessAttached

\* Attaching puts two packets in an empty inbox.
LEMMA AttachInv == ASSUME IInv, Attach PROVE IInv'
<1>1. [type |-> "Connected"] \in Packet
  BY DEF Packet
<1>2. Notice("Join", MySlot, BridgeTags) \in Packet
  BY SlotAssumption, NoticeOK
<1>3. inbox' \in Seq(Packet)
  <2> DEFINE a == [type |-> "Connected"]
             b == Notice("Join", MySlot, BridgeTags)
  <2>1. inbox' = <<a, b>>
    BY DEF Attach
  <2> HIDE DEF a, b
  <2> QED
    BY <1>1, <1>2, <2>1 DEF a, b
<1>4. BridgeOK'
  BY BridgeUnchanged DEF IInv, Attach
<1>5. ServerOK'
  BY DEF Attach, IInv, ServerOK, Status
<1>6. LinkOK'
  BY <1>3 DEF Attach, IInv, LinkOK, QuietUnlessAttached
<1> QED
  BY <1>4, <1>5, <1>6 DEF IInv

\* Both of the bridge's requests, once one of them is served.
LEMMA ServeOK ==
    ASSUME LinkOK, NEW r, Serve(r)
    PROVE  conn = "attached" /\ requests' \in Seq({"Get", "SetNotify"})
BY HeadTailProperties DEF LinkOK, QuietUnlessAttached, Serve

\* The answer to Get is a packet.
LEMMA ServeGetInv == ASSUME IInv, ServeGet PROVE IInv'
<1>1. conn = "attached" /\ requests' \in Seq({"Get", "SetNotify"})
  BY ServeOK DEF IInv, ServeGet
<1>2. [type |-> "Retrieved", statuses |-> status] \in Packet
  BY DEF IInv, ServerOK, Packet
<1>3. inbox' \in Seq(Packet)
  BY <1>2, AppendProperties DEF ServeGet, IInv, LinkOK
<1>4. BridgeOK'
  BY BridgeUnchanged DEF IInv, ServeGet
<1> QED
  BY <1>1, <1>3, <1>4 DEF ServeGet, IInv, LinkOK, QuietUnlessAttached, ServerOK,
                          serverVars

\* Subscribing changes nothing the bridge knows.
LEMMA ServeSetNotifyInv == ASSUME IInv, ServeSetNotify PROVE IInv'
<1>1. conn = "attached" /\ requests' \in Seq({"Get", "SetNotify"})
  BY ServeOK DEF IInv, ServeSetNotify
<1>2. BridgeOK'
  BY BridgeUnchanged DEF IInv, ServeSetNotify
<1> QED
  BY <1>1, <1>2 DEF ServeSetNotify, IInv, LinkOK, QuietUnlessAttached, ServerOK,
                    serverVars

\* A client connects: a notice, and a status if it is the first.
LEMMA ClientConnectsInv ==
    ASSUME IInv, NEW c \in Clients, ClientConnects(c) PROVE IInv'
<1> DEFINE s == SlotOf[c]
           first == status[s] = 0
           head == IF first THEN StatusNotice(s, 5) ELSE <<>>
           join == Notice("Join", s, Tags(c))
<1>1. s \in Slots
  BY SlotAssumption
<1>2. join \in Packet
  BY <1>1, TagsOK, NoticeOK
<1>3. head \in Seq(Packet)
  BY <1>1, StatusNoticeOK, EmptySeq DEF Status
<1>4. head \o <<join>> \in Seq(Packet)
  <2> HIDE DEF head, join
  <2> QED
    BY <1>2, <1>3, ConcatProperties
<1>5. ServerOK'
  BY DEF ClientConnects, IInv, ServerOK, Status
<1>6. Send(head \o <<join>>)
  BY DEF ClientConnects
<1>7. UNCHANGED <<bridgeVars, conn, attaches, requests, subscribed, preexisting>>
  BY DEF ClientConnects
<1> QED
  BY <1>4, <1>5, <1>6, <1>7, ClientStep

\* A client leaves: a notice, and a status if it is the last.
LEMMA ClientDisconnectsInv ==
    ASSUME IInv, NEW c \in Clients, ClientDisconnects(c) PROVE IInv'
<1> DEFINE s == SlotOf[c]
           clear == /\ status[s] # Goal
                    /\ \A d \in online \ {c} : SlotOf[d] # s
                    /\ ~(conn = "attached" /\ s = MySlot)
           head == IF clear THEN StatusNotice(s, 0) ELSE <<>>
<1>1. s \in Slots
  BY SlotAssumption
<1>2. PICK tags \in PartTags(c) : Send(head \o <<Notice("Part", s, tags)>>)
  BY DEF ClientDisconnects
<1> DEFINE part == Notice("Part", s, tags)
<1>3. part \in Packet
  BY <1>1, PartTagsOK, NoticeOK
<1>4. head \in Seq(Packet)
  BY <1>1, StatusNoticeOK, EmptySeq DEF Status
<1>5. head \o <<part>> \in Seq(Packet)
  <2> HIDE DEF head, part
  <2> QED
    BY <1>3, <1>4, ConcatProperties
<1>6. ServerOK'
  BY DEF ClientDisconnects, IInv, ServerOK, Status
<1>7. UNCHANGED <<bridgeVars, conn, attaches, requests, subscribed, preexisting>>
  BY DEF ClientDisconnects
<1> QED
  BY <1>2, <1>5, <1>6, <1>7, ClientStep

\* A client sets its slot's status.
LEMMA ClientPlaysInv ==
    ASSUME IInv, NEW c \in Clients, NEW value \in GameStatuses, ClientPlays(c, value)
    PROVE  IInv'
<1>1. SlotOf[c] \in Slots /\ value \in Status
  BY SlotAssumption DEF Status
<1>2. StatusNotice(SlotOf[c], value) \in Seq(Packet)
  BY <1>1, StatusNoticeOK
<1>3. ServerOK'
  BY <1>1 DEF ClientPlays, IInv, ServerOK
<1> QED
  BY <1>2, <1>3, ClientStep DEF ClientPlays

\* A client turns DeathLink on or off.
LEMMA ClientTogglesInv ==
    ASSUME IInv, NEW c \in Clients, ClientTogglesDeathLink(c) PROVE IInv'
<1>1. SlotOf[c] \in Slots
  BY SlotAssumption
<1>2. Tags(c)' \in SUBSET Tag
  <2>1. BaseTags[c] \subseteq Tag /\ "DeathLink" \in Tag
    BY SlotAssumption DEF BridgeTags
  <2> QED
    BY <2>1 DEF Tags
<1> DEFINE notice == Notice("TagsChanged", SlotOf[c], Tags(c)')
<1>3. notice \in Packet
  BY <1>1, <1>2, NoticeOK
<1>4. <<notice>> \in Seq(Packet)
  <2> HIDE DEF notice
  <2> QED
    BY <1>3
<1>5. ServerOK'
  BY DEF ClientTogglesDeathLink, IInv, ServerOK
<1> QED
  BY <1>4, <1>5, ClientStep DEF ClientTogglesDeathLink

-----------------------------------------------------------------------------
(* Every step, and the theorems *)

\* Every step keeps the inductive invariant: one case per action.
LEMMA StepInv == ASSUME IInv, [Next]_vars PROVE IInv'
<1>1. CASE Handle
  BY <1>1, ConnectedInv, JoinInv, PartInv, TagsChangedInv, RetrievedInv, SetReplyInv
     DEF Handle
<1>2. CASE Connect \/ Disconnect
  BY <1>2, ConnectInv, DisconnectInv
<1>3. CASE Attach \/ ServeGet \/ ServeSetNotify
  BY <1>3, AttachInv, ServeGetInv, ServeSetNotifyInv
<1>4. CASE Players
  BY <1>4, ClientConnectsInv, ClientDisconnectsInv, ClientPlaysInv, ClientTogglesInv
     DEF Players
<1>5. CASE UNCHANGED vars
  BY <1>5 DEF vars, bridgeVars, linkVars, serverVars, IInv, BridgeOK, LinkOK, ServerOK,
              PublishedIsCurrent, NobodyWhileDown, QuietUnlessAttached
<1> QED
  BY <1>1, <1>2, <1>3, <1>4, <1>5 DEF Next

LEMMA InductiveInvariant == Spec => []IInv
<1> QED
  BY InitInv, StepInv, PTL DEF Spec

\* Presence keeps its types, whatever the server sends and in whatever order.
THEOREM TypeCorrect == Spec => []TypeOK
<1>1. IInv => TypeOK
  BY DEF IInv, BridgeOK, LinkOK, ServerOK, TypeOK
<1> QED
  BY <1>1, InductiveInvariant, PTL

\* The count, the tag entries and the provisional mark of a slot always agree.
THEOREM CountsAgree == Spec => []CountMatchesTags
<1>1. IInv => CountMatchesTags
  BY DEF IInv, BridgeOK, SlotOK, CountMatchesTags
<1> QED
  BY <1>1, InductiveInvariant, PTL

\* The DeathLink badge never lags behind the clients it is computed from.
THEOREM DeathLinkFollows == Spec => []DeathLinkLive
<1>1. IInv => DeathLinkLive
  BY DEF IInv, BridgeOK, SlotOK, DeathLinkLive
<1> QED
  BY <1>1, InductiveInvariant, PTL

\* No change of presence goes unpublished, for any packets in any order: the
\* "changed" result of every handler is exact where it must be.
THEOREM NothingUnpublished == Spec => []PublishedIsCurrent
<1>1. IInv => PublishedIsCurrent
  BY DEF IInv, BridgeOK
<1> QED
  BY <1>1, InductiveInvariant, PTL

\* Nobody is held while the server is out of reach.
THEOREM DownMeansNobody == Spec => []NobodyWhileDown
<1>1. IInv => NobodyWhileDown
  BY DEF IInv, BridgeOK
<1> QED
  BY <1>1, InductiveInvariant, PTL
=============================================================================
