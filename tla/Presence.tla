------------------------------ MODULE Presence ------------------------------
(***************************************************************************)
(* Who holds a slot: the bridge's view of the multiworld server's clients. *)
(*                                                                         *)
(* The bridge learns of game clients from two sources that arrive on one   *)
(* FIFO connection: the Join/Part/TagsChanged notices the server prints    *)
(* for every client, and the server's own status of a slot, fetched once   *)
(* on attaching (Get) and then notified (SetNotify).  Clients that were    *)
(* there before the bridge attached never send a Join, so the status       *)
(* stands in for them "provisionally".  The connection may be lost at any  *)
(* moment; the bridge forgets everybody then and learns again.             *)
(*                                                                         *)
(* Source: core/ap_client.py.  The server and the game clients are outside *)
(* the repository: they are modelled from what that code expects of them.  *)
(***************************************************************************)
EXTENDS Integers, Sequences, FiniteSets, SequencesExt

CONSTANTS
    Slots,            \* the multiworld's slots (slot 0, the server, is not one)
    MySlot,           \* the slot the bridge attaches to
    Clients,          \* the game clients and trackers of the players
    SlotOf,           \* the slot each client connects to
    BaseTags,         \* each client's tags, DeathLink aside
    Tag,              \* tag names
    GameStatuses,     \* statuses a game client sends (StatusUpdate)
    DeathLinkers,     \* game clients whose game has a DeathLink to switch
    PartTexts,        \* what a Part's text may carry: a readable list of tags, only
                      \* one of the known verbs, or neither
    MaxInbox,         \* bound: packets on their way to the bridge
    MaxAttach         \* bound: connections the bridge opens

NonPlayingTags  == {"TextOnly", "Tracker", "HintGame"}
BridgeTags      == {"TextOnly", "DeathLink"}
PlayingStatuses == {10, 20}
Goal            == 30
Status          == {0, 5} \cup GameStatuses

ASSUME SlotAssumption ==
    /\ MySlot \in Slots
    /\ SlotOf \in [Clients -> Slots]
    /\ BaseTags \in [Clients -> SUBSET (Tag \ {"DeathLink"})]
    /\ BridgeTags \subseteq Tag
    /\ NonPlayingTags \subseteq Tag
    /\ GameStatuses \subseteq {10, 20, 30}
    /\ DeathLinkers \subseteq {c \in Clients : BaseTags[c] \cap NonPlayingTags = {}}
    /\ PartTexts \subseteq {"tags", "verb", "neither"} /\ PartTexts # {}
    /\ IsFiniteSet(Clients)
    /\ MaxInbox \in Nat /\ MaxAttach \in Nat

VARIABLES
    presence,    \* per slot: count, tags, provisional, deathLink
    published,   \* what the last state_changed broadcast showed of it
    conn,        \* the bridge's connection: "down", "open" or "attached"
    attaches,    \* connections opened so far (bounds the model)
    inbox,       \* packets on their way to the bridge, oldest first
    requests,    \* the bridge's Get and SetNotify on their way to the server
    subscribed,  \* the server has registered the bridge's SetNotify
    online,      \* clients connected to the server
    deathLinks,  \* clients playing with the DeathLink tag
    status,      \* the server's status of each slot
    preexisting  \* slots a game client held when the bridge attached

bridgeVars == <<presence, published>>
linkVars   == <<conn, attaches, inbox, requests, subscribed, preexisting>>
serverVars == <<online, deathLinks, status>>
vars       == <<bridgeVars, linkVars, serverVars>>

-----------------------------------------------------------------------------
(* One slot's presence record and the handlers' effect on it. *)

IsPlayingClient(tags) == tags \cap NonPlayingTags = {}

Nobody == [count |-> 0, tags |-> <<>>, provisional |-> FALSE,
           deathLink |-> "unknown"]

LiveDeathLink(entries) ==
    IF entries = <<>> THEN "unknown"
    ELSE IF \E i \in DOMAIN entries : "DeathLink" \in entries[i]
         THEN "on" ELSE "off"

RefreshDeathLink(p) == [p EXCEPT !.deathLink = LiveDeathLink(p.tags)]

Pick(indices, default) ==
    IF indices = {} THEN default ELSE CHOOSE i \in indices : TRUE

\* Variant for the mutation runs: the server's word is counted beside the join.
ClientJoined_Adds(p, tags) ==
    IF ~IsPlayingClient(tags) THEN p
    ELSE [p EXCEPT !.count = @ + 1, !.provisional = FALSE, !.tags = Append(@, tags)]

\* A real join replaces the server's word for the slot.
ClientJoined(p, tags) ==
    IF ~IsPlayingClient(tags) THEN p
    ELSE [p EXCEPT !.count       = IF p.provisional THEN 1 ELSE @ + 1,
                   !.provisional = FALSE,
                   !.tags        = Append(@, tags)]

JoinChanges(p, tags) == IsPlayingClient(tags) /\ ClientJoined(p, tags).count = 1

\* Variant: no floor at zero.
Remaining_NoFloor(p) == IF p.provisional THEN 0 ELSE p.count - 1

Remaining(p) == IF p.provisional \/ p.count = 0 THEN 0 ELSE p.count - 1

\* Variant: always the latest entry.
LeavingIndex_Latest(entries, tags) == Len(entries)

\* The latest entry with the leaving client's tags, else the latest one.
LeavingIndex(entries, tags) ==
    Pick({i \in DOMAIN entries :
            /\ entries[i] = tags
            /\ \A j \in DOMAIN entries : j > i => entries[j] # tags},
         Len(entries))

\* Variants: every Part counts; a provisional slot outlives a Part; a Part whose
\* tags match no entry is ignored.
ClientLeft_Anyone(p, tags) ==
    [p EXCEPT !.count = Remaining(p), !.provisional = FALSE,
              !.tags  = IF Remaining(p) = 0 \/ @ = <<>> THEN <<>>
                        ELSE RemoveAt(@, LeavingIndex(@, tags))]

ClientLeft_KeepsProvisional(p, tags) ==
    IF p.provisional \/ ~IsPlayingClient(tags) THEN p ELSE ClientLeft_Anyone(p, tags)

ClientLeft_KnownOnly(p, tags) ==
    IF ~p.provisional /\ \A i \in DOMAIN p.tags : p.tags[i] # tags THEN p
    ELSE ClientLeft_Anyone(p, tags)

ClientLeft(p, tags) ==
    IF ~IsPlayingClient(tags) THEN p
    ELSE [p EXCEPT !.count       = Remaining(p),
                   !.provisional = FALSE,
                   !.tags        = IF Remaining(p) = 0 \/ @ = <<>> THEN <<>>
                                   ELSE RemoveAt(@, LeavingIndex(@, tags))]

\* Variant: the last counted client leaving, the provisional case forgotten.
PartChanges_LastCounted(p, tags) ==
    IsPlayingClient(tags) /\ ~p.provisional /\ Remaining(p) = 0

PartChanges(p, tags) == IsPlayingClient(tags) /\ Remaining(p) = 0

\* The first entry that differs by DeathLink alone, else the latest one.
ChangedIndex(entries, tags) ==
    LET toggled(e) == (e \ tags) \cup (tags \ e) = {"DeathLink"} IN
    Pick({i \in DOMAIN entries :
            /\ toggled(entries[i])
            /\ \A j \in DOMAIN entries : j < i => ~toggled(entries[j])},
         Len(entries))

ClientTagsChanged(p, tags) ==
    IF p.tags = <<>> \/ ~IsPlayingClient(tags) THEN p
    ELSE [p EXCEPT !.tags = ReplaceAt(@, ChangedIndex(@, tags), tags)]

\* Variant: the DeathLink badge is not refreshed.
ApplyServerStatus_NoRefresh(s, p, value) ==
    IF s = MySlot THEN p
    ELSE IF value = 0 THEN [p EXCEPT !.count = 0, !.tags = <<>>, !.provisional = FALSE]
    ELSE IF value \in PlayingStatuses /\ p.count = 0
    THEN [p EXCEPT !.count = 1, !.provisional = TRUE]
    ELSE p

\* 0: the server knows of no client at all.  A game status on a slot nobody
\* is known to hold: somebody was there before the bridge.
ApplyServerStatus(s, p, value) ==
    IF s = MySlot THEN p
    ELSE IF value = 0
    THEN IF p.count = 0 /\ p.tags = <<>>
         THEN [p EXCEPT !.provisional = FALSE]
         ELSE RefreshDeathLink([p EXCEPT !.count = 0, !.tags = <<>>,
                                         !.provisional = FALSE])
    ELSE IF value \in PlayingStatuses /\ p.count = 0
    THEN [p EXCEPT !.count = 1, !.provisional = TRUE]
    ELSE p

StatusChanges(s, p, value) ==
    /\ s # MySlot
    /\ \/ value = 0 /\ p.count > 0
       \/ value \in PlayingStatuses /\ p.count = 0

\* What a state snapshot shows of a slot.
Shown(p) == [held |-> p.count > 0, deathLink |-> p.deathLink]

Snapshot(ps) == [s \in Slots |-> Shown(ps[s])]

\* The handler's closing `if state_changed: _broadcast_state_changed()`.
BroadcastIf(changed) ==
    published' = IF changed THEN Snapshot(presence') ELSE published

-----------------------------------------------------------------------------
(* The bridge: one action per packet handler, and the reconnect loop. *)

Receive(type) ==
    /\ inbox # <<>>
    /\ Head(inbox).type = type
    /\ inbox' = Tail(inbox)

\* Get and SetNotify leave one after the other: the server may serve other
\* clients in between.
HandleConnected ==
    /\ Receive("Connected")
    /\ requests' = <<"Get", "SetNotify">>
    /\ UNCHANGED presence
    /\ BroadcastIf(TRUE)
    /\ UNCHANGED <<conn, attaches, subscribed, preexisting, serverVars>>

HandleJoin ==
    /\ Receive("Join")
    /\ LET m == Head(inbox)
           p == presence[m.slot]
           q == RefreshDeathLink(ClientJoined(p, m.tags))
       IN  /\ presence' = [presence EXCEPT ![m.slot] = q]
           /\ BroadcastIf(JoinChanges(p, m.tags) \/ q.deathLink # p.deathLink)
    /\ UNCHANGED <<conn, attaches, requests, subscribed, preexisting, serverVars>>

HandlePart ==
    /\ Receive("Part")
    /\ LET m == Head(inbox)
           p == presence[m.slot]
           q == RefreshDeathLink(ClientLeft(p, m.tags))
       IN  /\ presence' = [presence EXCEPT ![m.slot] = q]
           /\ BroadcastIf(PartChanges(p, m.tags) \/ q.deathLink # p.deathLink)
    /\ UNCHANGED <<conn, attaches, requests, subscribed, preexisting, serverVars>>

HandleTagsChanged ==
    /\ Receive("TagsChanged")
    /\ LET m == Head(inbox)
           p == presence[m.slot]
           q == RefreshDeathLink(ClientTagsChanged(p, m.tags))
       IN  /\ presence' = [presence EXCEPT ![m.slot] = q]
           /\ BroadcastIf(q.deathLink # p.deathLink)
    /\ UNCHANGED <<conn, attaches, requests, subscribed, preexisting, serverVars>>

HandleRetrieved ==
    /\ Receive("Retrieved")
    /\ LET told == Head(inbox).statuses IN
       /\ presence' = [s \in Slots |-> ApplyServerStatus(s, presence[s], told[s])]
       /\ BroadcastIf(\E s \in Slots : StatusChanges(s, presence[s], told[s]))
    /\ UNCHANGED <<conn, attaches, requests, subscribed, preexisting, serverVars>>

HandleSetReply ==
    /\ Receive("SetReply")
    /\ LET m == Head(inbox)
           p == presence[m.slot]
       IN  /\ presence' = [presence EXCEPT
                             ![m.slot] = ApplyServerStatus(m.slot, p, m.status)]
           /\ BroadcastIf(StatusChanges(m.slot, p, m.status))
    /\ UNCHANGED <<conn, attaches, requests, subscribed, preexisting, serverVars>>

Handle == \/ HandleConnected \/ HandleJoin \/ HandlePart
          \/ HandleTagsChanged \/ HandleRetrieved \/ HandleSetReply

\* Variant: the provisional marks are not cleared.
ResetPresence_KeepsProvisional ==
    /\ presence' = [s \in Slots |->
                      [Nobody EXCEPT !.provisional = presence[s].provisional]]
    /\ BroadcastIf(\E s \in Slots : \/ presence[s].count > 0
                                    \/ presence[s].deathLink # "unknown")

\* Forget every client, and tell the pages if anything was known.
ResetPresence ==
    /\ presence' = [s \in Slots |-> Nobody]
    /\ BroadcastIf(\E s \in Slots : \/ presence[s].count > 0
                                    \/ presence[s].deathLink # "unknown")

Connect ==
    /\ conn = "down"
    /\ attaches < MaxAttach
    /\ conn' = "open"
    /\ attaches' = attaches + 1
    /\ ResetPresence
    /\ UNCHANGED <<inbox, requests, subscribed, preexisting, serverVars>>

\* The connection ends, for whatever reason; what was on its way is lost.
Disconnect ==
    /\ conn # "down"
    /\ attaches < MaxAttach
    /\ conn' = "down"
    /\ inbox' = <<>>
    /\ requests' = <<>>
    /\ subscribed' = FALSE
    /\ ResetPresence
    /\ UNCHANGED <<attaches, preexisting>>
    /\ UNCHANGED <<online, deathLinks>>
    /\ status' = IF conn = "attached" /\ status[MySlot] # Goal
                    /\ \A c \in online : SlotOf[c] # MySlot
                 THEN [status EXCEPT ![MySlot] = 0] ELSE status

-----------------------------------------------------------------------------
(* The server and the players' clients (external). *)

Tags(c) == BaseTags[c] \cup (IF c \in deathLinks THEN {"DeathLink"} ELSE {})

Plays(c) == IsPlayingClient(BaseTags[c])

Playing(s) == {c \in online : SlotOf[c] = s /\ Plays(c)}

Occupied(s) == \/ \E c \in online : SlotOf[c] = s
               \/ conn = "attached" /\ s = MySlot

\* What _part_tags makes of a Part: its tag list, else what its verb says, else a
\* game client's.
ReadAs(c, text) == CASE text = "tags"    -> Tags(c)
                  [] text = "verb"    -> BaseTags[c] \cap NonPlayingTags
                  [] text = "neither" -> {}

PartTags(c) == {ReadAs(c, text) : text \in PartTexts}

Notice(type, s, tags) == [type |-> type, slot |-> s, tags |-> tags]

StatusNotice(s, value) ==
    IF subscribed THEN <<[type |-> "SetReply", slot |-> s, status |-> value]>>
    ELSE <<>>

\* Everything printed reaches the bridge once it is attached.
Send(packets) ==
    /\ conn = "attached" => Len(inbox) < MaxInbox
    /\ inbox' = IF conn = "attached" THEN inbox \o packets ELSE inbox

\* The server accepts the bridge's Connect, and prints its Join like any other.
Attach ==
    /\ conn = "open"
    /\ conn' = "attached"
    /\ inbox' = <<[type |-> "Connected"], Notice("Join", MySlot, BridgeTags)>>
    /\ status' = [status EXCEPT ![MySlot] = IF @ = 0 THEN 5 ELSE @]
    /\ preexisting' = {s \in Slots : Playing(s) # {}}
    /\ UNCHANGED <<bridgeVars, attaches, requests, subscribed, online, deathLinks>>

Serve(request) ==
    /\ requests # <<>>
    /\ Head(requests) = request
    /\ requests' = Tail(requests)

ServeGet ==
    /\ Serve("Get")
    /\ inbox' = Append(inbox, [type |-> "Retrieved", statuses |-> status])
    /\ UNCHANGED <<bridgeVars, conn, attaches, subscribed, preexisting, serverVars>>

ServeSetNotify ==
    /\ Serve("SetNotify")
    /\ subscribed' = TRUE
    /\ UNCHANGED <<bridgeVars, conn, attaches, inbox, preexisting, serverVars>>

ClientConnects(c) ==
    LET s     == SlotOf[c]
        first == status[s] = 0
    IN  /\ c \notin online
        /\ online' = online \cup {c}
        /\ status' = IF first THEN [status EXCEPT ![s] = 5] ELSE status
        /\ Send((IF first THEN StatusNotice(s, 5) ELSE <<>>)
                \o <<Notice("Join", s, Tags(c))>>)
        /\ UNCHANGED <<bridgeVars, conn, attaches, requests, subscribed,
                       preexisting, deathLinks>>

\* The last client to leave a slot clears its status, a reached goal aside.
ClientDisconnects(c) ==
    LET s     == SlotOf[c]
        clear == /\ status[s] # Goal
                 /\ \A d \in online \ {c} : SlotOf[d] # s
                 /\ ~(conn = "attached" /\ s = MySlot)
    IN  /\ c \in online
        /\ online' = online \ {c}
        /\ status' = IF clear THEN [status EXCEPT ![s] = 0] ELSE status
        /\ \E tags \in PartTags(c) :
              Send((IF clear THEN StatusNotice(s, 0) ELSE <<>>)
                   \o <<Notice("Part", s, tags)>>)
        /\ UNCHANGED <<bridgeVars, conn, attaches, requests, subscribed,
                       preexisting, deathLinks>>

ClientPlays(c, value) ==
    LET s == SlotOf[c] IN
    /\ c \in online /\ Plays(c)
    /\ status[s] # Goal
    /\ status' = [status EXCEPT ![s] = value]
    /\ Send(StatusNotice(s, value))
    /\ UNCHANGED <<bridgeVars, conn, attaches, requests, subscribed,
                   preexisting, online, deathLinks>>

ClientTogglesDeathLink(c) ==
    /\ c \in online /\ c \in DeathLinkers
    /\ deathLinks' = IF c \in deathLinks THEN deathLinks \ {c}
                     ELSE deathLinks \cup {c}
    /\ Send(<<Notice("TagsChanged", SlotOf[c], Tags(c)')>>)
    /\ UNCHANGED <<bridgeVars, conn, attaches, requests, subscribed,
                   preexisting, online, status>>

-----------------------------------------------------------------------------

Init ==
    /\ presence = [s \in Slots |-> Nobody]
    /\ published = Snapshot(presence)
    /\ conn = "down"
    /\ attaches = 0
    /\ inbox = <<>>
    /\ requests = <<>>
    /\ subscribed = FALSE
    /\ online = {}
    /\ deathLinks \in SUBSET DeathLinkers
    /\ status = [s \in Slots |-> 0]
    /\ preexisting = {}

Players == \E c \in Clients :
             \/ ClientConnects(c)
             \/ ClientDisconnects(c)
             \/ \E value \in GameStatuses : ClientPlays(c, value)
             \/ ClientTogglesDeathLink(c)

Next == \/ Handle
        \/ Connect \/ Disconnect
        \/ Attach \/ ServeGet \/ ServeSetNotify
        \/ Players

Spec == Init /\ [][Next]_vars

\* The event loop keeps reading, the reconnect loop keeps trying and the
\* server answers; players owe nothing.
Fairness == /\ WF_vars(Handle)
            /\ WF_vars(Connect)
            /\ WF_vars(Attach)
            /\ WF_vars(ServeGet)
            /\ WF_vars(ServeSetNotify)

FairSpec == Spec /\ Fairness

-----------------------------------------------------------------------------
(* Correctness *)

DeathLinkView == {"unknown", "on", "off"}

SlotPresence == [count : Nat, tags : Seq(SUBSET Tag), provisional : BOOLEAN,
                 deathLink : DeathLinkView]

Packet == [type : {"Connected"}]
     \cup [type : {"Join", "Part", "TagsChanged"}, slot : Slots, tags : SUBSET Tag]
     \cup [type : {"SetReply"}, slot : Slots, status : Status]
     \cup [type : {"Retrieved"}, statuses : [Slots -> Status]]

\* The type invariant.
TypeOK ==
    /\ presence \in [Slots -> SlotPresence]
    /\ published \in [Slots -> [held : BOOLEAN, deathLink : DeathLinkView]]
    /\ conn \in {"down", "open", "attached"}
    /\ attaches \in 0..MaxAttach
    /\ inbox \in Seq(Packet)
    /\ requests \in Seq({"Get", "SetNotify"})
    /\ subscribed \in BOOLEAN
    /\ online \subseteq Clients
    /\ deathLinks \subseteq Clients
    /\ status \in [Slots -> Status]
    /\ preexisting \subseteq Slots

\* The three structures that describe a slot agree: a provisional slot counts
\* one unknown client and no tags; any other slot has one tag entry per client
\* it counts (_playing_clients, _slot_client_tags, _provisional_slots).
SlotConsistent(p) ==
    /\ p.provisional => p.count = 1 /\ p.tags = <<>>
    /\ ~p.provisional => Len(p.tags) = p.count

CountMatchesTags == \A s \in Slots : SlotConsistent(presence[s])

\* The DeathLink badge is what the slot's known clients say: unknown when
\* none is known, else on iff one of them carries the tag (death_link_live).
DeathLinkLive ==
    \A s \in Slots : presence[s].deathLink = LiveDeathLink(presence[s].tags)

\* Between two packets the pages show what the bridge knows: no handler changes
\* who holds a slot, or its DeathLink, without broadcasting it, although each
\* decides from its own "changed" result (_client_joined, _client_left, ...).
PublishedIsCurrent == published = Snapshot(presence)

\* Nobody is known to play while the server is out of reach
\* (_forget_presence_after_disconnect).
NobodyWhileDown == conn = "down" => \A s \in Slots : presence[s] = Nobody

\* The bridge has read everything the server sent it, and will be told more.
CaughtUp == conn = "attached" /\ subscribed /\ inbox = <<>>

Held(s) == presence[s].count > 0

\* Only game clients connect to the slot: no tracker, no chat client.
GamesOnly(s) == \A c \in Clients : SlotOf[c] = s => Plays(c)

\* A Part of the slot tells a game client from the others.
ToldApart(s) == GamesOnly(s) \/ "neither" \notin PartTexts

\* Once caught up, a slot nobody played when the bridge attached is counted
\* exactly, co-op partners, trackers and reconnections included, and Parts whose
\* tags match no entry. Two exceptions: it stands on the server's word, or a
\* tracker's Part had a text that reads as a game client's (_part_tags).
PresenceExact ==
    CaughtUp => \A s \in Slots \ preexisting :
        presence[s].provisional \/ ~ToldApart(s)
            \/ presence[s].count = Cardinality(Playing(s))

\* Likewise its DeathLink badge is that of the clients really playing, although
\* a Part or a TagsChanged names no client and several may share the slot.
DeathLinkExact ==
    CaughtUp => \A s \in Slots \ preexisting :
        ~presence[s].provisional /\ Held(s) =>
            (presence[s].deathLink = "on"
                <=> \E c \in Playing(s) : c \in deathLinks)

\* The count never exceeds the game clients really there: clients the bridge
\* missed make it low, never high, even on slots held before it attached.
NeverOvercounts ==
    CaughtUp => \A s \in Slots :
        presence[s].provisional \/ presence[s].count <= Cardinality(Playing(s))

\* The server's word is believed only where somebody is: a slot held
\* provisionally has a client on it. Exception: a slot a tracker connects to, as
\* one that outstays the game keeps the game's status up, then leaves before
\* SetNotify is served and is no game client (_apply_server_client_status).
NoGhostSlot ==
    CaughtUp => \A s \in Slots :
        GamesOnly(s) /\ presence[s].provisional => Occupied(s)

\* A slot everybody has left for good is in the end shown as empty, whatever the
\* bridge's connection went through meanwhile. Exception: the ghost above, on a
\* slot a tracker connects to; the clients counted there are still released.
QuietSlotReleased ==
    \A s \in Slots :
        <>[](\A c \in online : SlotOf[c] # s)
            => <>[](Held(s) => presence[s].provisional /\ ~GamesOnly(s))
=============================================================================
