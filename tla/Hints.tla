------------------------------- MODULE Hints -------------------------------
(***************************************************************************)
(* The hints of each slot, and their announcement on the feed.             *)
(*                                                                         *)
(* The multiworld server keeps, for each slot, the hints it is party to as *)
(* receiver or as finder.  The bridge gets them by four roads: the data    *)
(* storage, read once on attaching (Get, answered by Retrieved) and then   *)
(* notified (SetNotify, SetReply); the server's print of a new hint, sent  *)
(* to the slots involved only; the save file; and the pages' own requests, *)
(* made over a second connection as the slot itself.                       *)
(*                                                                         *)
(* Left out: the server's prints of a hint it had before, to whoever asks  *)
(* for it again; and two hints the code takes for one, because it knows a  *)
(* hint by its location (rest_hints.py 173) or by that and its item        *)
(* (state.py 172).                                                         *)
(*                                                                         *)
(* Source: core/ap_client.py, core/rest_hints.py, core/state.py and        *)
(* core/save_parser.py.  The server is external.                           *)
(***************************************************************************)
EXTENDS Integers, Sequences, FiniteSets, SequencesExt

CONSTANTS
    Slots,
    MySlot,       \* the slot the bridge attaches to
    Hint,         \* an item at a location: what may be hinted, once
    ReceiverOf, FinderOf,
    MadeAs,       \* the statuses each may be made with
    Quiet,        \* slots that did nothing yet: the save has no entry for them
    Pages,        \* requests: of a hint's new status (PATCH), of a paid hint (POST)
    Asked,        \* the statuses pages ask for
    MaxInbox,     \* bound: packets on their way to the bridge
    MaxSaves,     \* bound: saves the server writes
    MaxLinks,     \* bound: times the connection comes up
    MaxRestarts   \* bound: restarts of the bridge

Unhinted    == -1
Unspecified == 0
Priority    == 30
Found       == 40
New         == {Unspecified, Priority}    \* a hint just made: an admin's is a priority
Status      == New \cup {Found} \cup Asked

ASSUME HintAssumption ==
    /\ MySlot \in Slots
    /\ ReceiverOf \in [Hint -> Slots] /\ FinderOf \in [Hint -> Slots]
    /\ MadeAs \in [Hint -> SUBSET New]
    /\ Quiet \subseteq Slots
    /\ Asked \subseteq {0, 10, 20, 30, 40}
    /\ IsFiniteSet(Slots)
    /\ MaxInbox \in Nat /\ MaxSaves \in Nat /\ MaxLinks \in Nat /\ MaxRestarts \in Nat

Parties(h) == {ReceiverOf[h], FinderOf[h]}

VARIABLES
    storage,     \* server: status of each hint
    paid,        \* server: hints each slot has paid for
    save,        \* the save file: storage and paid when it was written
    saves,       \* times it was written
    link,        \* the bridge's connection is up
    links,       \* times it came up
    requests,    \* its Get and SetNotify on their way
    subscribed,  \* the server has registered its SetNotify
    inbox,       \* packets on their way to the bridge
    missed,      \* hints changed between the serving of Get and of SetNotify
    held,        \* _hints of each slot: the status of those it holds
    used,        \* hints_used of each slot
    unread,      \* the save is newer than the last one merged (_save_mtime)
    seen,        \* _seen_feed_hints
    announced,   \* how often each hint went to the feed
    pages,       \* where each request stands
    restarts

serverVars  == <<storage, paid>>
linkVars    == <<link, links, requests, subscribed, missed>>
saveVars    == <<save, saves>>
feedVars    == <<seen, announced>>
vars == <<serverVars, saveVars, linkVars, inbox, held, used, unread, feedVars,
          pages, restarts>>

\* Variant: the keys of every slot are read as one.
Of_Everyones(value, s) == value

\* The hints of a slot's key, of a copy of the storage.
Of(value, s) == [h \in Hint |-> IF s \in Parties(h) THEN value[h] ELSE Unhinted]

Known(hints) == {h \in Hint : hints[h] # Unhinted}

-----------------------------------------------------------------------------
(* Packets. A storage packet carries keys: those of Retrieved, the one of   *)
(* SetReply. Its keys are ingested one by one, with awaits in between.      *)

Retrieved == [type |-> "storage", slots |-> Slots, value |-> storage,
              announce |-> FALSE, begun |-> FALSE]

SetReply(s, value) == [type |-> "storage", slots |-> {s}, value |-> Of(value, s),
                       announce |-> TRUE, begun |-> FALSE]

\* The print of a new hint has no status.
HintPrint(h) == [type |-> "print", hint |-> h]

Reading(type) == inbox # <<>> /\ Head(inbox).type = type

\* Hints of the packet's key that the feed has not seen.
Unseen(packet, s) == Known(Of(packet.value, s)) \ seen

Announce(h) == announced' = [announced EXCEPT ![h] = @ + 1]

\* _ingest_hint_storage of a live key: a new hint is marked, then announced; the
\* others and the storing wait for its broadcast and its push.
AnnounceNew ==
    /\ Reading("storage")
    /\ Head(inbox).announce
    /\ \E s \in Head(inbox).slots : \E h \in Unseen(Head(inbox), s) :
          /\ seen' = seen \cup {h}
          /\ Announce(h)
    /\ inbox' = <<[Head(inbox) EXCEPT !.begun = TRUE]>> \o Tail(inbox)
    /\ UNCHANGED <<serverVars, saveVars, linkVars, held, used, unread, pages,
                   restarts>>

\* Variant: what a Retrieved holds is not marked as seen.
StoreHints_Unmarked ==
    /\ Reading("storage")
    /\ LET packet == Head(inbox) IN
       \E s \in packet.slots :
          LET rest == packet.slots \ {s} IN
          /\ packet.announce => Unseen(packet, s) = {}
          /\ held' = [held EXCEPT ![s] = Of(packet.value, s)]
          /\ inbox' = IF rest = {} THEN Tail(inbox)
                      ELSE <<[packet EXCEPT !.slots = rest, !.begun = TRUE]>>
                           \o Tail(inbox)
    /\ UNCHANGED <<serverVars, saveVars, linkVars, used, unread, feedVars, pages,
                   restarts>>

\* Variant: hints are added, those held already are left as they are.
StoreHints_AddsOnly ==
    /\ Reading("storage")
    /\ LET packet == Head(inbox) IN
       \E s \in packet.slots :
          LET rest == packet.slots \ {s} IN
          /\ packet.announce => Unseen(packet, s) = {}
          /\ seen' = seen \cup Unseen(packet, s)
          /\ held' = [held EXCEPT ![s] =
                        [h \in Hint |-> IF @[h] # Unhinted THEN @[h]
                                        ELSE Of(packet.value, s)[h]]]
          /\ inbox' = IF rest = {} THEN Tail(inbox)
                      ELSE <<[packet EXCEPT !.slots = rest, !.begun = TRUE]>>
                           \o Tail(inbox)
    /\ UNCHANGED <<serverVars, saveVars, linkVars, used, unread, announced, pages,
                   restarts>>

\* Nothing left to announce, or nothing to be: the slot's hints are replaced.
StoreHints ==
    /\ Reading("storage")
    /\ LET packet == Head(inbox) IN
       \E s \in packet.slots :
          LET rest == packet.slots \ {s} IN
          /\ packet.announce => Unseen(packet, s) = {}
          /\ seen' = seen \cup Unseen(packet, s)
          /\ held' = [held EXCEPT ![s] = Of(packet.value, s)]
          /\ inbox' = IF rest = {} THEN Tail(inbox)
                      ELSE <<[packet EXCEPT !.slots = rest, !.begun = TRUE]>>
                           \o Tail(inbox)
    /\ UNCHANGED <<serverVars, saveVars, linkVars, used, unread, announced, pages,
                   restarts>>

\* _track_hint, under the receiver only and with no known status, then the feed's
\* part of _handle_print_json.
HandlePrint ==
    /\ Reading("print")
    /\ LET h == Head(inbox).hint IN
       /\ held' = [held EXCEPT ![ReceiverOf[h]][h] = Unspecified]
       /\ IF h \in seen THEN UNCHANGED announced ELSE Announce(h)
       /\ seen' = seen \cup {h}
    /\ inbox' = Tail(inbox)
    /\ UNCHANGED <<serverVars, saveVars, linkVars, used, unread, pages, restarts>>

-----------------------------------------------------------------------------
(* The save. *)

\* apply_saved_states, its hints: for slots of the save that have some.
Saved(s) == s \notin Quiet /\ Known(Of(save.storage, s)) # {}

\* Variant: the count of paid hints is left to the confirmations.
MergeHints_NoCount ==
    /\ held' = [s \in Slots |-> IF Saved(s) THEN Of(save.storage, s) ELSE held[s]]
    /\ UNCHANGED used

MergeHints ==
    /\ held' = [s \in Slots |-> IF Saved(s) THEN Of(save.storage, s) ELSE held[s]]
    /\ used' = [s \in Slots |-> IF Saved(s) THEN save.paid[s] ELSE used[s]]

Merge ==
    /\ unread
    /\ unread' = FALSE
    /\ MergeHints
    /\ UNCHANGED <<serverVars, saveVars, linkVars, inbox, feedVars, pages, restarts>>

-----------------------------------------------------------------------------
(* Requests. Each opens a connection of its own as the slot. *)

None == [state |-> "none"]
Gone == [state |-> "gone"]

\* update_hint_status: what the slot holds of the hint is read here.
EditBegins(p, s, h, status) ==
    /\ link
    /\ pages[p] = None
    /\ held[s][h] # Unhinted
    /\ pages' = [pages EXCEPT ![p] = [state |-> "sent", slot |-> s, hint |-> h,
                                      status |-> status, served |-> "no"]]
    /\ UNCHANGED <<serverVars, saveVars, linkVars, inbox, held, used, unread, feedVars,
                   restarts>>

\* update_hint has closed its connection, whether the server has come to its packet
\* or not: add_hint of the copy read, with the status asked for.
EditStores(p) ==
    /\ pages[p].state = "sent"
    /\ pages' = [pages EXCEPT ![p].state = "stored"]
    /\ held' = [held EXCEPT ![pages[p].slot][pages[p].hint] = pages[p].status]
    /\ UNCHANGED <<serverVars, saveVars, linkVars, inbox, used, unread, feedVars,
                   restarts>>

EditFails(p) ==
    /\ pages[p].state = "sent"
    /\ pages' = [pages EXCEPT ![p] = Gone]
    /\ UNCHANGED <<serverVars, saveVars, linkVars, inbox, held, used, unread, feedVars,
                   restarts>>

Purchasing == {"asked", "granted", "over"}

PurchaseBegins(p, s) ==
    /\ link
    /\ pages[p] = None
    /\ pages' = [pages EXCEPT ![p] = [state |-> "asked", slot |-> s, paid |-> FALSE]]
    /\ UNCHANGED <<serverVars, saveVars, linkVars, inbox, held, used, unread, feedVars,
                   restarts>>

\* Variant: the count goes down, as the points do.
PurchaseConfirmed_Spends(p) ==
    /\ pages[p].state = "granted"
    /\ pages' = [pages EXCEPT ![p].state = "over"]
    /\ used' = [used EXCEPT ![pages[p].slot] = @ - 1]
    /\ UNCHANGED <<serverVars, saveVars, linkVars, inbox, held, unread, feedVars,
                   restarts>>

\* run_self_hint read a Hint that concerns the slot, the one it asked for or not:
\* record_paid_hint.
PurchaseConfirmed(p) ==
    /\ pages[p].state = "granted"
    /\ pages' = [pages EXCEPT ![p].state = "over"]
    /\ used' = [used EXCEPT ![pages[p].slot] = @ + 1]
    /\ UNCHANGED <<serverVars, saveVars, linkVars, inbox, held, unread, feedVars,
                   restarts>>

\* Refused, timed out or cut off, whether the server grants it or not.
PurchaseFails(p) ==
    /\ pages[p].state \in {"asked", "granted"}
    /\ pages' = [pages EXCEPT ![p].state = "over"]
    /\ UNCHANGED <<serverVars, saveVars, linkVars, inbox, held, used, unread, feedVars,
                   restarts>>

-----------------------------------------------------------------------------
(* The connection; the bridge's restart. *)

LinkUp ==
    /\ ~link /\ links < MaxLinks
    /\ link' = TRUE
    /\ links' = links + 1
    /\ requests' = <<"Get", "SetNotify">>
    /\ UNCHANGED <<serverVars, saveVars, subscribed, missed, inbox, held, used, unread,
                   feedVars, pages, restarts>>

Disconnected ==
    /\ link' = FALSE
    /\ requests' = <<>>
    /\ subscribed' = FALSE
    /\ inbox' = <<>>
    /\ missed' = {}
    /\ UNCHANGED links

\* Noticed between two packets: one being handled is handled to its end.
LinkDown ==
    /\ link
    /\ Reading("storage") => ~Head(inbox).begun
    /\ Disconnected
    /\ UNCHANGED <<serverVars, saveVars, held, used, unread, feedVars, pages,
                   restarts>>

\* main() loads the save, hints of a slot without any included; the feed's
\* seen-set and the requests under way are lost.
Restart ==
    /\ restarts < MaxRestarts
    /\ restarts' = restarts + 1
    /\ Disconnected
    /\ held' = [s \in Slots |-> Of(IF s \in Quiet THEN [h \in Hint |-> Unhinted]
                                   ELSE save.storage, s)]
    /\ used' = [s \in Slots |-> IF s \in Quiet THEN 0 ELSE save.paid[s]]
    /\ unread' = TRUE
    /\ seen' = {}
    /\ pages' = [p \in Pages |-> IF pages[p] = None THEN None ELSE Gone]
    /\ UNCHANGED <<serverVars, saveVars, announced>>

-----------------------------------------------------------------------------
(* The server (external). *)

\* It tells the subscribed bridge of the keys of a hint's parties, and prints a
\* new hint to the slots involved, before or after.
Tell(h, prints) ==
    LET keys    == IF subscribed THEN SetToSeq(Parties(h)) ELSE <<>>
        replies == [i \in DOMAIN keys |-> SetReply(keys[i], storage')]
    IN  /\ IF link THEN inbox' \in {inbox \o prints \o replies,
                                    inbox \o replies \o prints}
           ELSE UNCHANGED inbox
        /\ Len(inbox') <= MaxInbox
        /\ missed' = IF requests = <<"SetNotify">> THEN missed \cup {h} ELSE missed

SetStatus(h, status) == storage' = [storage EXCEPT ![h] = status]

NewHint(h) ==
    /\ storage[h] = Unhinted
    /\ \E status \in MadeAs[h] : SetStatus(h, status)
    /\ Tell(h, IF MySlot \in Parties(h) THEN <<HintPrint(h)>> ELSE <<>>)
    /\ UNCHANGED <<saveVars, link, links, requests, subscribed, held, used, unread,
                   feedVars, restarts>>

\* Its print is on its way to every request waiting for one of the slot.
Replied(h, ps) ==
    [p \in Pages |-> IF ps[p].state = "asked" /\ ps[p].slot \in Parties(h)
                     THEN [ps[p] EXCEPT !.state = "granted"] ELSE ps[p]]

\* A player, or the free request of a page, has it hinted. (A hint a player pays for
\* is, for the bridge, a purchase that fails and is granted.)
CreateHint(h) ==
    /\ NewHint(h)
    /\ pages' = Replied(h, pages)
    /\ UNCHANGED paid

\* A page's purchase, whatever has become of the page's request.
GrantPurchase(p, h) ==
    /\ pages[p].state \in Purchasing /\ ~pages[p].paid
    /\ pages[p].slot \in Parties(h)
    /\ NewHint(h)
    /\ paid' = [paid EXCEPT ![pages[p].slot] = @ + 1]
    /\ pages' = Replied(h, [pages EXCEPT ![p].paid = TRUE])

\* The item is found. It stays so. (A player's own change of status is, for the
\* bridge, an edit served that then fails.)
FindItem(h) ==
    /\ storage[h] \notin {Unhinted, Found}
    /\ SetStatus(h, Found)
    /\ Tell(h, <<>>)
    /\ UNCHANGED <<paid, saveVars, link, links, requests, subscribed, held, used, unread,
                   feedVars, pages, restarts>>

\* UpdateHint: nothing changes of a hint found, or already as asked.
ServeEdit(p) ==
    /\ pages[p].state \in {"sent", "stored"} /\ pages[p].served = "no"
    /\ LET h == pages[p].hint IN
       IF storage[h] = Found \/ pages[p].status \in {Found, storage[h]}
       THEN /\ pages' = [pages EXCEPT ![p].served = "ignored"]
            /\ UNCHANGED <<storage, inbox, missed>>
       ELSE /\ pages' = [pages EXCEPT ![p].served = "applied"]
            /\ SetStatus(h, pages[p].status)
            /\ Tell(h, <<>>)
    /\ UNCHANGED <<paid, saveVars, link, links, requests, subscribed, held, used, unread,
                   feedVars, restarts>>

ServeGet ==
    /\ Len(inbox) < MaxInbox
    /\ requests # <<>> /\ Head(requests) = "Get"
    /\ requests' = Tail(requests)
    /\ inbox' = Append(inbox, Retrieved)
    /\ UNCHANGED <<serverVars, saveVars, link, links, subscribed, missed, held, used, unread,
                   feedVars, pages, restarts>>

ServeSetNotify ==
    /\ requests # <<>> /\ Head(requests) = "SetNotify"
    /\ requests' = Tail(requests)
    /\ subscribed' = TRUE
    /\ UNCHANGED <<serverVars, saveVars, link, links, missed, inbox, held, used, unread,
                   feedVars, pages, restarts>>

WriteSave ==
    /\ saves < MaxSaves
    /\ save # [storage |-> storage, paid |-> paid]
    /\ saves' = saves + 1
    /\ save' = [storage |-> storage, paid |-> paid]
    /\ unread' = TRUE
    /\ UNCHANGED <<serverVars, linkVars, inbox, held, used, feedVars, pages,
                   restarts>>

-----------------------------------------------------------------------------

Init ==
    /\ storage = [h \in Hint |-> Unhinted]
    /\ paid = [s \in Slots |-> 0]
    /\ save = [storage |-> storage, paid |-> paid]
    /\ saves = 0
    /\ link = FALSE /\ links = 0
    /\ requests = <<>> /\ subscribed = FALSE
    /\ inbox = <<>>
    /\ missed = {}
    /\ held = [s \in Slots |-> storage]
    /\ used = [s \in Slots |-> 0]
    /\ unread = FALSE
    /\ seen = {}
    /\ announced = [h \in Hint |-> 0]
    /\ pages = [p \in Pages |-> None]
    /\ restarts = 0

Handle == AnnounceNew \/ StoreHints \/ HandlePrint

Page(p) == \/ EditStores(p) \/ EditFails(p) \/ PurchaseConfirmed(p) \/ PurchaseFails(p)
           \/ \E s \in Slots :
                 \/ PurchaseBegins(p, s)
                 \/ \E h \in Hint, status \in Asked : EditBegins(p, s, h, status)

Server == \/ ServeGet \/ ServeSetNotify \/ WriteSave
          \/ \E h \in Hint : CreateHint(h) \/ FindItem(h)
          \/ \E p \in Pages : ServeEdit(p) \/ \E h \in Hint : GrantPurchase(p, h)

Next == \/ Handle \/ Merge \/ LinkUp \/ LinkDown \/ Restart \/ Server
        \/ \E p \in Pages : Page(p)

Spec == Init /\ [][Next]_vars

-----------------------------------------------------------------------------
(* Correctness *)

PageState ==
    {None, Gone}
    \cup [state : Purchasing, slot : Slots, paid : BOOLEAN]
    \cup [state : {"sent", "stored"}, slot : Slots, hint : Hint, status : Status,
          served : {"no", "applied", "ignored"}]

Statuses == [Hint -> Status \cup {Unhinted}]

Packet == [type : {"storage"}, slots : SUBSET Slots, value : Statuses,
           announce : BOOLEAN, begun : BOOLEAN]
     \cup [type : {"print"}, hint : Hint]

\* The type invariant.
TypeOK ==
    /\ storage \in Statuses
    /\ paid \in [Slots -> Nat]
    /\ save \in [storage : Statuses, paid : [Slots -> Nat]]
    /\ saves \in 0..MaxSaves
    /\ link \in BOOLEAN /\ links \in 0..MaxLinks
    /\ requests \in Seq({"Get", "SetNotify"})
    /\ subscribed \in BOOLEAN
    /\ missed \subseteq Hint
    /\ inbox \in Seq(Packet)
    /\ held \in [Slots -> Statuses]
    /\ used \in [Slots -> Nat]
    /\ unread \in BOOLEAN
    /\ seen \subseteq Hint
    /\ announced \in [Hint -> Nat]
    /\ pages \in [Pages -> PageState]
    /\ restarts \in 0..MaxRestarts

\* No hint goes to the feed twice, although it comes under the keys of two
\* slots, in a print too, and again whole on every attach and restart
\* (_ingest_hint_storage: "must not re-persist them").
AnnouncedOnce == \A h \in Hint : announced[h] <= 1

\* A page's request wrote its own status over what the slot held of the hint.
Edited(s, h) ==
    \E p \in Pages : /\ pages[p].state = "stored"
                    /\ pages[p].slot = s /\ pages[p].hint = h

\* A slot holds real hints of its own only, and none is shown found before its
\* item is, whatever order save, storage and prints came in.
OnlyRealHints ==
    \A s \in Slots : \A h \in Known(held[s]) :
        /\ s \in Parties(h)
        /\ storage[h] # Unhinted
        /\ held[s][h] = Found /\ ~Edited(s, h) => storage[h] = Found

\* Everything the server sent is read, and the save of the present state merged.
CaughtUp == /\ subscribed /\ inbox = <<>> /\ ~unread
            /\ save = [storage |-> storage, paid |-> paid]

\* A new hint's print reached the bridge, which read no status in it over the
\* priority the hint was made with.
PrintedOver(s, h) ==
    /\ s = ReceiverOf[h] /\ MySlot \in Parties(h)
    /\ held[s][h] = Unspecified /\ storage[h] = Priority

\* Once caught up, each party holds a hint with the server's status, the save's
\* older or newer word merged in between notwithstanding. Three exceptions: a hint
\* changed between the serving of Get and of SetNotify, one a page edited, and the
\* receiver of a priority hint that was printed to the bridge's own slot.
HintsExact ==
    CaughtUp => \A h \in Hint \ missed : \A s \in Parties(h) :
        ~Edited(s, h) => held[s][h] = storage[h] \/ PrintedOver(s, h)

\* A page's edit the server applied leaves the bridge with the server's status,
\* as any other road does ("so the new status lands in the server's data
\* storage"; set_hints: "authoritative data-storage snapshot").
EditedHintExact ==
    CaughtUp => \A p \in Pages :
        LET s == pages[p].slot
            h == pages[p].hint
        IN  pages[p].state = "stored" /\ pages[p].served = "applied" /\ h \notin missed
                => held[s][h] = storage[h]

\* A hint paid for is counted once the save is merged, although its confirmation
\* may time out, an older save be merged after it, or the bridge restart.
PaidHintsCount ==
    ~unread /\ save.paid = paid => \A s \in Slots \ Quiet : used[s] >= paid[s]
=============================================================================
