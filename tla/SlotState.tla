------------------------------ MODULE SlotState ------------------------------
(***************************************************************************)
(* What the bridge knows of each slot: checks done, items received, status *)
(* and goal.                                                               *)
(*                                                                         *)
(* The same events reach it by two roads: as packets on the connection, at *)
(* once but only while it is up, and in the server's save file, late but   *)
(* complete.  The save is merged into the state every few seconds and by   *)
(* every page request, and read again when the bridge starts.  Goals the   *)
(* bridge was told of are also kept in a file of its own.  What changes is *)
(* pushed to the pages, by the packets' handlers, by the loop that merges  *)
(* the save and by the one that computes reachability.                     *)
(*                                                                         *)
(* Source: core/state.py, core/save_parser.py, core/loops.py and the       *)
(* tracking handlers of core/ap_client.py.  The game server is external: it *)
(* sends a client that attaches as the bridge does (items_handling 0) no   *)
(* ReceivedItems, and StatusUpdate and LocationChecks are what clients send *)
(* to it, so the handlers' branches for these three are left out.          *)
(***************************************************************************)
EXTENDS Integers, Sequences, FiniteSets, SequencesExt

CONSTANTS
    Slots,
    MySlot,       \* the slot the bridge attaches to
    Locations,    \* each holds one item
    FinderOf,     \* the slot a location belongs to
    ReceiverOf,   \* the slot its item goes to
    Silent,       \* locations whose check the server does not print
    MaxLinks,     \* bound: times the connection comes up
    MaxRestarts   \* bound: restarts of the bridge

ASSUME SlotAssumption ==
    /\ MySlot \in Slots
    /\ FinderOf \in [Locations -> Slots]
    /\ ReceiverOf \in [Locations -> Slots]
    /\ Silent \subseteq Locations
    /\ MaxLinks \in Nat /\ MaxRestarts \in Nat

Playing == 20
Goal    == 30

VARIABLES
    history,    \* server: locations checked so far, in order
    status,     \* server: status of each slot (0, Playing or Goal)
    save,       \* the save file: history and status when it was written
    link,       \* the bridge's connection is up
    links,      \* times it came up
    inbox,      \* packets on their way
    slots,      \* the bridge's PlayerState of each slot
    unread,     \* the save is newer than the last one merged (_save_mtime)
    goalsFile,  \* slots whoever reads bridge_goals.json finds there
    restarts,   \* restarts so far
    told,       \* counts a connected page was last shown, or NoPage
    due,        \* slots whose counts are not those of their last computation
    sweeping    \* changed_slots: the sweep computed slots and has yet to push

serverVars == <<history, status, save>>
linkVars   == <<link, links, inbox>>
bridgeVars == <<slots, unread, goalsFile, restarts, told, due, sweeping>>
vars       == <<serverVars, linkVars, bridgeVars>>

-----------------------------------------------------------------------------
(* Slot records. goalAt tells when goal_reached_at was taken: "told" of the *)
(* goal by the server, or on "loading" a save that already had it.          *)

NewSlot == [checks |-> {}, items |-> <<>>, status |-> 0, goalAt |-> "none"]

\* Variant: a slot's checks read from the map of received items.
Checked_OfItems(h, s) == {l \in ToSet(h) : ReceiverOf[l] = s}

Checked(h, s) == {l \in ToSet(h) : FinderOf[l] = s}

\* The items of the first i checks that went to s, in order.
Receipts(h, s) ==
    LET items[i \in 0..Len(h)] ==
            IF i = 0 THEN <<>>
            ELSE IF ReceiverOf[h[i]] = s THEN Append(items[i-1], h[i]) ELSE items[i-1]
    IN  items

Received(h, s) == Receipts(h, s)[Len(h)]

\* load_save_state: a finished slot's goal is dated from the reading.
Saved(f, s) ==
    [checks |-> Checked(f.history, s), items |-> Received(f.history, s),
     status |-> f.status[s],
     goalAt |-> IF f.status[s] = Goal THEN "loading" ELSE "none"]

\* Variants of MergeSlot: the save replaces what is known; items are taken from
\* the save only while there are none; the checks are forgotten.
MergeSlot_Replaces(p, saved)   == saved
MergeSlot_FirstItems(p, saved) ==
    [p EXCEPT !.checks = @ \cup saved.checks,
              !.items  = IF @ = <<>> THEN saved.items ELSE @]
MergeSlot_NoChecks(p, saved)   ==
    IF Len(saved.items) > Len(p.items) THEN [p EXCEPT !.items = saved.items] ELSE p

\* apply_saved_states, one slot: checks are united, items replaced by a longer
\* list, the status only raised, the date kept.
MergeSlot(p, saved) ==
    LET longer == Len(saved.items) > Len(p.items)
        higher == saved.status > p.status
    IN  [checks |-> p.checks \cup saved.checks,
         items  |-> IF longer THEN saved.items ELSE p.items,
         status |-> IF higher THEN saved.status ELSE p.status,
         goalAt |-> IF higher /\ saved.status = Goal /\ p.goalAt = "none"
                    THEN saved.goalAt ELSE p.goalAt]

\* Variant: only a slot nobody ever played gets its goal back.
LoadGoal_Untouched(p, kept) ==
    IF kept /\ p.status < Playing THEN [p EXCEPT !.status = Goal, !.goalAt = "told"]
    ELSE p

\* _load_persisted_goals, one slot: only where the save did not have the goal.
LoadGoal(p, kept) ==
    IF kept /\ p.status < Goal THEN [p EXCEPT !.status = Goal, !.goalAt = "told"]
    ELSE p

\* update_client_status.
WithStatus(p, value) ==
    [p EXCEPT !.status = value,
              !.goalAt = IF value = Goal /\ @ = "none" THEN "told" ELSE @]

\* Variant: finder and receiver mixed up.
Found_Swapped(ps, l) ==
    [ps EXCEPT ![ReceiverOf[l]] = [@ EXCEPT !.checks = @ \cup {l}],
               ![FinderOf[l]]   = [@ EXCEPT !.items = Append(@, l)]]

\* _apply_item_send: the finder's check, then the receiver's item.
Found(ps, l) ==
    LET f == FinderOf[l]
        checked(p) == LET q == [p EXCEPT !.checks = @ \cup {l}] IN
                      IF q.status < Playing THEN WithStatus(q, Playing) ELSE q
    IN  [s \in Slots |->
           LET p == IF s = f THEN checked(ps[s]) ELSE ps[s] IN
           IF s = ReceiverOf[l] THEN [p EXCEPT !.items = Append(@, l)] ELSE p]

-----------------------------------------------------------------------------
(* What the pages are shown: each slot's counts. *)

NoPage == <<>>

Counts(p) == <<Cardinality(p.checks), Len(p.items)>>

Shown(ps) == [s \in Slots |-> Counts(ps[s])]

\* What last_computed tells the sweep: counts only grow while the bridge runs
\* (NeverGoesBack), so those that changed never are again what they were.
MakeDue == due' = due \cup {s \in Slots : Counts(slots'[s]) # Counts(slots[s])}

\* _broadcast_state_changed.
Show == told' = IF told = NoPage THEN NoPage ELSE Shown(slots')

-----------------------------------------------------------------------------
(* The bridge. *)

Receive(type) ==
    /\ inbox # <<>>
    /\ Head(inbox).type = type
    /\ inbox' = Tail(inbox)

HandleItemSend ==
    /\ Receive("ItemSend")
    /\ slots' = Found(slots, Head(inbox).location)
    /\ MakeDue
    /\ Show
    /\ UNCHANGED <<serverVars, link, links, unread, goalsFile, restarts, sweeping>>

\* _persist_goal: read, add, rewrite.
Persist(s) == goalsFile' = goalsFile \cup {s}

\* Persisted when dated here; a call to the central API follows, which may fail.
HandleGoal ==
    /\ Receive("Goal")
    /\ LET s == Head(inbox).slot IN
       /\ slots' = [slots EXCEPT ![s] = WithStatus(@, Goal)]
       /\ IF slots[s].goalAt = "none" THEN Persist(s) ELSE UNCHANGED goalsFile
    /\ Show
    /\ UNCHANGED <<serverVars, link, links, unread, restarts, due, sweeping>>

\* Connected: the bridge's own slot's checks, and a status for active slots.
HandleConnected ==
    /\ Receive("Connected")
    /\ LET own == [slots EXCEPT ![MySlot].checks = @ \cup Head(inbox).checks] IN
       slots' = [s \in Slots |->
                   IF own[s].status = 0 /\ own[s].checks # {}
                   THEN WithStatus(own[s], Playing) ELSE own[s]]
    /\ MakeDue
    /\ Show
    /\ UNCHANGED <<serverVars, link, links, unread, goalsFile, restarts, sweeping>>

\* merge_state_from_save. A save caught half-written fails to be read, which changes
\* nothing: once complete it is newer again.
Merge ==
    /\ unread
    /\ unread' = FALSE
    /\ slots' = [s \in Slots |-> MergeSlot(slots[s], Saved(save, s))]
    /\ MakeDue
    /\ UNCHANGED <<serverVars, linkVars, goalsFile, restarts, sweeping>>

\* By the reconcile loop, which pushes when some slot's counts changed.
Reconcile ==
    /\ Merge
    /\ IF \E s \in Slots : Counts(slots'[s]) # Counts(slots[s]) THEN Show
       ELSE UNCHANGED told

\* By a page's request, which pushes nothing and leaves nothing to the loop.
RequestMerges ==
    /\ Merge
    /\ UNCHANGED told

\* Variant: the sweep marks what it computed and pushes the figures only.
SweepMarks_Silent(done) ==
    /\ done \subseteq due
    /\ due' = due \ done
    /\ UNCHANGED <<serverVars, linkVars, slots, unread, goalsFile, restarts, told,
                   sweeping>>

\* The sweep goes over slots whose counts changed: those it could compute are marked
\* with the counts it found.
SweepMarks(done) ==
    /\ done \subseteq due
    /\ due' = due \ done
    /\ sweeping' = TRUE
    /\ UNCHANGED <<serverVars, linkVars, slots, unread, goalsFile, restarts, told>>

\* Through with its slots, it pushes.
SweepPushes ==
    /\ sweeping
    /\ sweeping' = FALSE
    /\ UNCHANGED <<serverVars, linkVars, slots, unread, goalsFile, restarts, due>>
    /\ Show

\* A page connects, and is sent a snapshot; it leaves.
PageOpens ==
    /\ told = NoPage
    /\ told' = Shown(slots)
    /\ UNCHANGED <<serverVars, linkVars, slots, unread, goalsFile, restarts, due,
                   sweeping>>

PageCloses ==
    /\ told # NoPage
    /\ told' = NoPage
    /\ UNCHANGED <<serverVars, linkVars, slots, unread, goalsFile, restarts, due,
                   sweeping>>

\* The bridge's process dies and starts over: main() loads the save, or nothing
\* when it catches it half-written, then the goals it kept.
StartOver(kept) ==
    /\ restarts < MaxRestarts
    /\ restarts' = restarts + 1
    /\ \E readable \in BOOLEAN :
          slots' = [s \in Slots |->
                      LoadGoal(IF readable THEN Saved(save, s) ELSE NewSlot, s \in kept)]
    /\ told' = NoPage
    /\ due' = Slots
    /\ sweeping' = FALSE
    /\ unread' = TRUE
    /\ link' = FALSE
    /\ inbox' = <<>>
    /\ UNCHANGED <<serverVars, links>>

Restart ==
    /\ StartOver(goalsFile)
    /\ UNCHANGED goalsFile

\* It dies while rewriting the goals file, which it has emptied: what is left
\* is no JSON, and whoever reads it finds no goals.
CrashWhilePersisting ==
    /\ inbox # <<>> /\ Head(inbox).type = "Goal"
    /\ slots[Head(inbox).slot].goalAt = "none"
    /\ StartOver({})
    /\ goalsFile' = {}

-----------------------------------------------------------------------------
(* The connection and the game server (external). *)

LinkUp ==
    /\ ~link /\ links < MaxLinks
    /\ link' = TRUE
    /\ links' = links + 1
    /\ inbox' = <<[type |-> "Connected", checks |-> Checked(history, MySlot)]>>
    /\ UNCHANGED <<serverVars, bridgeVars>>

LinkDown ==
    /\ link
    /\ link' = FALSE
    /\ inbox' = <<>>
    /\ UNCHANGED <<serverVars, links, bridgeVars>>

Tell(packet, heard) == inbox' = IF link /\ heard THEN Append(inbox, packet) ELSE inbox

Check(l) ==
    /\ l \notin ToSet(history)
    /\ history' = Append(history, l)
    /\ status' = [status EXCEPT ![FinderOf[l]] = IF @ = 0 THEN Playing ELSE @]
    /\ Tell([type |-> "ItemSend", location |-> l], l \notin Silent)
    /\ UNCHANGED <<save, link, links, bridgeVars>>

ReachGoal(s) ==
    /\ status[s] = Playing
    /\ status' = [status EXCEPT ![s] = Goal]
    /\ Tell([type |-> "Goal", slot |-> s], TRUE)
    /\ UNCHANGED <<history, save, link, links, bridgeVars>>

\* Players come and go: the status the save shows may fall back to 0.
Idle(s) ==
    /\ status[s] = Playing
    /\ status' = [status EXCEPT ![s] = 0]
    /\ UNCHANGED <<history, save, linkVars, bridgeVars>>

WriteSave ==
    /\ save # [history |-> history, status |-> status]
    /\ save' = [history |-> history, status |-> status]
    /\ unread' = TRUE
    /\ UNCHANGED <<history, status, linkVars, slots, goalsFile, restarts, told,
                   due, sweeping>>

-----------------------------------------------------------------------------

Init ==
    /\ history = <<>>
    /\ status = [s \in Slots |-> 0]
    /\ save = [history |-> history, status |-> status]
    /\ link = FALSE
    /\ links = 0
    /\ inbox = <<>>
    /\ slots = [s \in Slots |-> NewSlot]
    /\ unread = TRUE
    /\ goalsFile = {}
    /\ restarts = 0
    /\ told = NoPage
    /\ due = Slots
    /\ sweeping = FALSE

Handle == HandleItemSend \/ HandleGoal \/ HandleConnected

Next == \/ Handle \/ Reconcile \/ RequestMerges
        \/ SweepPushes \/ \E done \in SUBSET Slots \ {{}} : SweepMarks(done)
        \/ PageOpens \/ PageCloses
        \/ Restart \/ CrashWhilePersisting
        \/ LinkUp \/ LinkDown \/ WriteSave
        \/ \E l \in Locations : Check(l)
        \/ \E s \in Slots : ReachGoal(s) \/ Idle(s)

Spec == Init /\ [][Next]_vars

\* The receive loop and the reconcile loop run, so does the sweep, whose
\* computations do not fail for ever; the server saves; the connection may stay
\* down.
Fairness == /\ WF_vars(Handle) /\ WF_vars(Reconcile) /\ WF_vars(WriteSave)
            /\ \A s \in Slots :
                  WF_vars(\E done \in SUBSET Slots : s \in done /\ SweepMarks(done))
            /\ WF_vars(SweepPushes)

FairSpec == Spec /\ Fairness

-----------------------------------------------------------------------------
(* Correctness *)

SlotRecord(s) ==
    [checks : SUBSET {l \in Locations : FinderOf[l] = s},
     items  : Seq(Locations),
     status : {0, Playing, Goal},
     goalAt : {"none", "told", "loading"}]

\* The type invariant.
TypeOK ==
    /\ history \in Seq(Locations)
    /\ status \in [Slots -> {0, Playing, Goal}]
    /\ save \in [history : Seq(Locations), status : [Slots -> {0, Playing, Goal}]]
    /\ link \in BOOLEAN
    /\ links \in 0..MaxLinks
    /\ inbox \in Seq([type : {"ItemSend"}, location : Locations]
                \cup [type : {"Goal"}, slot : Slots]
                \cup [type : {"Connected"}, checks : SUBSET Locations])
    /\ \A s \in Slots : slots[s] \in SlotRecord(s)
    /\ unread \in BOOLEAN
    /\ goalsFile \subseteq Slots
    /\ restarts \in 0..MaxRestarts
    /\ told = NoPage \/ told \in [Slots -> Nat \X Nat]
    /\ due \subseteq Slots
    /\ sweeping \in BOOLEAN

\* The bridge reports nothing that did not happen, whatever it pieced together
\* from packets, an old save and its goals file.
OnlyWhatHappened ==
    \A s \in Slots :
        /\ slots[s].checks \subseteq Checked(history, s)
        /\ ToSet(slots[s].items) \subseteq ToSet(Received(history, s))
        /\ slots[s].status = Goal => status[s] = Goal
        /\ slots[s].goalAt # "none" <=> slots[s].status = Goal

\* Once a save is merged no slot is behind it, and stays so: no check of it is
\* missing, nor has the slot fewer items, or a lower status. Exception: which items
\* they are, as a list no shorter than the save's is kept, though an item of the
\* save may not be in it (apply_saved_states).
NeverBehindSave ==
    ~unread => \A s \in Slots :
        LET saved == Saved(save, s) IN
        /\ saved.checks \subseteq slots[s].checks
        /\ Len(saved.items) <= Len(slots[s].items)
        /\ saved.status <= slots[s].status

\* While the bridge runs no slot goes back: merging a save older than what the
\* connection already told takes no check away, lowers neither the number of items,
\* which the pages are shown, nor the status, and a goal keeps its date. Exception:
\* a longer list replaces the one held, with it an item only a packet told of.
NeverGoesBack ==
    [][restarts' = restarts => \A s \in Slots :
         /\ slots[s].checks \subseteq slots'[s].checks
         /\ Len(slots[s].items) <= Len(slots'[s].items)
         /\ slots[s].status <= slots'[s].status
         /\ slots[s].goalAt # "none" => slots'[s].goalAt = slots[s].goalAt]_vars

\* A goal that is still in the bridge's file is a goal of the running bridge,
\* restarts included, though the save may not have it yet.
KeptGoalsHold ==
    \A s \in goalsFile : slots[s].status = Goal

\* Once no more checks are made the bridge knows them all, silent ones and
\* those made while the connection was down included.
ChecksCatchUp ==
    \A ls \in SUBSET Locations :
        <>[](ToSet(history) = ls)
            => <>[](UNION {slots[s].checks : s \in Slots} = ls)

\* No item is counted twice, whichever roads the news of it took
\* (test_idempotent_repeated_send_does_not_double_count).
NoItemTwice == \A s \in Slots : IsInjective(slots[s].items)

\* No count is lost on its way to a connected page: one that differs from what it
\* was shown is of a slot the sweep has still to compute, or to push, though a
\* request's merge left the reconcile loop nothing to notice.
LagIsSwept ==
    told # NoPage => \A s \in Slots :
        told[s] # Counts(slots[s]) => sweeping \/ s \in due

\* So a page that stays connected ends up with the bridge's counts, whichever
\* reader merged them.
CountsReachPages ==
    <>[](told # NoPage)
        => <>[](told # NoPage /\ \A s \in Slots : told[s] = Counts(slots[s]))
=============================================================================
