# A TLA+ model of Archipelago-Bridge

The bridge sits beside one Archipelago multiworld server. It attaches to the
server as a text client, follows what the players do, asks a reachability
program what each of them can do next, and tells both the pages (WebSocket and
REST) and a central API. It runs on one asyncio event loop: its concurrency is
that of coroutines, which interleave at awaits, and of the programs around it
(the game server, the players' clients, the host of the reachability daemon, the
orchestrator that writes files), which owe it nothing.

These modules model the parts of it that keep state over time and are hard to
test. `PROJECT.json` maps every definition to the lines it stands for, lists the
runs with their properties, the theorems, the hazards and the findings.

Line numbers below are those of `src/`.

## 1. The system and its parts

### Presence and the DeathLink badge — `core/ap_client.py` 316-350, 633-828, 883-1087, 1728-1754
*State*: per slot, the number of game clients on it (`_playing_clients`), their
tags (`_slot_client_tags`), whether the count is only the server's word
(`_provisional_slots`), and the badge shown (`death_link_live`).
*Operations*: Join, Part and TagsChanged notices; the slot statuses in Retrieved
(answer to a Get) and SetReply (after a SetNotify); forgetting everybody when the
connection is lost, and again when a new one opens; broadcasting after a change.
*Hard*: two sources about the same fact, each incomplete: no Join is sent for
clients that were there before, a status says nothing of how many; a Part carries
no tags but in its text; two clients may share a slot with the same tags; the
connection ends at any point.
*Correct when*: the three structures agree; what is shown was broadcast; the count
is exact for what could be known, and never above the clients really there; no slot
stays held by nobody (but see the trackers in section 3).

### Slot state, save merge and goals — `core/state.py`, `core/save_parser.py`, `core/loops.py` 162-193, `core/ap_client.py` 1223-1342
*State*: per slot, checks, items, status, date of the goal; `_save_mtime`; the file
`bridge_goals.json`.
*Operations*: ItemSend, Goal and Connected packets; the merge of the server's save
file, by a loop every 5 s and by every page request; load at start; persisting a goal;
calling the central API about it.
*Hard*: the same event arrives by two roads in either order; saves lag behind; the
server prints nothing for some checks; the process may die at any point, while it
rewrites its own file too.
*Correct when*: nothing is reported that did not happen, nothing known is lost
while running, everything is known in the end, an item counts once, a goal is told.

### Reachability computations — `core/reachable.py` 55-231, `core/loops.py` 71-159, `core/rest_reachable.py`
*State*: the cache of results keyed on (checks, items), the semaphore, one shared
task per slot (`_inflight`), the sweep's `last_computed`, `reachable_now` per slot,
the event that wakes the sweep.
*Operations*: the sweep over slots not computed as they stand; requests that start
or join a slot's task and wait for it for a grace period at most; publishing.
*Hard*: seconds or minutes pass between looking at a slot and storing the result;
three parties store results of one slot; any await may fail.
*Correct when*: computations of a slot end in the order they looked at it, no result is
replaced by an older one, the figure shown ends up following from the last state.

### Reachability daemon — `adapters/reachable_socket.py`, and `core/reachable.py` 202-315
*State*: the daemon at hand (a connection to a host in the server's container), its
lock, the lock held while one starts.
*Operations*: start (write the seed, wait for the ready line), request (write a line,
read a line), drop on any failure, replace on a new seed, release when idle. Without
the adapter, one subprocess daemon per slot.
*Hard*: no line says which request it answers; whoever is cancelled leaves something
in the stream; waiters hold references to a daemon dropped meanwhile.
*Correct when*: an answer is that of its own request, one daemon at most is up, on the
seed asked for, and every computation ends.

### Hints — `core/ap_client.py` 490-628 and 1520-1617, `core/rest_hints.py`, `core/state.py`
*State*: hints per slot, hints paid for, the set of hints already in the feed.
*Operations*: hints in the server's data storage (Retrieved, SetReply), in its prints, in the
save; paid hints and status updates over a second connection as the slot itself.
*Hard*: four roads to one fact; a hint read before an await and stored after it; the
save's hints replace whatever is held; a paid hint whose confirmation times out.
*Correct when*: each party ends up holding a hint with the server's status, no hint is made
up, each is announced once, what was paid is counted.

### Pages' WebSocket server — `core/ws_server.py`
*State*: connected pages, the pending approval. *Operations*: register, snapshot,
broadcast, command, approval of a restart with a 5 s limit. *Hard*: a page is registered
before its snapshot is sent; two approvals share one identifier. *Correct when*: a page
never ends on an older state than the last broadcast; each approval gets its own answer.

### The others
* **Connection** (`ap_client.py` 834-989, 1736-1754): the packet loop, an exception per
  packet logged and swallowed, delays between attempts.
* **Feed and DeathLink bounces**: a ring of the last 200 events and a POST each.
* **Data package, names, spoiler**: tables filled once per connection; a text parser.
* **REST** (`rest.py`, `rest_checks.py`, `rest_session.py`, `rest_output.py`): views.
* **Heartbeats** (`loops.py` 196-232): a periodic POST of what presence says.
* **Configuration, authentication, schemas** (`config.py`, `deps.py`, `schemas.py`).
* **The save reader's unpickler**: the decoding of an external format.

### How they interact
The packet loop calls presence and the slot state; both broadcast to the pages and push to
the central API. Advancing slots set the event that wakes the sweep, and so does the
reconcile loop. The sweep and the requests call the computations, which call the daemon
through the semaphore. All share `StateManager` and the event loop; nothing is locked
but the semaphore, the daemon's lock and the start's lock.

## 2. The modules

| module | models | instance | proofs |
|---|---|---|---|
| `Presence` | presence, badge, broadcast, reconnection; server and clients external | `MCPresence` | `PresenceProofs`, `PresenceExactProofs` |
| `Reachable` | cache, semaphore, sweep, tasks, waiting pages | `MCReachable` | `ReachableProofs` |
| `Figure` | abstract: what the pages are promised of a figure; implemented by `Reachable` | `MCReachable` | `ReachableProofs` |
| `SlotState` | checks, items, status, goals by both roads, restarts, what pages are shown of counts | `MCSlotState` | `SlotStateProofs` |
| `ReachableDaemon` | the shared daemon: starts, requests, timeouts, replacement, idle release | `MCReachableDaemon` | `ReachableDaemonProofs` |
| `SlotDaemon` | one slot's subprocess daemon, used without the adapter | `MCSlotDaemon` | `SlotDaemonProofs` |
| `Hints` | hints by storage, print, save and the pages' own requests; their announcement | `MCHints` | `HintsProofs` |

Definitions whose comment begins with "Variant" are not part of a specification: each is a
faulty form of the definition after it, used to show that a property notices the fault.

### Presence
`presence[s]` holds the four pieces the code keeps of slot `s`; `published` is what the last
`state_changed` event showed of them. Each handler is one action that reads the head of
`inbox`, applies its operator to the slot's record, refreshes the badge where the code does,
and broadcasts **when the code's own "changed" result says so** — the property
`PublishedIsCurrent` is that these results are right. The server's part (`ClientConnects`,
`ServeGet`, ...) follows what the code and its tests say of it: notices for every client, the
slot's status falling to 0 with its last client unless it reached its goal, Get and SetNotify served
one after the other. The connection is FIFO while it lasts; losing it loses what is on its
way.

### Reachable
A slot's state is (checks, items), which only grows, so it is a number, `progress[s]`; a
result is the progress its computation captured *before* the semaphore (`reachable.py`
185-187). `queue` is the semaphore's FIFO of waiters, its head holding it. `Show` is atomic
because there is no await between the cache write and the caller's assignment of
`reachable_now`; the pushes that follow are awaits, hence a state of their own
(`"pushing"`), during which others run. A waiting page resumes *after* the task it joined
is done, pushes included, and writes `reachable_now` again (`PageResumes`).
Any computation may fail (timeout, daemon lost, error answer).

`Figure` is the promise behind it, in two variables: a slot plays on, and its figure
is renewed from a state later than the one shown and no later than the present.
`Reachable!Promise` is `Figure` with the figure read off `shown`; `KeepsPromise` says every
step of the five parties (sweep, tasks, requests, pushes, play) is a `Figure` step or a
stutter. It holds where no page waits for a task; `reachable_page` shows what a page that
waits does to it.

### SlotState
Locations stand for checks and for the items they hold. The server's truth is `history`, the
locations checked in order; the save is a copy of it taken at some moment; packets are told only
while the connection is up, and for `Silent` locations never. `MergeSlot` is
`apply_saved_states` for one slot, `Found` is `_apply_item_send`, `LoadGoal` is
`_load_persisted_goals`. Dates are reduced to where they were taken. A restart loses memory and
keeps the two files; it may catch the save half-written and start from nothing. A crash during
`_persist_goal` leaves a file its readers find no goal in. A merge that catches the save half-written fails to
be read, changes nothing, and is made when the save is complete, hence newer again.

`told` is what a connected page was last shown of each slot's counts. Three of the code's loops
push: the packets' handlers, the reconcile loop *if it sees counts change* (a page's request may
have merged the save just before: `RequestMerges` leaves it nothing to see), and the sweep after it
computed slots. `due` is the sweep's `last_computed` seen from the other side: the slots whose counts
are not those it last computed. The sweep is two steps, `SweepMarks` and `SweepPushes`, because it
awaits in between.

### ReachableDaemon
A daemon is a connection with both directions of its stream as sequences; a line is the
number of the request it answers, or the ready line. A caller goes through the awaits of
`run_reachable`, each a state: waiting for the start lock, connecting, waiting for the ready
line, waiting for the daemon's lock, reading, closing. Time passes in minutes (`Tick`) and stops for
nobody: a caller past its limit gives up before the next minute. The host may load,
answer, print something else, die or hang.

### SlotDaemon
The same computation where the bridge has no adapter (`reachable.py` 110-158, 233-315): a subprocess per
slot. Computations hold the semaphore, the tasks that start daemons do not: `StartRuns` registers an
event, `Spawned` a process, `StartReads` sets the event of *its own* start, which need not be the
registered one any more. So two starts may run at once, the process of one be registered with the event of
the other, and a request be written to a daemon that has its ready line still to print. Lines carry nothing
but their kind and, for the properties, the state the answer was computed from.

### Hints
A hint is an item at a location, with the server's status in `storage`; `Of(value, s)` is the part
under the key of slot `s`. `StoreHints` is the handler of Retrieved and SetReply (a key's value
*replaces* what the slot held), `HandlePrint` that of a printed hint, `MergeHints` the save's part: what
the save has of a slot replaces what is held unless the save has nothing for the slot (`Quiet`).
`AnnounceNew` is the loop that posts unseen hints, with its await between the packet and the storing.
A page's request is `EditBegins` (which reads the hint), a wait on the second connection, and
`EditStores` (which writes it back with the new status), or `PurchaseBegins` and `PurchaseConfirmed`;
each may time out while the server serves it all the same. A purchase is confirmed by the print of any hint that
involves its slot (`Replied`), whoever asked for that hint, and may be paid for afterwards. The server makes a hint
with one of the statuses in `MadeAs`: an admin's, as a page's free request is, is a priority. Its print has no
status, so `HandlePrint` stores it as unspecified under its receiver.

## 3. The runs

Twelve runs; the state space of each passing run is explored whole.

| run | asks | distinct states |
|---|---|---|
| `presence` | is the bookkeeping consistent, published, exact once caught up | 0.6 million |
| `presence_live` | is every slot released that everybody left, with shared slots, a tracker that outstays a game, and Parts that tell no tags | 1.5 million |
| `reachable` | do computations stay in order, with failures and a waiting page | 2.3 million |
| `reachable_figure` | is the promise of `Figure` kept, does the figure follow the last state | 0.4 million |
| `slot_state` | are two roads, an old save, restarts and three pushing loops put together rightly | 0.5 million |
| `daemon` | does the stream stay in step, does every computation end | 110 thousand |
| `slot_daemon` | do racing starts of a subprocess daemon leave every result its own request's | 1.4 million |
| `hints` | do four roads agree on hints, is each announced once, is what was paid counted | 7.1 million |
| `reachable_page`, `slot_items`, `hints_edit`, `daemon_slow` | statements of the code's comments and tests the code does not keep | stop at the counterexample |

**Bounds.** *Presence*: two game clients with different tags and a tracker on one slot, three
packets in flight and two connections suffice for: two clients leaving in either order, a tracker
outlasting the game, a Part for a client never counted, a status meeting a Join, and a
reconnection with any of these under way. `presence_live` has two games on one slot, a game and a tracker on
another, and Parts whose text tells the tags or nothing: whichever entry such a Part takes, the slot is
released; a tracker may outstay the game, be missed, or be read as one. Slots are independent but for the bridge's
own. *Reachable*: two progress steps let a slot change during its
own computation and again before the figure is shown; two slots let a task's computation come
between two of the sweep; one failure at any point. *SlotState*: one item across slots and one
silent, two connections, one restart, one page that comes and goes: every order of packet, save,
merge, push, crash. *Daemon*: three requests by two callers, three connections, two seeds: a caller
can be waiting for a daemon that a second drops and a third replaces. `bridge.py` 70 makes the
semaphore 1; the run has `Permits = 2`, since the adapter's locks and its tests are about concurrent
callers; everything that holds with two callers inside covers one. *SlotDaemon*: three starts (the
second begins while the first waits, the third replaces the pair), three states of the slot, one death.
*Hints*: a priority hint of another slot's found in the bridge's, so that it is printed to the bridge, and one that
slot has of its own, one page, two saves, two connections, one restart, three packets in flight;
`hints_edit` needs one connection and no restart.

`SlotSymmetry` is used in the run `reachable` only, whose properties treat slots alike and include
no liveness. `CHECK_DEADLOCK FALSE` appears where the world of the instance runs out of events and the
bridge rightly does nothing: every check made and saved (`SlotState`), every bounded save, connection
and request used (`Hints`), the last state computed (`SlotDaemon`).

**Fairness.** Only what the event loop and the loops' timers give: a handler runs when a packet
is there, the sweep's wait ends after 30 s whether woken or not, the reconcile loop runs every 5 s,
the reconnect loop tries again, a computation ends because its waits have limits, which `daemon` checks.
One wait has none: `wait_closed` after a daemon is dropped (`reachable_socket.py` 147). `Close` takes it to return,
as it does unless more is unsent than the socket's buffer holds to a host that no longer reads; a request is one
short line. In `SlotState` the sweep is fair to each slot that stays due, i.e. its computation
does not fail for ever, and a sweep that computed something gets to its push. The server is
assumed to answer requests and to write its save. Nothing is assumed of players, of the connection
staying up, or of the daemon's host, which may hang.

**What holds.** All properties of the eight passing runs; each is shown to notice a plausible
fault of the code by its variant. Notable ones: `PresenceExact` and `NeverOvercounts` (the count
against the clients really there, through two imperfect sources), `CacheNeverGoesBack` and
`QueueInOrder` (the key is captured before the wait yet never stale when stored),
`KeepsPromise` and `FigureCatchesUp` without waiting pages (even when the last change woke nobody),
`NeverGoesBack`, `NeverBehindSave` and `ChecksCatchUp` (merging; of items these speak of how many there are),
`QuietSlotReleased` (whatever mixture of notices, statuses and reconnections a slot went through), `LagIsSwept` and
`CountsReachPages` (what a request merged silently is pushed by the sweep, never lost),
`AnswersOwnRequest` and `InStep` (the unnumbered stream), `CachedAsAsked` (the same for subprocess
daemons, whatever their starts do to each other), `HintsExact` (four roads, one status, but for the prints below).

**What does not** (`findings` of `PROJECT.json` gives the quoted lines):
* *A waiting page* may put its older figure back over the sweep's, which does not come back
  (`reachable_page`).
* *An item twice*: the save merged before the packet of the same item (`slot_items`).
* *An edited hint* keeps the status the page asked for when the server had set another one during
  the edit's await (`hints_edit`).
* *A slow start is cut*: 120 s for a computation include the start, for which 300 s are allowed, and
  the next computation starts over (`daemon_slow`).

**Known limits**, read off the code and allowed by the models' properties as they are stated:
* Of two clients on a slot, one there before the bridge came, the first to leave empties the slot;
  a client that starts to play between the server's Get and SetNotify is not seen. `PresenceExact`
  speaks of what could be known.
* A goal learnt from the save, or whose only call to the central API failed, is not told again.
* A slot's status learnt from the save alone is pushed with the next push for any other reason: the
  reconcile loop compares counts only (`loops.py` 181-186).
* A subprocess start that runs into its 180 s leaves a live daemon registered, never ready, so
  neither used nor replaced until it ends; each computation runs the program once instead.
* A tracker that outstays a game keeps the game's status up: if Get is served then, and the tracker
  leaves before SetNotify is, its Part is ignored (`ap_client.py` 777-778) and the slot is held on
  the server's word until somebody plays there or the connection is lost. `QuietSlotReleased` and `NoGhostSlot` except it.
* A tracker's Part whose text tells no tags may be taken for a game client's: `PresenceExact` excepts slots where
  a tracker and such Parts come together (`ToldApart`).
* Item lists are compared by their length (`state.py` 214-216). A list held that is as long as the save's is kept,
  even if an item of the save is not in it; a save's longer list replaces it, even if it lacks an item a packet
  told of. An item counted twice (`slot_items`) can so hide one never told. `NeverBehindSave` and `NeverGoesBack`
  say how many items there are, not which; `NothingInvented` says they are real.
* All goals kept are lost if the process dies while it rewrites their file (`state.py` 61); a goal learnt from a save
  is dated from when the save was read (`save_parser.py` 171). `KeptGoalsHold` speaks of what is in the file.
* A hint changed between the serving of Get and of SetNotify is held with its former status until
  the next save or change (`missed` in `HintsExact`).
* The print of a hint comes without its status and is stored as unspecified. If it is handled after the SetReply, the
  receiver of a priority hint that involves the bridge's slot holds it as unspecified until the next save
  or change (`PrintedOver` in `HintsExact`).
* A purchase is counted when any hint of its slot is printed meanwhile, so `used` may run ahead of the payments
  until the next save: `PaidHintsCount` is a lower bound.
* `update_hint_status` takes the slot's first hint at the location (`rest_hints.py` 173), and `add_hint` the one of
  that location and item (`state.py` 172): of two finders' locations with one number, one may be taken for the
  other. In `Hints` a hint is what it is.

## 4. The proofs

The seven proof modules prove, for every value of the constants that satisfies the named assumptions
(`SlotAssumption`, `BoundAssumption`, `SlotDaemonAssumption`, `HintAssumption`), what the runs show on small
instances. The bounds of the models (`MaxInbox`, `MaxAttach`, `MaxProgress`, `MaxFailures`, ...) are
constants too, so the theorems hold for all of them.

*Presence.* The invariant is `IInv`: each slot's record is well formed, its count agrees
with its tags and its badge follows from them (`SlotOK`); what is published is the present snapshot;
nobody is known while the connection is down, and nothing is on its way, in either direction, before the
server has accepted it; the server's side is well typed. `CountMatchesTags` alone is not inductive: a handler's
index into the tags exists only because the count is positive exactly when there are tags or a provisional
mark. `NobodyWhileDown` needs that no packet is in the inbox of a connection not attached yet. The
proof goes by handler: first what it makes of one record (`JoinOK`, `PartOK`, `TagsChangedOK`,
`StatusOK`), with "if it reports no change, the pages would see none", then the actions.
Theorems: `TypeCorrect`, `CountsAgree`, `DeathLinkFollows`, `NothingUnpublished`,
`DownMeansNobody`.

*Presence, exactly.* What the bridge knows and who plays agree only once every packet is read, so the
invariant of `PresenceExactProofs` looks ahead. `After` is what a packet does to a slot's record (each
handler does just that, `HandleAfter`); `Leads(s, p, box, q)` says that handling the packets of `box` takes
record `p` to `q`; and `Foreseen` says that the record each slot's packets lead to already `Fits` the clients
now on the server. A handler then changes nothing (`LeadsHead`), and a client's action must be matched by
what its own packets will do (`LeadsOn`, `SendForeseen`). `Fits` is, for a slot nobody played at
attach, a one-to-one correspondence between tag entries and players, each entry being its client's tags
(`Describes`). No notice names its client: what makes the correspondence survive is that entries with the
same tags can be swapped (`NamedAt`), that a Part finds such an entry (`LeavingEntry`), and that the
former tags are the only ones that differ from the new by DeathLink alone (`OneTagApart`,
`ChangedEntry`). Where a Part may not be readable, the entry taken away may be another client's: the correspondence
is kept without the tags, so the counts stay exact and the badge does not. The
server's word is right because its status of a slot tells whether somebody is there (`StatusFits`), and
harmless beside a Join because it only fills a slot counted empty (`WordFits`). On a slot held before, only
the bound remains, since clients the bridge never saw join leave in its count's name; so it does where a
tracker's Part may be read as a game client's (`ToldApart`). Theorems: `CountsAreExact`, `NeverTooMany` and
`WordIsOfSomebody`, without further hypothesis; `BadgeIsExact`, where every Part tells its tags
(`PartTexts = {"tags"}`).

*Reachable.* `CacheNeverGoesBack` says something of a step; what makes it true is an order of
the whole queue. The invariant `Inv` is `QueueInOrder` (jobs of a slot are sorted by what they
captured, and lie between the cached and the present state) with `MarksWhatWasComputed`: a
computation that begins captures the present, above all others (`BeginOK`); one that ends moves the
cache to the least of its slot's jobs (`ShowOK`). `OneComputationEach` is inductive given the types.
Where `Pages = {}`, what is shown is what is cached, from which `ShownAsMarked` follows, and every step
is a step of `Figure` or leaves it alone (`PromiseKept`): both theorems have that hypothesis, and
`reachable_page` shows why. Theorems: `TypeCorrect`, `InOrder`, `MarksFollow`, `CacheAdvances`,
`OneEach`, `FigureFollowsMark`, `PromiseKept`.

*SlotState.* `KeptGoalsHold` needs that a slot's status is one of three values of which `Goal` is the
greatest, so that a merge can only raise it to a goal, and that the goal is the only event persisted
(`GoalsHold`). `LagIsSwept` is inductive with the page's record shaped as the slots' counts: whoever
changes a count either pushes or makes the slot due (`NoCountForgotten`). The rest is about what a slot
holds: `SlotOK` says it happened, to the slots held (`SlotsOK`), the save (`SaveOK`), and
each packet on its way (`LinkOK`), hence `NothingInvented`; a
merge covers the save it read, in checks, status and number of items (`Covers`), and what covers it still does
after a packet (`SaveIsCovered`); every step but a restart keeps each slot's checks, status, date and number of
items (`Keeps`, `NothingLost`). The
items of a save are those of a history, selected by a recursive function, `Receipts`; what it computes,
`ReceivedItems`, is proved by induction on the length. As the library's induction theorems cannot be
instantiated here, the induction is made from a least natural (`LeastNatural`, `NaturalsOf`), with the
property given as the set of the naturals that have it. Theorems: `TypeCorrect`, `NothingInvented`,
`SaveIsCovered`, `NothingLost`, `GoalsHold`, `NoCountForgotten`.

*SlotDaemon.* `CachedAsAsked` rests on where every line is: between computations the registered
daemon's stream holds nothing but ready lines, during one it holds one request or one answer to it
(`StreamsOK`); a daemon that has yet to be ready has not answered (`LoadingOK`); a daemon once dropped is
never asked again, since a start registers its own process only. Theorems: `DaemonTypes`,
`ResultsAreAsAsked`, `DaemonsOweNothing`.

*ReachableDaemon.* What a stream may hold depends on who holds the daemon, so the invariant goes by the
daemon's stages: one being started is open, is nobody's, and has printed at most its first line (`LoadingOK`); the
one at hand has been ready and owes nothing when its lock is free (`CurrentOK`); a lock is held by a reader, or
by one that has closed the daemon and waits for the socket (`LocksOK`); a reader's request or its answer is all
there is (`ReadersOK`); nothing is on a closed one (`ClosedOK`), though callers may still wait for its lock. No
daemon is at hand while one is started (`StarterOK`), and none is up but these (`OpenOK`): hence one
daemon. There is one lemma per action. Theorems: `SessionTypes`, `AnswersAreOwn`, `StreamInStep`,
`OneIsUp`, `SeedIsRight`.

*Hints.* All the run checks is proved, each from a statement about the packets on their way. None of
them is ahead of the server, nor is the save (`AllReal`), so neither is what a slot holds. A hint announced before
a restart, which forgets the feed's seen-set, is behind an answer to Get that marks it before anything
could announce it again (`Remembered`): hence `AnnouncedOnce` needs that Get is sent before SetNotify
and that the server answers in order (`LinkOK`). Of a hint of a slot, the last packet that tells of it tells the
server's status, or is a print, which tells none (`LastTold`); when there is no such packet, the slot holds what it
told, or the save has yet to bring the status (`Settled`), so that `HintsExact` is the case of an empty
inbox. `PaidHintsCount` needs that who paid has a hint, without which the merge would pass the slot over (`PaidOK`). The server's changes share
their lemmas (`Changes`), and so do the two ways a packet is read (`AfterReading`). Theorems: `HintTypes`,
`NoHintTwice`, `HintsAreReal`, `HintsCatchUp`, `PaymentsCount`.

*Only model-checked.* Liveness (`QuietSlotReleased`, `FigureCatchesUp`,
`ChecksCatchUp`, `CountsReachPages`, `EveryComputationEnds`): fairness and ENABLED are beyond the
prover used here. And what code and its comments disagree about, which the runs that expect a violation
show. Every other property of the runs is a theorem; those proved under a hypothesis on the constants are
`PromiseKept` and `FigureFollowsMark` (no page waits) and `BadgeIsExact` (readable Parts), each the instance its
run checks.

## 5. Not modelled

* *Pages' WebSocket server*: registration and the snapshot appear as `PageOpens` of `SlotState`;
  commands, approvals of a restart and the dropping of dead sockets do not.
* *Connection*: a refused Connect, the delays, an exception in the middle of a packet.
* *The order in which concurrent pushes reach the central API*, which nothing in the code orders.
* *Slot state*: the branches for StatusUpdate (`ap_client.py` 947-952), LocationChecks (957-960) and ReceivedItems
  (1104-1132). The first two are packets clients send to the server; a server sends ReceivedItems only to a client that
  asks for items, and the bridge attaches with `items_handling` 0. If a StatusUpdate came, it could lower a status
  (`state.py` 113). A save that is complete and cannot be read is skipped until the next (`state.py` 242-244).
* *Hints*: points and prices, names, the item's wording. The server's print of an old hint, to whoever asks for
  it again: it resets the receiver's status as the first one may, and is announced again if it is handled
  after a restart of the bridge and before the answer to its Get.
* *Reachability*: a regenerated seed against the cache, keyed on counts only: listed as a hazard without a
  property, since in the models a slot's state only grows.
* *Subprocess daemons*: the one-shot program is not killed at its limit; it then runs on, using memory only.
* The feed, names, data package, REST views, heartbeats, schemas and configuration hold little state over time
  or are formatting; the unpickler decodes an external format.

## 6. Plan

1. Done: `Presence`, `Reachable` and `Figure`, `SlotState`, `ReachableDaemon`, `SlotDaemon`, `Hints`, and
   proofs of every safety property checked of them.
2. `WsServer`: registration, snapshot and broadcasts to a page, the approval and its limit.
3. `Connection`: refused Connect, retry, an exception in the middle of a packet.
4. `Reachable` over `ReachableDaemon`: a computation's failures are the daemon's; a new seed against
   the cache.
