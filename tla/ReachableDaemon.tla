--------------------------- MODULE ReachableDaemon ---------------------------
(***************************************************************************)
(* The session daemon that computes reachability, and the requests sent to *)
(* it.                                                                     *)
(*                                                                         *)
(* A daemon is a connection to a host in the game server's container.  It  *)
(* takes the seed, works for a minute or so, prints a ready line and then  *)
(* one line per request.  Nothing in a line says which request it answers: *)
(* the stream must stay in step.  Whoever gives up, at any point, must     *)
(* therefore take the daemon down with it, without hurting the others.     *)
(*                                                                         *)
(* Source: adapters/reachable_socket.py and its caller in                  *)
(* core/reachable.py, with the limit of 120 s on a whole computation.  The *)
(* host is external.  Time is counted in minutes.                          *)
(***************************************************************************)
EXTENDS Integers, Sequences, FiniteSets

CONSTANTS
    Callers,         \* computations of slots
    Permits,         \* how many may be under the semaphore (1 in bridge.py)
    Seeds,           \* .archipelago files: a new one appears on regeneration
    MaxRequests,     \* bound: computations asked for
    MaxDaemons,      \* bound: connections opened
    ComputeTimeout,  \* minutes a computation may take (wait_for, reachable.py)
    ReadyTimeout,    \* minutes a daemon may take to be ready (_READY_TIMEOUT)
    StartMinutes     \* minutes a daemon needs to load its seed

ASSUME BoundAssumption ==
    /\ Permits \in Nat \ {0}
    /\ 0 \notin Callers
    /\ {MaxRequests, MaxDaemons} \subseteq Nat
    /\ {ComputeTimeout, ReadyTimeout, StartMinutes} \subseteq Nat \ {0}

None    == 0             \* no daemon, or no holder of a lock
Daemons == 1..MaxDaemons
Ready   == 0             \* the ready line; a line n > 0 answers request n
Broken  == -1            \* an error line instead of the ready line
Failed  == -2            \* the computation ended with an error
Pending == -3            \* it has not ended

VARIABLES
    current,   \* the adapter's _daemon
    starting,  \* holder of its _starting lock
    daemons,   \* every connection opened: seed, whether each end is still
               \* open, its minutes, lines to the host and lines from it
    lock,      \* holder of each daemon's lock
    callers,   \* where each computation stands
    requests,  \* computations asked for so far
    seed       \* the newest .archipelago file

vars == <<current, starting, daemons, lock, callers, requests, seed>>

Opened  == DOMAIN daemons

\* A connection with nothing on it; that of a daemon at work on its seed.
Connection(s, open) == [seed |-> s, open |-> open, alive |-> TRUE, ready |-> FALSE,
                        age |-> 0, in |-> <<>>, out |-> <<>>]
Loading(s) == Connection(s, TRUE)

Idle(c) == callers[c].at = "idle"
At(c, place)   == callers[c].at = place
Goes(c, place) == callers' = [callers EXCEPT ![c].at = place]
Ends(c, result) ==
    callers' = [callers EXCEPT ![c].at = "idle", ![c].result = result,
                               ![c].daemon = None, ![c].waited = 0]

\* Closing a connection: what was on it is never read, and the host's process
\* behind it ends.
Closed(d) == [daemons EXCEPT ![d] = Connection(daemons[d].seed, FALSE)]

\* _drop_daemon: only the daemon it is asked to drop is forgotten.
Drop(d) ==
    /\ current' = IF current = d THEN None ELSE current
    /\ daemons' = Closed(d)

\* reset_reachable: the daemon at hand, if any, is dropped.
Reset == IF current = None THEN UNCHANGED <<current, daemons>> ELSE Drop(current)

-----------------------------------------------------------------------------
(* run_reachable. *)

\* _compute_reachable gets past the semaphore with the seed it saw.
Begin(c) ==
    /\ Idle(c)
    /\ Cardinality({x \in Callers : ~Idle(x)}) < Permits
    /\ requests < MaxRequests
    /\ requests' = requests + 1
    /\ callers' = [callers EXCEPT
                     ![c] = [at |-> "ensuring", request |-> requests', seed |-> seed,
                             daemon |-> None, waited |-> 0, result |-> Pending]]
    /\ UNCHANGED <<current, starting, daemons, lock, seed>>

\* The lock of daemon d, if free, is taken and the request written at once.
Take(c, d) ==
    IF lock[d] = None
    THEN /\ lock' = [lock EXCEPT ![d] = c]
         /\ callers' = [callers EXCEPT ![c].at = "reading", ![c].daemon = d]
         /\ daemons' = IF daemons[d].open
                       THEN [daemons EXCEPT ![d].in = Append(@, callers[c].request)]
                       ELSE daemons
    ELSE /\ callers' = [callers EXCEPT ![c].at = "queued", ![c].daemon = d]
         /\ UNCHANGED <<lock, daemons>>

\* Variant: the daemon at hand, whatever seed it was started on.
Ensure_AnySeed(c) ==
    /\ At(c, "ensuring") /\ starting = None
    /\ current # None
    /\ Take(c, current)
    /\ UNCHANGED <<current, starting, requests, seed>>

\* _ensure_daemon, once _starting is free: the daemon at hand ...
Ensure(c) ==
    /\ At(c, "ensuring") /\ starting = None
    /\ current # None
    /\ daemons[current].seed = callers[c].seed
    /\ Take(c, current)
    /\ UNCHANGED <<current, starting, requests, seed>>

\* Variant: the former daemon is forgotten, not closed.
Replace_KeepsOpen(c) ==
    /\ At(c, "ensuring") /\ starting = None
    /\ current # None
    /\ daemons[current].seed # callers[c].seed
    /\ starting' = c
    /\ current' = None
    /\ Goes(c, "connecting")
    /\ UNCHANGED <<daemons, lock, requests, seed>>

\* ... or another one, the seed having changed ...
Replace(c) ==
    /\ At(c, "ensuring") /\ starting = None
    /\ current # None
    /\ daemons[current].seed # callers[c].seed
    /\ starting' = c
    /\ Drop(current)
    /\ Goes(c, "connecting")
    /\ UNCHANGED <<lock, requests, seed>>

\* ... or a first one.
StartFirst(c) ==
    /\ At(c, "ensuring") /\ starting = None
    /\ current = None
    /\ starting' = c
    /\ Goes(c, "connecting")
    /\ UNCHANGED <<current, daemons, lock, requests, seed>>

\* _start_daemon: connected, and the seed line sent.
Connect(c) ==
    /\ At(c, "connecting")
    /\ Len(daemons) < MaxDaemons
    /\ daemons' = Append(daemons, Loading(callers[c].seed))
    /\ callers' = [callers EXCEPT ![c].at = "starting", ![c].daemon = Len(daemons')]
    /\ UNCHANGED <<current, starting, lock, requests, seed>>

ConnectFails(c) ==
    /\ At(c, "connecting")
    /\ starting' = None
    /\ Ends(c, Failed)
    /\ UNCHANGED <<current, daemons, lock, requests, seed>>

\* Its ready line is read, and only then is it handed out: the starter goes on
\* to write its own request.
Started(c) ==
    LET d == callers[c].daemon IN
    /\ At(c, "starting")
    /\ daemons[d].out # <<>> /\ Head(daemons[d].out) = Ready
    /\ current' = d
    /\ starting' = None
    /\ lock' = [lock EXCEPT ![d] = c]
    /\ callers' = [callers EXCEPT ![c].at = "reading"]
    /\ daemons' = [daemons EXCEPT ![d].out = Tail(@), ![d].in = <<callers[c].request>>]
    /\ UNCHANGED <<requests, seed>>

Queued(c) ==
    /\ At(c, "queued")
    /\ lock[callers[c].daemon] = None
    /\ Take(c, callers[c].daemon)
    /\ UNCHANGED <<current, starting, requests, seed>>

\* A line is read. The ready line instead of an answer is out of turn: the
\* adapter is told to drop its daemon (reset_reachable).
Read(c) ==
    LET d    == callers[c].daemon
        line == Head(daemons[d].out)
        read == [daemons EXCEPT ![d].out = Tail(@)]
    IN  /\ At(c, "reading")
        /\ daemons[d].out # <<>>
        /\ lock' = [lock EXCEPT ![d] = None]
        /\ IF line # Ready
           THEN Ends(c, line) /\ daemons' = read /\ UNCHANGED current
           ELSE Ends(c, Failed) /\ Reset
        /\ UNCHANGED <<starting, requests, seed>>

\* The stream of the caller's daemon has ended, or is not that of a daemon.
Hopeless(d) ==
    \/ ~daemons[d].open
    \/ ~daemons[d].alive /\ daemons[d].out = <<>>
    \/ daemons[d].out # <<>> /\ Head(daemons[d].out) = Broken

\* Variant: one minute too late.
TimedOut_Late(c) == callers[c].waited > ComputeTimeout

\* The 120 s of a computation, or the 300 s of a start, have passed.
TimedOut(c) ==
    \/ callers[c].waited >= ComputeTimeout
    \/ At(c, "starting") /\ daemons[callers[c].daemon].age >= ReadyTimeout

\* Variants of GiveUp: a caller whose time is up leaves the daemon to the next;
\* nobody's time is ever up.
GiveUp_KeepsDaemon(c) ==
    LET d == callers[c].daemon IN
    /\ At(c, "starting") \/ At(c, "reading")
    /\ Hopeless(d) \/ TimedOut(c)
    /\ IF Hopeless(d) THEN Drop(d) ELSE UNCHANGED <<current, daemons>>
    /\ Goes(c, "closing")
    /\ UNCHANGED <<starting, lock, requests, seed>>

GiveUp_OnErrors(c) ==
    LET d == callers[c].daemon IN
    /\ At(c, "starting") \/ At(c, "reading")
    /\ Hopeless(d)
    /\ Drop(d)
    /\ Goes(c, "closing")
    /\ UNCHANGED <<starting, lock, requests, seed>>

\* The except clauses: whoever reads, or starts, takes the daemon down.
GiveUp(c) ==
    LET d == callers[c].daemon IN
    /\ At(c, "starting") \/ At(c, "reading")
    /\ Hopeless(d) \/ TimedOut(c)
    /\ Drop(d)
    /\ Goes(c, "closing")
    /\ UNCHANGED <<starting, lock, requests, seed>>

\* wait_closed returns; the lock held meanwhile is released.
Close(c) ==
    /\ At(c, "closing")
    /\ starting' = IF starting = c THEN None ELSE starting
    /\ lock' = [d \in Daemons |-> IF lock[d] = c THEN None ELSE lock[d]]
    /\ Ends(c, Failed)
    /\ UNCHANGED <<current, daemons, requests, seed>>

\* Cut short while it holds no stream: it only goes away.
GoAway(c) ==
    /\ At(c, "ensuring") \/ At(c, "queued") \/ At(c, "connecting")
    /\ TimedOut(c)
    /\ starting' = IF starting = c THEN None ELSE starting
    /\ Ends(c, Failed)
    /\ UNCHANGED <<current, daemons, lock, requests, seed>>

\* release_idle, by the sweep: unused for long enough, and nobody on it.
ReleaseIdle ==
    /\ current # None
    /\ lock[current] = None
    /\ Drop(current)
    /\ UNCHANGED <<starting, lock, callers, requests, seed>>

-----------------------------------------------------------------------------
(* The host (external), the orchestrator's regeneration, and time. *)

Serving(d) == daemons[d].open /\ daemons[d].alive

HostLoads(d) ==
    /\ Serving(d) /\ ~daemons[d].ready
    /\ daemons[d].age >= StartMinutes
    /\ \E line \in {Ready, Broken} :
          daemons' = [daemons EXCEPT ![d].ready = TRUE, ![d].out = <<line>>]
    /\ UNCHANGED <<current, starting, lock, callers, requests, seed>>

HostAnswers(d) ==
    /\ Serving(d) /\ daemons[d].ready
    /\ daemons[d].in # <<>>
    /\ daemons' = [daemons EXCEPT ![d].in  = Tail(@),
                                  ![d].out = Append(@, Head(daemons[d].in))]
    /\ UNCHANGED <<current, starting, lock, callers, requests, seed>>

HostDies(d) ==
    /\ Serving(d)
    /\ daemons' = [daemons EXCEPT ![d].alive = FALSE, ![d].in = <<>>]
    /\ UNCHANGED <<current, starting, lock, callers, requests, seed>>

Regenerate ==
    /\ seed' \in Seeds \ {seed}
    /\ UNCHANGED <<current, starting, daemons, lock, callers, requests>>

\* A minute passes, unless somebody's time is up already.
Tick ==
    /\ \E c \in Callers : ~Idle(c)
    /\ \A c \in Callers : Idle(c) \/ ~TimedOut(c)
    /\ callers' = [c \in Callers |->
                     IF Idle(c) THEN callers[c]
                     ELSE [callers[c] EXCEPT !.waited = @ + 1]]
    /\ daemons' = [d \in Opened |->
                     IF Serving(d) /\ ~daemons[d].ready
                     THEN [daemons[d] EXCEPT !.age = @ + 1] ELSE daemons[d]]
    /\ UNCHANGED <<current, starting, lock, requests, seed>>

-----------------------------------------------------------------------------

Init ==
    /\ seed \in Seeds
    /\ current = None
    /\ starting = None
    /\ daemons = <<>>
    /\ lock = [d \in Daemons |-> None]
    /\ callers = [c \in Callers |->
                    [at |-> "idle", request |-> 0, seed |-> seed, daemon |-> None,
                     waited |-> 0, result |-> Failed]]
    /\ requests = 0

Step(c) == \/ Ensure(c) \/ Replace(c) \/ StartFirst(c)
           \/ Connect(c) \/ ConnectFails(c) \/ Started(c)
           \/ Queued(c) \/ Read(c) \/ GiveUp(c) \/ Close(c) \/ GoAway(c)

Next == \/ \E c \in Callers : Begin(c) \/ Step(c)
        \/ ReleaseIdle
        \/ \E d \in Opened : HostLoads(d) \/ HostAnswers(d) \/ HostDies(d)
        \/ Regenerate
        \/ Tick

Spec == Init /\ [][Next]_vars

\* The event loop runs whatever is ready, and time passes. The host may hang.
Fairness == WF_vars(Tick) /\ \A c \in Callers : WF_vars(Step(c))

FairSpec == Spec /\ Fairness

-----------------------------------------------------------------------------
(* Correctness *)

Line == {Ready, Broken} \cup 1..MaxRequests

\* The type invariant.
TypeOK ==
    /\ current \in Opened \cup {None}
    /\ starting \in Callers \cup {None}
    /\ daemons \in Seq([seed : Seeds, open : BOOLEAN, alive : BOOLEAN,
                        ready : BOOLEAN, age : 0..ReadyTimeout,
                        in : Seq(1..MaxRequests), out : Seq(Line)])
    /\ Len(daemons) <= MaxDaemons
    /\ lock \in [Daemons -> Callers \cup {None}]
    /\ callers \in [Callers ->
           [at : {"idle", "ensuring", "connecting", "starting", "queued", "reading",
                  "closing"},
            request : 0..MaxRequests, seed : Seeds, daemon : Opened \cup {None},
            waited : 0..ComputeTimeout, result : Line \cup {Failed, Pending}]]
    /\ requests \in 0..MaxRequests
    /\ seed \in Seeds

\* A computation that ends with an answer ends with its own: no ready line and
\* no answer to somebody who gave up is ever taken for it.
AnswersOwnRequest ==
    \A c \in Callers : callers[c].result \notin {Failed, Pending}
                          => callers[c].result = callers[c].request

\* The stream of the daemon at hand is in step: with nobody on it, nothing is
\* left on it; with a reader, at most that reader's request and its answer.
\* It is ready, and its ready line has been read.
InStep ==
    current # None =>
        LET d == daemons[current] IN
        /\ d.open /\ d.ready
        /\ lock[current] = None => d.in \o d.out = <<>>
        /\ \A c \in Callers :
              lock[current] = c /\ At(c, "reading")
                => d.in \o d.out \in {<<>>, <<callers[c].request>>}

\* At most one daemon is up, starting ones included: each rebuilds the whole
\* multiworld (ReachableSocketAdapter.__init__).
OneDaemon == Cardinality({d \in Opened : daemons[d].open}) <= 1

\* Only a daemon on the seed the caller saw computes for it.
RightSeed ==
    \A c \in Callers :
       At(c, "reading") => daemons[callers[c].daemon].seed = callers[c].seed

\* Every computation ends, answered or not, even if the host hangs and others
\* hold the locks it waits for.
EveryComputationEnds == \A c \in Callers : ~Idle(c) ~> Idle(c)

\* A daemon that loads its seed in time is left to load it: "the limits only
\* catch a daemon that hangs" (reachable_socket.py, _READY_TIMEOUT).
StartNotCutShort ==
    [][\A d \in Opened :
         /\ Serving(d) /\ ~daemons[d].ready
         /\ daemons[d].age <= StartMinutes /\ daemons[d].age < ReadyTimeout
         => daemons'[d].open]_vars
=============================================================================
