----------------------------- MODULE SlotDaemon -----------------------------
(***************************************************************************)
(* One slot's reachability without an adapter: the bridge starts the       *)
(* program itself, as a daemon that answers one line per request, or once  *)
(* per computation while no daemon is ready.                               *)
(*                                                                         *)
(* Computations of the slot exclude each other (the semaphore), the tasks  *)
(* that start daemons do not: they register a process and an event under   *)
(* the slot, each in its own time.  Nothing matches an answer to its       *)
(* request but its place in the stream.                                    *)
(*                                                                         *)
(* Source: core/reachable.py.  The program (reachable.py) is external.     *)
(***************************************************************************)
EXTENDS Naturals, Sequences

CONSTANTS
    Starts,       \* tasks that start a daemon; each names its process and its event
    NoStart,      \* none of them
    MaxProgress,  \* bound: changes of the slot's state
    MaxDeaths     \* bound: daemons that die by themselves

ASSUME SlotDaemonAssumption ==
    /\ NoStart \notin Starts
    /\ MaxProgress \in Nat \ {0} /\ MaxDeaths \in Nat

VARIABLES
    progress,    \* the slot's state: what a computation is asked for
    cache,       \* _reachable_cache: of which state, computed from which state
    computing,   \* the computation holding the semaphore
    starts,      \* where each start task stands
    process,     \* each daemon's process, as the system has it
    requests,    \* lines in its stdin
    answers,     \* lines in its stdout
    registered,  \* _reachable_daemons
    event,       \* _daemon_ready_events: the start it belongs to
    ready,       \* events that are set
    deaths

taskVars   == <<starts, event, ready>>
streamVars == <<requests, answers>>
vars == <<progress, cache, computing, taskVars, process, streamVars, registered,
          deaths>>

Idle     == [phase |-> "idle"]
Uncached == [state |-> 0, from |-> 0]
Answer(state) == [type |-> "answer", from |-> state]
Ready    == [type |-> "ready"]
Failure  == [type |-> "error"]

Alive(d) == process[d] \in {"loading", "serving"}

\* returncode is still None: the process lives, or its end is not noticed yet.
Running(d) == d # NoStart /\ process[d] \in {"loading", "serving", "died"}

Unused == {i \in Starts : starts[i] = "none"}

-----------------------------------------------------------------------------
(* Helpers of the handlers. *)

\* The slot has no running daemon: a task to start one, which runs later.
StartIfNone(current) ==
    IF Running(current) THEN UNCHANGED starts
    ELSE \E i \in Unused : starts' = [starts EXCEPT ![i] = "scheduled"]

\* Variant: the daemon is left as it is.
ResetDaemon_Kept == UNCHANGED <<registered, event, process>>

\* _reset_daemon: whatever is registered now is forgotten, and killed.
ResetDaemon ==
    /\ registered' = NoStart
    /\ event' = NoStart
    /\ process' = IF registered = NoStart THEN process
                  ELSE [process EXCEPT ![registered] = "reaped"]

\* Variant: cached under the key of the state that follows.
Finish_NextKey(result) ==
    /\ computing' = Idle
    /\ cache' = IF result = 0 THEN cache
                ELSE [state |-> computing.state + 1, from |-> result]

Finish(result) ==
    /\ computing' = Idle
    /\ cache' = IF result = 0 THEN cache
                ELSE [state |-> computing.state, from |-> result]

-----------------------------------------------------------------------------
(* The computation. *)

Usable(d) == Running(d) /\ event # NoStart /\ event \in ready

\* The state is read, the request written to the slot's daemon.
AskDaemon ==
    /\ computing = Idle /\ cache.state # progress
    /\ Usable(registered)
    /\ computing' = [phase |-> "asked", state |-> progress, daemon |-> registered]
    /\ requests' = [requests EXCEPT ![registered] = Append(@, progress)]
    /\ UNCHANGED <<progress, cache, taskVars, process, answers, registered, deaths>>

\* No daemon is ready: the program is run once, and a daemon started if there is none.
RunOnce ==
    /\ computing = Idle /\ cache.state # progress
    /\ ~Usable(registered)
    /\ computing' = [phase |-> "once", state |-> progress]
    /\ StartIfNone(registered)
    /\ UNCHANGED <<progress, cache, event, ready, process, streamVars, registered,
                   deaths>>

\* Variant of ReadAnswer: any line is a result.
ReadAnswer_Unchecked ==
    /\ computing.phase = "asked"
    /\ LET d == computing.daemon IN
       /\ answers[d] # <<>>
       /\ answers' = [answers EXCEPT ![d] = Tail(@)]
       /\ Finish(IF Head(answers[d]).type = "answer" THEN Head(answers[d]).from ELSE 1)
       /\ UNCHANGED <<registered, event, process>>
    /\ UNCHANGED <<progress, starts, ready, requests, deaths>>

\* The daemon's line: a result, an error, or a line out of turn (_result_error).
ReadAnswer ==
    /\ computing.phase = "asked"
    /\ LET d == computing.daemon IN
       /\ answers[d] # <<>>
       /\ answers' = [answers EXCEPT ![d] = Tail(@)]
       /\ CASE Head(answers[d]).type = "answer" ->
                 /\ Finish(Head(answers[d]).from)
                 /\ UNCHANGED <<registered, event, process>>
            [] Head(answers[d]).type = "error" ->
                 /\ Finish(0)
                 /\ UNCHANGED <<registered, event, process>>
            [] OTHER -> Finish(0) /\ ResetDaemon
    /\ UNCHANGED <<progress, starts, ready, requests, deaths>>

\* Variant of DaemonFails: the daemon is kept for the next request.
DaemonFails_Kept ==
    /\ computing.phase = "asked"
    /\ ResetDaemon_Kept
    /\ StartIfNone(registered')
    /\ computing' = [phase |-> "once", state |-> computing.state]
    /\ UNCHANGED <<progress, cache, ready, streamVars, deaths>>

\* No line within the 10 s, a broken pipe, the end of the stream, or a start task
\* reading the same stream: the daemon is dropped, the program run once instead.
DaemonFails ==
    /\ computing.phase = "asked"
    /\ ResetDaemon
    /\ StartIfNone(registered')
    /\ computing' = [phase |-> "once", state |-> computing.state]
    /\ UNCHANGED <<progress, cache, ready, streamVars, deaths>>

\* The program run once answers, or fails or runs into its 120 s.
OnceEnds ==
    /\ computing.phase = "once"
    /\ \E result \in {0, computing.state} : Finish(result)
    /\ UNCHANGED <<progress, taskVars, process, streamVars, registered, deaths>>

-----------------------------------------------------------------------------
(* _start_daemon, a task of its own. *)

\* Its first step registers the event, then it waits for the process.
StartRuns(i) ==
    /\ starts[i] = "scheduled"
    /\ starts' = [starts EXCEPT ![i] = "spawning"]
    /\ event' = i
    /\ UNCHANGED <<progress, cache, computing, ready, process, streamVars, registered,
                   deaths>>

\* The process is registered, over another start's perhaps.
Spawned(i) ==
    /\ starts[i] = "spawning"
    /\ starts' = [starts EXCEPT ![i] = "waiting"]
    /\ process' = [process EXCEPT ![i] = "loading"]
    /\ registered' = i
    /\ UNCHANGED <<progress, cache, computing, event, ready, streamVars, deaths>>

\* The first line says ready: the start's own event is set, registered or not.
StartReads(i) ==
    /\ starts[i] = "waiting"
    /\ answers[i] # <<>>
    /\ answers' = [answers EXCEPT ![i] = Tail(@)]
    /\ starts' = [starts EXCEPT ![i] = "done"]
    /\ ready' = IF Head(answers[i]) = Ready THEN ready \cup {i} ELSE ready
    /\ UNCHANGED <<progress, cache, computing, event, process, requests, registered,
                   deaths>>

\* No process, the end of its stream, or no line within the 180 s: what is
\* registered stays registered.
StartFails(i) ==
    /\ starts[i] \in {"spawning", "waiting"}
    /\ starts' = [starts EXCEPT ![i] = "done"]
    /\ UNCHANGED <<progress, cache, computing, event, ready, process, streamVars,
                   registered, deaths>>

-----------------------------------------------------------------------------
(* The slot plays; the daemons (external). *)

Play ==
    /\ progress < MaxProgress
    /\ progress' = progress + 1
    /\ UNCHANGED <<cache, computing, taskVars, process, streamVars, registered, deaths>>

Loaded(d) ==
    /\ process[d] = "loading"
    /\ process' = [process EXCEPT ![d] = "serving"]
    /\ answers' = [answers EXCEPT ![d] = Append(@, Ready)]
    /\ UNCHANGED <<progress, cache, computing, taskVars, requests, registered, deaths>>

Serve(d) ==
    /\ process[d] = "serving"
    /\ requests[d] # <<>>
    /\ requests' = [requests EXCEPT ![d] = Tail(@)]
    /\ \E line \in {Answer(Head(requests[d])), Failure} :
          answers' = [answers EXCEPT ![d] = Append(@, line)]
    /\ UNCHANGED <<progress, cache, computing, taskVars, process, registered, deaths>>

Die(d) ==
    /\ Alive(d) /\ deaths < MaxDeaths
    /\ deaths' = deaths + 1
    /\ process' = [process EXCEPT ![d] = "died"]
    /\ UNCHANGED <<progress, cache, computing, taskVars, streamVars, registered>>

\* The event loop learns of it: returncode.
Reap(d) ==
    /\ process[d] = "died"
    /\ process' = [process EXCEPT ![d] = "reaped"]
    /\ UNCHANGED <<progress, cache, computing, taskVars, streamVars, registered, deaths>>

-----------------------------------------------------------------------------

Init ==
    /\ progress = 1
    /\ cache = Uncached
    /\ computing = Idle
    /\ starts = [i \in Starts |-> "none"]
    /\ process = [i \in Starts |-> "none"]
    /\ requests = [i \in Starts |-> <<>>]
    /\ answers = [i \in Starts |-> <<>>]
    /\ registered = NoStart
    /\ event = NoStart
    /\ ready = {}
    /\ deaths = 0

Compute == AskDaemon \/ RunOnce \/ ReadAnswer \/ DaemonFails \/ OnceEnds

Start(i) == StartRuns(i) \/ Spawned(i) \/ StartReads(i) \/ StartFails(i)

Daemon(d) == Loaded(d) \/ Serve(d) \/ Die(d) \/ Reap(d)

Next == Compute \/ Play \/ \E i \in Starts : Start(i) \/ Daemon(i)

Spec == Init /\ [][Next]_vars

-----------------------------------------------------------------------------
(* Correctness *)

States == 1..MaxProgress

Line == {Ready, Failure} \cup {Answer(k) : k \in States}

\* The type invariant.
TypeOK ==
    /\ progress \in States
    /\ cache \in [state : 0..MaxProgress, from : 0..MaxProgress]
    /\ computing \in {Idle} \cup [phase : {"once"}, state : States]
                     \cup [phase : {"asked"}, state : States, daemon : Starts]
    /\ starts \in [Starts -> {"none", "scheduled", "spawning", "waiting", "done"}]
    /\ process \in [Starts -> {"none", "loading", "serving", "died", "reaped"}]
    /\ requests \in [Starts -> Seq(States)]
    /\ answers \in [Starts -> Seq(Line)]
    /\ registered \in Starts \cup {NoStart}
    /\ event \in Starts \cup {NoStart}
    /\ ready \subseteq Starts
    /\ deaths \in 0..MaxDeaths

\* What is cached for a state was computed from it, although an answer may come
\* after its request gave up on it, and a start may set its event for a process
\* another start has registered ("the stream one line out of step").
CachedAsAsked == cache.from = cache.state

\* Between computations the slot's daemon owes nobody an answer: a request given up
\* takes its daemon with it ("Its stream is out of step now").
NothingOwed ==
    computing.phase # "asked" /\ registered # NoStart =>
        /\ requests[registered] = <<>>
        /\ \A n \in DOMAIN answers[registered] : answers[registered][n] = Ready
=============================================================================
