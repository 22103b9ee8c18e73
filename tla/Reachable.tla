----------------------------- MODULE Reachable -----------------------------
(***************************************************************************)
(* How a slot's "reachable now" figure is kept up to date.                 *)
(*                                                                         *)
(* A slot's state is (checks done, items received); both only grow, so a   *)
(* slot is modelled by its progress, a number, and the result of computing *)
(* its reachability by the progress the computation captured when it began.*)
(* Computations are long and go one at a time, in order of arrival,        *)
(* through a semaphore.  Three parties start them: the sweep, one slot     *)
(* after the other, the tasks requests start (one per slot, shared by all  *)
(* who ask), and, through these tasks, the pages that wait up to a grace   *)
(* period for the answer.  All run on one event loop: they interleave at   *)
(* awaits only.                                                            *)
(*                                                                         *)
(* Source: core/reachable.py, core/loops.py, core/rest_reachable.py.       *)
(***************************************************************************)
EXTENDS Integers, Sequences, FiniteSets

CONSTANTS
    Slots,
    Pages,        \* requests that may be answered within their grace period
    MaxProgress,  \* bound: checks and items of a slot
    MaxFailures   \* bound: computations that fail (timeout, daemon lost, ...)

ASSUME BoundAssumption == MaxProgress \in Nat /\ MaxFailures \in Nat

Never == -1       \* nothing computed yet

VARIABLES
    progress,      \* per slot, its checks and items so far (the cache key)
    event,         \* recompute_event
    cache,         \* _reachable_cache: the progress whose result is cached
    reachableNow,  \* PlayerState.reachable_now: whose result is shown
    queue,         \* computations on the semaphore; its head holds it
    sweep,         \* the sweep: "waiting", "picking", "computing", "pushing"
    todo,          \* the sweep's to_sweep, what is left of it
    lastComputed,  \* the sweep's last_computed
    task,          \* _inflight: per slot "none", "created", "queued", "pushing"
    taskResult,    \* result of a slot's task, once computed
    pages,         \* requests waiting for a slot's task, or holding its result
    failures       \* computations that failed so far

sweepVars == <<sweep, todo, lastComputed>>
taskVars  == <<task, taskResult>>
vars == <<progress, event, cache, reachableNow, queue, sweepVars, taskVars,
          pages, failures>>

Key     == Never..MaxProgress
Job     == [by : {"sweep", "task"}, slot : Slots, key : Nat]
NoPage  == [state |-> "none"]
Waiting(s)       == [state |-> "waiting", slot |-> s]
Answered(s, key) == [state |-> "answered", slot |-> s, result |-> key]

-----------------------------------------------------------------------------
(* _compute_reachable: the key is captured before the semaphore. *)

Fresh(s) == cache[s] = progress[s]

\* Variants: the newest computation goes first; the slot's state is read only
\* when the result is stored.
Begin_NewestFirst(by, s) ==
    queue' = IF queue = <<>> THEN <<[by |-> by, slot |-> s, key |-> progress[s]]>>
             ELSE <<Head(queue), [by |-> by, slot |-> s, key |-> progress[s]]>>
                    \o Tail(queue)
Begin_OneAhead(by, s) ==
    queue' = Append(queue, [by |-> by, slot |-> s, key |-> progress[s] + 1])

\* A computation of s begins for somebody: it queues with what it captured.
Begin(by, s) ==
    queue' = Append(queue, [by |-> by, slot |-> s, key |-> progress[s]])

\* The computation holding the semaphore is by `by`, and ends.
Ends(by) ==
    /\ queue # <<>>
    /\ Head(queue).by = by
    /\ queue' = Tail(queue)

\* The result is cached and shown before anything else runs: from the cache
\* write to the caller's assignment of reachable_now there is no await.
Show(s, key) ==
    /\ cache'        = [cache EXCEPT ![s] = key]
    /\ reachableNow' = [reachableNow EXCEPT ![s] = key]

Fail == /\ failures < MaxFailures
        /\ failures' = failures + 1

-----------------------------------------------------------------------------
(* A slot advances. *)

\* Seen on the WS or by the reconcile loop: the sweep is woken.
Advance(s) ==
    /\ progress[s] < MaxProgress
    /\ progress' = [progress EXCEPT ![s] = @ + 1]
    /\ event' = TRUE
    /\ UNCHANGED <<cache, reachableNow, queue, sweepVars, taskVars, pages, failures>>

\* Merged from the save by a request's handler: nobody is told.
AdvanceQuietly(s) ==
    /\ progress[s] < MaxProgress
    /\ progress' = [progress EXCEPT ![s] = @ + 1]
    /\ UNCHANGED <<event, cache, reachableNow, queue, sweepVars, taskVars, pages,
                   failures>>

-----------------------------------------------------------------------------
(* The sweep: _reachable_sweep_loop. *)

\* Woken by the event or after 30s: every slot not computed as it stands.
SweepWakes ==
    /\ sweep = "waiting"
    /\ sweep' = "picking"
    /\ event' = FALSE
    /\ todo' = {s \in Slots : lastComputed[s] # progress[s]}
    /\ UNCHANGED <<progress, cache, reachableNow, queue, lastComputed, taskVars,
                   pages, failures>>

\* The next slot is in the cache as it stands: shown and marked at once.
SweepFindsCached(s) ==
    /\ sweep = "picking" /\ s \in todo
    /\ Fresh(s)
    /\ todo' = todo \ {s}
    /\ reachableNow' = [reachableNow EXCEPT ![s] = cache[s]]
    /\ lastComputed' = [lastComputed EXCEPT ![s] = cache[s]]
    /\ UNCHANGED <<progress, event, cache, queue, sweep, taskVars, pages, failures>>

SweepBegins(s) ==
    /\ sweep = "picking" /\ s \in todo
    /\ ~Fresh(s)
    /\ todo' = todo \ {s}
    /\ sweep' = "computing"
    /\ Begin("sweep", s)
    /\ UNCHANGED <<progress, event, cache, reachableNow, lastComputed, taskVars,
                   pages, failures>>

\* Variant: marked with the slot's state after the await.
SweepComputed_MarksNow ==
    /\ Ends("sweep")
    /\ LET job == Head(queue) IN
       /\ Show(job.slot, job.key)
       /\ lastComputed' = [lastComputed EXCEPT ![job.slot] = progress[job.slot]]
    /\ sweep' = "pushing"
    /\ UNCHANGED <<progress, event, todo, taskVars, pages, failures>>

\* Marked with the key the computation used, not with the slot's state now.
SweepComputed ==
    /\ Ends("sweep")
    /\ LET job == Head(queue) IN
       /\ Show(job.slot, job.key)
       /\ lastComputed' = [lastComputed EXCEPT ![job.slot] = job.key]
    /\ sweep' = "pushing"
    /\ UNCHANGED <<progress, event, todo, taskVars, pages, failures>>

SweepFailed ==
    /\ Ends("sweep")
    /\ Fail
    /\ sweep' = "picking"
    /\ UNCHANGED <<progress, event, cache, reachableNow, todo, lastComputed,
                   taskVars, pages>>

\* Broadcast and push done.
SweepPushed ==
    /\ sweep = "pushing"
    /\ sweep' = "picking"
    /\ UNCHANGED <<progress, event, cache, reachableNow, queue, todo, lastComputed,
                   taskVars, pages, failures>>

SweepRests ==
    /\ sweep = "picking" /\ todo = {}
    /\ sweep' = "waiting"
    /\ UNCHANGED <<progress, event, cache, reachableNow, queue, todo, lastComputed,
                   taskVars, pages, failures>>

-----------------------------------------------------------------------------
(* A slot's task: start_reachable, _compute_and_publish. *)

\* Variant: a request starts a task though one is queued already.
AskAndLeave_Again(s) ==
    /\ task[s] \in {"none", "queued"}
    /\ task' = [task EXCEPT ![s] = "created"]
    /\ UNCHANGED <<progress, event, cache, reachableNow, queue, sweepVars,
                   taskResult, pages, failures>>

\* A request starts the slot's task, or joins it, and does not stay for the
\* answer (item-locations, or a grace period that will run out).
AskAndLeave(s) ==
    /\ task[s] = "none"
    /\ task' = [task EXCEPT ![s] = "created"]
    /\ UNCHANGED <<progress, event, cache, reachableNow, queue, sweepVars,
                   taskResult, pages, failures>>

\* What the pages waiting for s get when its task is done.
Deliver(s, page) ==
    pages' = [p \in Pages |-> IF pages[p] = Waiting(s) THEN page ELSE pages[p]]

\* Variant: a task's result is cached, its slot's figure left to the sweep.
TaskComputed_NotShown ==
    /\ Ends("task")
    /\ LET job == Head(queue) IN
       /\ cache' = [cache EXCEPT ![job.slot] = job.key]
       /\ task' = [task EXCEPT ![job.slot] = "pushing"]
       /\ taskResult' = [taskResult EXCEPT ![job.slot] = job.key]
    /\ UNCHANGED <<progress, event, reachableNow, sweepVars, pages, failures>>

TaskFindsCached(s) ==
    /\ task[s] = "created"
    /\ Fresh(s)
    /\ task' = [task EXCEPT ![s] = "none"]
    /\ Deliver(s, Answered(s, cache[s]))
    /\ UNCHANGED <<progress, event, cache, reachableNow, queue, sweepVars,
                   taskResult, failures>>

TaskBegins(s) ==
    /\ task[s] = "created"
    /\ ~Fresh(s)
    /\ task' = [task EXCEPT ![s] = "queued"]
    /\ Begin("task", s)
    /\ UNCHANGED <<progress, event, cache, reachableNow, sweepVars, taskResult,
                   pages, failures>>

\* The publisher shows the result, then awaits the broadcast and the push.
TaskComputed ==
    /\ Ends("task")
    /\ LET job == Head(queue) IN
       /\ Show(job.slot, job.key)
       /\ task' = [task EXCEPT ![job.slot] = "pushing"]
       /\ taskResult' = [taskResult EXCEPT ![job.slot] = job.key]
    /\ UNCHANGED <<progress, event, sweepVars, pages, failures>>

TaskFailed ==
    /\ Ends("task")
    /\ Fail
    /\ task' = [task EXCEPT ![Head(queue).slot] = "none"]
    /\ Deliver(Head(queue).slot, NoPage)
    /\ UNCHANGED <<progress, event, cache, reachableNow, sweepVars, taskResult>>

\* Pushed: the task is done, forgotten, and whoever still waits gets its result.
TaskPushed(s) ==
    /\ task[s] = "pushing"
    /\ task' = [task EXCEPT ![s] = "none"]
    /\ Deliver(s, Answered(s, taskResult[s]))
    /\ UNCHANGED <<progress, event, cache, reachableNow, queue, sweepVars,
                   taskResult, failures>>

-----------------------------------------------------------------------------
(* A page that waits: get_reachable. *)

PageAsks(p, s) ==
    /\ pages[p] = NoPage
    /\ pages' = [pages EXCEPT ![p] = Waiting(s)]
    /\ task' = [task EXCEPT ![s] = IF @ = "none" THEN "created" ELSE @]
    /\ UNCHANGED <<progress, event, cache, reachableNow, queue, sweepVars,
                   taskResult, failures>>

\* The grace period runs out: the computation goes on without the page.
PageGivesUp(p) ==
    /\ pages[p].state = "waiting"
    /\ pages' = [pages EXCEPT ![p] = NoPage]
    /\ UNCHANGED <<progress, event, cache, reachableNow, queue, sweepVars, taskVars,
                   failures>>

\* The handler resumes with the result of the task it waited for, and shows it.
PageResumes(p) ==
    /\ pages[p].state = "answered"
    /\ reachableNow' = [reachableNow EXCEPT ![pages[p].slot] = pages[p].result]
    /\ pages' = [pages EXCEPT ![p] = NoPage]
    /\ UNCHANGED <<progress, event, cache, queue, sweepVars, taskVars, failures>>

-----------------------------------------------------------------------------

Init ==
    /\ progress = [s \in Slots |-> 0]
    /\ event = FALSE
    /\ cache = [s \in Slots |-> Never]
    /\ reachableNow = [s \in Slots |-> Never]
    /\ queue = <<>>
    /\ sweep = "waiting"
    /\ todo = {}
    /\ lastComputed = [s \in Slots |-> Never]
    /\ task = [s \in Slots |-> "none"]
    /\ taskResult = [s \in Slots |-> Never]
    /\ pages = [p \in Pages |-> NoPage]
    /\ failures = 0

Sweep == \/ SweepWakes \/ SweepComputed \/ SweepFailed \/ SweepPushed \/ SweepRests
         \/ \E s \in Slots : SweepFindsCached(s) \/ SweepBegins(s)

Task == \/ TaskComputed \/ TaskFailed
        \/ \E s \in Slots : TaskFindsCached(s) \/ TaskBegins(s) \/ TaskPushed(s)

Page == \E p \in Pages : \/ \E s \in Slots : PageAsks(p, s)
                         \/ PageGivesUp(p) \/ PageResumes(p)

Next == \/ Sweep \/ Task \/ Page
        \/ \E s \in Slots : Advance(s) \/ AdvanceQuietly(s) \/ AskAndLeave(s)

Spec == Init /\ [][Next]_vars

\* The event loop runs whatever is ready, the sweep's timer goes off, and a
\* computation ends (every wait in it has a timeout).
Fairness ==
    /\ WF_vars(SweepWakes) /\ WF_vars(SweepPushed) /\ WF_vars(SweepRests)
    /\ WF_vars(SweepComputed) /\ WF_vars(TaskComputed)
    /\ \A s \in Slots : /\ WF_vars(SweepFindsCached(s) \/ SweepBegins(s))
                        /\ WF_vars(TaskFindsCached(s) \/ TaskBegins(s))
                        /\ WF_vars(TaskPushed(s))
    /\ \A p \in Pages : WF_vars(PageResumes(p))

FairSpec == Spec /\ Fairness

-----------------------------------------------------------------------------
(* Correctness *)

PageState == {NoPage} \cup [state : {"waiting"}, slot : Slots]
                      \cup [state : {"answered"}, slot : Slots, result : Key]

\* The type invariant.
TypeOK ==
    /\ progress \in [Slots -> 0..MaxProgress]
    /\ event \in BOOLEAN
    /\ cache \in [Slots -> Key]
    /\ reachableNow \in [Slots -> Key]
    /\ queue \in Seq(Job)
    /\ sweep \in {"waiting", "picking", "computing", "pushing"}
    /\ todo \subseteq Slots
    /\ lastComputed \in [Slots -> Key]
    /\ task \in [Slots -> {"none", "created", "queued", "pushing"}]
    /\ taskResult \in [Slots -> Key]
    /\ pages \in [Pages -> PageState]
    /\ failures \in 0..MaxFailures

\* The sweep and each slot's task compute at most once at a time: every
\* computation on the semaphore belongs to a party waiting for it.
OneComputationEach ==
    /\ \A i, j \in DOMAIN queue :
          i # j => \/ queue[i].by # queue[j].by
                   \/ queue[i].by = "task" /\ queue[i].slot # queue[j].slot
    /\ sweep = "computing" <=> \E i \in DOMAIN queue : queue[i].by = "sweep"
    /\ \A s \in Slots :
          task[s] = "queued"
            <=> \E i \in DOMAIN queue : queue[i].by = "task" /\ queue[i].slot = s

\* Computations of a slot finish in the order they looked at it, and none is
\* older than what is cached, although the key is captured before the semaphore.
QueueInOrder ==
    /\ \A i \in DOMAIN queue :
          queue[i].key \in cache[queue[i].slot]..progress[queue[i].slot]
    /\ \A i, j \in DOMAIN queue :
          i < j /\ queue[i].slot = queue[j].slot => queue[i].key <= queue[j].key

\* A cached result is never replaced by that of an older state of the slot.
CacheNeverGoesBack == [][\A s \in Slots : cache'[s] >= cache[s]]_cache

\* The figure shown is at least as recent as the state the sweep marked as
\* computed: otherwise it stays one batch behind, since the sweep never comes
\* back to a slot it has marked (loops.py, _reachable_sweep_loop).
ShownAsMarked == \A s \in Slots : reachableNow[s] >= lastComputed[s]

\* The sweep marks nothing it has not computed, nor anything yet to come.
MarksWhatWasComputed ==
    \A s \in Slots : lastComputed[s] <= cache[s] /\ cache[s] <= progress[s]

\* The pages' promise (module Figure), kept where no request waits for an
\* answer: a slot's figure only moves on, to states the slot was in, whatever
\* order the sweep, the tasks and their failures come in.
Promise == INSTANCE Figure WITH figure <- reachableNow

KeepsPromise == Promise!Spec

\* Once a slot stays as it is, what is shown of it becomes, and stays, what
\* follows from it, even when nobody woke the sweep for its last change.
FigureCatchesUp ==
    \A s \in Slots : \A k \in 0..MaxProgress :
        <>[](progress[s] = k) => <>[](reachableNow[s] = k)
=============================================================================
