--------------------------- MODULE ReachableProofs ---------------------------
(***************************************************************************)
(* Theorems about Reachable, for any slots, any waiting pages and any      *)
(* bounds.                                                                 *)
(*                                                                         *)
(* A result is stored long after the state it was computed from was looked *)
(* at.  It is not stale by then because computations of a slot end in the  *)
(* order they looked at it: QueueInOrder, with the marks it keeps below    *)
(* the cache, and the cache below the slot's progress, is inductive.       *)
(***************************************************************************)
EXTENDS Reachable, SequenceTheorems, TLAPS

Inv == TypeOK /\ QueueInOrder /\ MarksWhatWasComputed

\* What Head and Tail of the queue are.
LEMMA HeadTail ==
    ASSUME NEW by, queue \in Seq(Job), Ends(by)
    PROVE  /\ Head(queue) \in Job
           /\ queue' \in Seq(Job)
           /\ Len(queue') = Len(queue) - 1
           /\ Head(queue) = queue[1]
           /\ \A i \in DOMAIN queue' :
                 i + 1 \in DOMAIN queue /\ queue'[i] = queue[i + 1]
<1>1. queue # <<>> /\ queue' = Tail(queue)
  BY DEF Ends
<1>2. Head(queue) \in Job /\ queue' \in Seq(Job)
  BY <1>1
<1>3. Len(queue') = Len(queue) - 1
  BY <1>1
<1>4. \A i \in DOMAIN queue' : i + 1 \in DOMAIN queue /\ queue'[i] = queue[i + 1]
  BY <1>1, <1>3
<1> QED BY <1>1, <1>2, <1>3, <1>4

\* A computation that begins looks at a state no older than any before it.
LEMMA BeginOK ==
    ASSUME Inv, NEW s \in Slots, NEW by \in {"sweep", "task"}, Begin(by, s),
           UNCHANGED <<cache, progress>>
    PROVE  queue' \in Seq(Job) /\ QueueInOrder'
<1> DEFINE job == [by |-> by, slot |-> s, key |-> progress[s]]
<1>1. job \in Job
  BY DEF Inv, TypeOK, Job
<1>2. queue \in Seq(Job) /\ queue' = Append(queue, job)
  BY DEF Inv, TypeOK, Begin
<1>3. queue' \in Seq(Job) /\ Len(queue') = Len(queue) + 1
  BY <1>1, <1>2
<1>4. /\ queue'[Len(queue) + 1] = job
      /\ \A i \in DOMAIN queue : queue'[i] = queue[i]
      /\ DOMAIN queue' = DOMAIN queue \cup {Len(queue) + 1}
  BY <1>1, <1>2
<1>5. progress[s] \in cache[s]..progress[s]
  BY DEF Inv, TypeOK, MarksWhatWasComputed, Key, Never, BoundAssumption
<1>6. \A i \in DOMAIN queue : queue[i] \in Job
  BY <1>2
<1>7. \A i \in DOMAIN queue' :
         queue'[i].key \in cache[queue'[i].slot]..progress[queue'[i].slot]
  BY <1>4, <1>5 DEF Inv, QueueInOrder
<1>8. ASSUME NEW i \in DOMAIN queue', NEW j \in DOMAIN queue',
             i < j, queue'[i].slot = queue'[j].slot
      PROVE  queue'[i].key <= queue'[j].key
  <2>1. i \in DOMAIN queue
    BY <1>2, <1>3, <1>4, <1>8
  <2>2. CASE j \in DOMAIN queue
    BY <1>4, <1>8, <2>1, <2>2 DEF Inv, QueueInOrder
  <2>3. CASE j = Len(queue) + 1
    <3>1. queue[i].slot = s /\ queue'[i] = queue[i] /\ queue'[j].key = progress[s]
      BY <1>4, <1>8, <2>1, <2>3
    <3>2. queue[i].key \in cache[s]..progress[s]
      BY <2>1, <3>1 DEF Inv, QueueInOrder
    <3> QED BY <3>1, <3>2
  <2> QED BY <1>4, <2>2, <2>3
<1> QED BY <1>3, <1>7, <1>8 DEF QueueInOrder

\* A computation that fails leaves the others in order.
LEMMA FailOK ==
    ASSUME Inv, NEW by, Ends(by), UNCHANGED <<cache, progress>>
    PROVE  queue' \in Seq(Job) /\ QueueInOrder'
<1> USE DEF Inv
<1>1. queue \in Seq(Job)
  BY DEF TypeOK
<1>2. /\ queue' \in Seq(Job)
      /\ \A i \in DOMAIN queue' : i + 1 \in DOMAIN queue /\ queue'[i] = queue[i + 1]
  BY <1>1, HeadTail
<1>3. \A i \in DOMAIN queue' :
         queue'[i].key \in cache[queue'[i].slot]..progress[queue'[i].slot]
  BY <1>2 DEF QueueInOrder
<1>4. \A i, j \in DOMAIN queue' :
         i < j /\ queue'[i].slot = queue'[j].slot => queue'[i].key <= queue'[j].key
  BY <1>1, <1>2 DEF QueueInOrder
<1> QED BY <1>2, <1>3, <1>4 DEF QueueInOrder

\* One that ends well is no older than what it replaces, nor than the rest.
LEMMA ShowOK ==
    ASSUME Inv, NEW by, Ends(by), Show(Head(queue).slot, Head(queue).key),
           UNCHANGED progress
    PROVE  /\ Head(queue) \in Job
           /\ Head(queue).key \in Key
           /\ queue' \in Seq(Job)
           /\ cache' \in [Slots -> Key]
           /\ reachableNow' \in [Slots -> Key]
           /\ QueueInOrder'
           /\ \A s \in Slots : cache[s] <= cache'[s] /\ cache'[s] <= progress[s]
<1> USE DEF Inv
<1> DEFINE job == Head(queue)
<1>1. /\ queue \in Seq(Job)
      /\ cache \in [Slots -> Key] /\ reachableNow \in [Slots -> Key]
      /\ progress \in [Slots -> 0..MaxProgress]
  BY DEF TypeOK
<1>2. /\ job \in Job /\ job = queue[1] /\ 1 \in DOMAIN queue
      /\ queue' \in Seq(Job)
      /\ \A i \in DOMAIN queue' : i + 1 \in DOMAIN queue /\ queue'[i] = queue[i + 1]
  BY <1>1, HeadTail DEF Ends
<1>3. job.slot \in Slots /\ job.key \in Nat
  BY <1>2 DEF Job
<1>4. job.key \in cache[job.slot]..progress[job.slot]
  BY <1>2 DEF QueueInOrder
<1>5. job.key \in Key
  BY <1>1, <1>3, <1>4, BoundAssumption DEF Key, Never
<1>6. /\ cache' = [cache EXCEPT ![job.slot] = job.key]
      /\ reachableNow' = [reachableNow EXCEPT ![job.slot] = job.key]
  BY DEF Show
<1>7. cache' \in [Slots -> Key] /\ reachableNow' \in [Slots -> Key]
  BY <1>1, <1>5, <1>6
<1>8. \A s \in Slots : cache[s] <= cache'[s] /\ cache'[s] <= progress[s]
  <2> SUFFICES ASSUME NEW s \in Slots
               PROVE  cache[s] <= cache'[s] /\ cache'[s] <= progress[s]
    OBVIOUS
  <2>1. cache[s] \in Int /\ progress[s] \in Int /\ cache[s] <= progress[s]
    BY <1>1, BoundAssumption DEF Key, Never, MarksWhatWasComputed
  <2>2. CASE s = job.slot
    BY <1>1, <1>3, <1>4, <1>6, <2>1, <2>2
  <2>3. CASE s # job.slot
    BY <1>1, <1>6, <2>1, <2>3
  <2> QED BY <2>2, <2>3
<1>9. ASSUME NEW i \in DOMAIN queue'
      PROVE  queue'[i].key \in cache'[queue'[i].slot]..progress[queue'[i].slot]
  <2>1. i + 1 \in DOMAIN queue /\ queue'[i] = queue[i + 1] /\ 1 < i + 1
    BY <1>2, <1>9
  <2>2. queue[i + 1] \in Job
    BY <1>1, <2>1
  <2>3. queue[i + 1].key \in cache[queue[i + 1].slot]..progress[queue[i + 1].slot]
    BY <2>1 DEF QueueInOrder
  <2>4. CASE queue[i + 1].slot = job.slot
    <3>1. job.key <= queue[i + 1].key
      BY <1>2, <2>1, <2>4 DEF QueueInOrder
    <3>2. cache'[job.slot] = job.key
      BY <1>1, <1>3, <1>6
    <3> QED BY <1>3, <2>1, <2>3, <2>4, <3>1, <3>2
  <2>5. CASE queue[i + 1].slot # job.slot
    <3>1. cache'[queue[i + 1].slot] = cache[queue[i + 1].slot]
      BY <1>1, <1>6, <2>2, <2>5 DEF Job
    <3> QED BY <2>1, <2>3, <3>1
  <2> QED BY <2>4, <2>5
<1>10. \A i, j \in DOMAIN queue' :
          i < j /\ queue'[i].slot = queue'[j].slot => queue'[i].key <= queue'[j].key
  BY <1>1, <1>2 DEF QueueInOrder
<1> QED BY <1>2, <1>5, <1>7, <1>8, <1>9, <1>10 DEF QueueInOrder

-----------------------------------------------------------------------------
(* The invariant, action by action. *)

\* Nothing is computed at first.
LEMMA InitInv == ASSUME Init PROVE Inv
<1>1. TypeOK
  <2>1. 0 \in 0..MaxProgress /\ 0 \in 0..MaxFailures /\ Never \in Key
    BY BoundAssumption DEF Key, Never
  <2>2. NoPage \in PageState
    BY DEF PageState
  <2>3. queue \in Seq(Job)
    BY DEF Init
  <2> QED BY <2>1, <2>2, <2>3 DEF Init, TypeOK
<1>2. QueueInOrder /\ MarksWhatWasComputed
  BY DEF Init, QueueInOrder, MarksWhatWasComputed, Never
<1> QED BY <1>1, <1>2 DEF Inv

\* A slot that advances only leaves more room above its results.
LEMMA AdvanceInv ==
    ASSUME Inv, NEW s \in Slots, Advance(s) \/ AdvanceQuietly(s)
    PROVE  Inv'
<1> USE DEF Inv
<1>1. /\ progress' = [progress EXCEPT ![s] = @ + 1]
      /\ progress[s] < MaxProgress
      /\ event' \in BOOLEAN
      /\ UNCHANGED <<cache, reachableNow, queue, sweepVars, taskVars, pages, failures>>
  BY DEF Advance, AdvanceQuietly, TypeOK
<1>2. TypeOK'
  BY <1>1, BoundAssumption DEF TypeOK, sweepVars, taskVars
<1>3. \A r \in Slots :
         progress[r] \in Int /\ progress'[r] \in Int /\ progress[r] <= progress'[r]
  BY <1>1, BoundAssumption DEF TypeOK
<1>4. \A i \in DOMAIN queue : queue[i] \in Job
  BY DEF TypeOK
<1>5. QueueInOrder'
  <2>1. \A i \in DOMAIN queue :
           queue[i].key \in cache[queue[i].slot]..progress'[queue[i].slot]
    BY <1>3, <1>4 DEF QueueInOrder, Job
  <2> QED BY <1>1, <2>1 DEF QueueInOrder
<1>6. MarksWhatWasComputed'
  BY <1>1, <1>3 DEF MarksWhatWasComputed, TypeOK, Key, Never, sweepVars
<1> QED BY <1>2, <1>5, <1>6

\* Steps that touch neither queue nor cache, and mark nothing.
LEMMA QuietOK ==
    ASSUME Inv, UNCHANGED <<progress, cache, queue, lastComputed>>
    PROVE  QueueInOrder' /\ MarksWhatWasComputed'
BY DEF Inv, QueueInOrder, MarksWhatWasComputed

\* The sweep.
LEMMA SweepInv == ASSUME Inv, Sweep PROVE Inv'
<1> USE DEF Inv
<1>1. CASE SweepWakes
  BY <1>1, QuietOK DEF SweepWakes, TypeOK, taskVars
<1>2. CASE SweepPushed
  BY <1>2, QuietOK DEF SweepPushed, TypeOK, taskVars
<1>3. CASE SweepRests
  BY <1>3, QuietOK DEF SweepRests, TypeOK, taskVars
<1>4. CASE SweepFailed
  <2>1. queue' \in Seq(Job) /\ QueueInOrder'
    BY <1>4, FailOK DEF SweepFailed
  <2>2. TypeOK' /\ MarksWhatWasComputed'
    BY <1>4, <2>1, BoundAssumption
    DEF SweepFailed, Fail, TypeOK, MarksWhatWasComputed, taskVars
  <2> QED BY <2>1, <2>2
<1>5. CASE SweepComputed
  <2>1. /\ Ends("sweep") /\ Show(Head(queue).slot, Head(queue).key)
        /\ lastComputed' = [lastComputed EXCEPT ![Head(queue).slot] = Head(queue).key]
        /\ UNCHANGED progress
    BY <1>5 DEF SweepComputed
  <2>2. /\ Head(queue) \in Job /\ Head(queue).key \in Key
        /\ queue' \in Seq(Job)
        /\ cache' \in [Slots -> Key] /\ reachableNow' \in [Slots -> Key]
        /\ QueueInOrder'
        /\ \A s \in Slots : cache[s] <= cache'[s] /\ cache'[s] <= progress[s]
    BY <2>1, ShowOK
  <2>3. lastComputed' \in [Slots -> Key]
    BY <2>1, <2>2 DEF TypeOK
  <2>4. TypeOK'
    BY <1>5, <2>2, <2>3 DEF SweepComputed, TypeOK, taskVars
  <2>5. MarksWhatWasComputed'
    <3> SUFFICES ASSUME NEW s \in Slots
                 PROVE  lastComputed'[s] <= cache'[s] /\ cache'[s] <= progress'[s]
      BY DEF MarksWhatWasComputed
    <3>1. Head(queue).slot \in Slots
      BY <2>2 DEF Job
    <3>2. CASE s = Head(queue).slot
      BY <2>1, <2>2, <3>1, <3>2 DEF Show, TypeOK, Key, Never
    <3>3. CASE s # Head(queue).slot
      BY <2>1, <2>2, <3>1, <3>3
      DEF Show, TypeOK, Key, Never, MarksWhatWasComputed
    <3> QED BY <3>2, <3>3
  <2> QED BY <2>2, <2>4, <2>5
<1>6. ASSUME NEW s \in Slots, SweepFindsCached(s) PROVE Inv'
  <2>1. /\ cache[s] \in Key
        /\ reachableNow' = [reachableNow EXCEPT ![s] = cache[s]]
        /\ lastComputed' = [lastComputed EXCEPT ![s] = cache[s]]
        /\ UNCHANGED <<progress, event, cache, queue, sweep, taskVars, pages, failures>>
    BY <1>6 DEF SweepFindsCached, TypeOK
  <2>2. TypeOK'
    BY <1>6, <2>1 DEF SweepFindsCached, TypeOK, taskVars
  <2>3. QueueInOrder'
    BY <2>1 DEF QueueInOrder
  <2>4. MarksWhatWasComputed'
    BY <2>1 DEF MarksWhatWasComputed, TypeOK, Key, Never
  <2> QED BY <2>2, <2>3, <2>4
<1>7. ASSUME NEW s \in Slots, SweepBegins(s) PROVE Inv'
  <2>1. queue' \in Seq(Job) /\ QueueInOrder'
    BY <1>7, BeginOK DEF SweepBegins
  <2>2. TypeOK' /\ MarksWhatWasComputed'
    BY <1>7, <2>1 DEF SweepBegins, TypeOK, MarksWhatWasComputed, taskVars
  <2> QED BY <2>1, <2>2
<1> QED BY <1>1, <1>2, <1>3, <1>4, <1>5, <1>6, <1>7 DEF Sweep

\* What the pages hold stays a page's state when a task is done.
LEMMA DeliverOK ==
    ASSUME NEW s, NEW page \in PageState, pages \in [Pages -> PageState],
           Deliver(s, page)
    PROVE  pages' \in [Pages -> PageState]
BY DEF Deliver

\* The slots' tasks.
LEMMA TaskInv == ASSUME Inv, Task PROVE Inv'
<1> USE DEF Inv
<1>1. CASE TaskComputed
  <2>1. /\ Ends("task") /\ Show(Head(queue).slot, Head(queue).key)
        /\ UNCHANGED <<progress, event, sweepVars, pages, failures>>
    BY <1>1 DEF TaskComputed
  <2>2. /\ Head(queue) \in Job /\ Head(queue).key \in Key
        /\ queue' \in Seq(Job)
        /\ cache' \in [Slots -> Key] /\ reachableNow' \in [Slots -> Key]
        /\ QueueInOrder'
        /\ \A s \in Slots : cache[s] <= cache'[s] /\ cache'[s] <= progress[s]
    BY <2>1, ShowOK
  <2>3. TypeOK'
    BY <1>1, <2>1, <2>2 DEF TaskComputed, TypeOK, sweepVars
  <2>4. MarksWhatWasComputed'
    BY <2>1, <2>2 DEF MarksWhatWasComputed, TypeOK, Key, Never, sweepVars
  <2> QED BY <2>2, <2>3, <2>4
<1>2. CASE TaskFailed
  <2>1. queue' \in Seq(Job) /\ QueueInOrder'
    BY <1>2, FailOK DEF TaskFailed
  <2>2. pages' \in [Pages -> PageState]
    BY <1>2, DeliverOK DEF TaskFailed, TypeOK, PageState
  <2>3. task' \in [Slots -> {"none", "created", "queued", "pushing"}]
    BY <1>2 DEF TaskFailed, TypeOK
  <2>4. failures' \in 0..MaxFailures
    BY <1>2, BoundAssumption DEF TaskFailed, Fail, TypeOK
  <2>5. UNCHANGED <<progress, event, cache, reachableNow, sweepVars, taskResult>>
    BY <1>2 DEF TaskFailed
  <2>6. TypeOK'
    BY <2>1, <2>2, <2>3, <2>4, <2>5 DEF TypeOK, sweepVars
  <2>7. MarksWhatWasComputed'
    BY <2>5 DEF MarksWhatWasComputed, sweepVars
  <2> QED BY <2>1, <2>6, <2>7
<1>3. ASSUME NEW s \in Slots, TaskFindsCached(s) PROVE Inv'
  <2>1. Answered(s, cache[s]) \in PageState
    BY DEF Answered, PageState, TypeOK
  <2>2. pages' \in [Pages -> PageState]
    BY <1>3, <2>1, DeliverOK DEF TaskFindsCached, TypeOK
  <2> QED BY <1>3, <2>2, QuietOK DEF TaskFindsCached, TypeOK, sweepVars
<1>4. ASSUME NEW s \in Slots, TaskBegins(s) PROVE Inv'
  <2>1. queue' \in Seq(Job) /\ QueueInOrder'
    BY <1>4, BeginOK DEF TaskBegins
  <2>2. TypeOK' /\ MarksWhatWasComputed'
    BY <1>4, <2>1 DEF TaskBegins, TypeOK, MarksWhatWasComputed, sweepVars
  <2> QED BY <2>1, <2>2
<1>5. ASSUME NEW s \in Slots, TaskPushed(s) PROVE Inv'
  <2>1. Answered(s, taskResult[s]) \in PageState
    BY DEF Answered, PageState, TypeOK
  <2>2. pages' \in [Pages -> PageState]
    BY <1>5, <2>1, DeliverOK DEF TaskPushed, TypeOK
  <2> QED BY <1>5, <2>2, QuietOK DEF TaskPushed, TypeOK, sweepVars
<1> QED BY <1>1, <1>2, <1>3, <1>4, <1>5 DEF Task

\* The pages: the figure they write is of no consequence here.
LEMMA PageInv == ASSUME Inv, Page PROVE Inv'
<1> USE DEF Inv
<1>1. PICK p \in Pages : \/ \E s \in Slots : PageAsks(p, s)
                         \/ PageGivesUp(p) \/ PageResumes(p)
  BY DEF Page
<1>2. ASSUME NEW s \in Slots, PageAsks(p, s) PROVE Inv'
  <2>1. Waiting(s) \in PageState
    BY DEF Waiting, PageState
  <2> QED BY <1>2, <2>1, QuietOK DEF PageAsks, TypeOK, sweepVars
<1>3. CASE PageGivesUp(p)
  <2>1. NoPage \in PageState
    BY DEF PageState
  <2> QED BY <1>3, <2>1, QuietOK DEF PageGivesUp, TypeOK, sweepVars, taskVars
<1>4. CASE PageResumes(p)
  <2>1. NoPage \in PageState
    BY DEF PageState
  <2>2. pages[p].slot \in Slots /\ pages[p].result \in Key
    BY <1>4 DEF PageResumes, TypeOK, PageState, NoPage
  <2> QED BY <1>4, <2>1, <2>2, QuietOK DEF PageResumes, TypeOK, sweepVars, taskVars
<1> QED BY <1>1, <1>2, <1>3, <1>4

\* Every step keeps the invariant.
LEMMA StepInv == ASSUME Inv, [Next]_vars PROVE Inv'
<1>1. CASE UNCHANGED vars
  BY <1>1 DEF Inv, vars, sweepVars, taskVars, TypeOK, QueueInOrder, MarksWhatWasComputed
<1>2. ASSUME NEW s \in Slots, AskAndLeave(s) PROVE Inv'
  BY <1>2, QuietOK DEF Inv, AskAndLeave, TypeOK, sweepVars
<1> QED BY <1>1, <1>2, AdvanceInv, SweepInv, TaskInv, PageInv DEF Next

\* The inductive invariant holds.
THEOREM InductiveInvariant == Spec => []Inv
BY InitInv, StepInv, PTL DEF Spec

-----------------------------------------------------------------------------

\* Every reachable state is well typed.
THEOREM TypeCorrect == Spec => []TypeOK
<1>1. Inv => TypeOK
  BY DEF Inv
<1> QED BY <1>1, InductiveInvariant, PTL

\* Computations of a slot end in the order they looked at it, none older than
\* what is cached (_compute_reachable).
THEOREM InOrder == Spec => []QueueInOrder
<1>1. Inv => QueueInOrder
  BY DEF Inv
<1> QED BY <1>1, InductiveInvariant, PTL

\* The sweep marks what was computed, and no more (_reachable_sweep_loop).
THEOREM MarksFollow == Spec => []MarksWhatWasComputed
<1>1. Inv => MarksWhatWasComputed
  BY DEF Inv
<1> QED BY <1>1, InductiveInvariant, PTL

\* No cached result is replaced by an older one: an action property.
THEOREM CacheAdvances == Spec => CacheNeverGoesBack
<1>1. ASSUME Inv, [Next]_vars PROVE [\A s \in Slots : cache'[s] >= cache[s]]_cache
  <2> SUFFICES ASSUME cache' # cache PROVE \A s \in Slots : cache'[s] >= cache[s]
    OBVIOUS
  <2>1. /\ SweepComputed \/ TaskComputed
    BY <1>1 DEF Next, vars, Sweep, Task, Page, SweepWakes, SweepFailed, SweepPushed,
                SweepRests, SweepFindsCached, SweepBegins, TaskFailed, TaskFindsCached,
                TaskBegins, TaskPushed, PageAsks, PageGivesUp, PageResumes, Advance,
                AdvanceQuietly, AskAndLeave
  <2>2. \E by \in {"sweep", "task"} :
           Ends(by) /\ Show(Head(queue).slot, Head(queue).key) /\ progress' = progress
    BY <2>1 DEF SweepComputed, TaskComputed
  <2>3. cache' \in [Slots -> Key] /\ \A s \in Slots : cache[s] <= cache'[s]
    BY <1>1, <2>2, ShowOK
  <2> QED BY <1>1, <2>3 DEF Inv, TypeOK, Key, Never
<1> QED BY <1>1, InductiveInvariant, PTL DEF Spec, CacheNeverGoesBack

-----------------------------------------------------------------------------
(* Who computes.  OneComputationEach is inductive, given the types. *)

\* A computation that begins is the only one its party has, if it had none.
LEMMA BeginEach ==
    ASSUME Inv, OneComputationEach,
           NEW s \in Slots, NEW by \in {"sweep", "task"}, Begin(by, s),
           \/ /\ by = "sweep" /\ sweep # "computing"
              /\ sweep' = "computing" /\ UNCHANGED task
           \/ /\ by = "task" /\ task[s] # "queued"
              /\ task' = [task EXCEPT ![s] = "queued"] /\ UNCHANGED sweep
    PROVE  OneComputationEach'
<1> DEFINE job == [by |-> by, slot |-> s, key |-> progress[s]]
<1> DEFINE n == Len(queue) + 1
<1>1. queue \in Seq(Job) /\ queue' = Append(queue, job) /\ job \in Job
  BY DEF Inv, TypeOK, Begin, Job
<1>2. /\ queue'[n] = job /\ n \notin DOMAIN queue
      /\ \A i \in DOMAIN queue : queue'[i] = queue[i]
      /\ DOMAIN queue' = DOMAIN queue \cup {n}
  BY <1>1
<1>3. \A i \in DOMAIN queue :
         \/ queue[i].by # by
         \/ by = "task" /\ queue[i].slot # s
  BY <1>1 DEF OneComputationEach
<1>4. \A i, j \in DOMAIN queue' :
         i # j => \/ queue'[i].by # queue'[j].by
                  \/ queue'[i].by = "task" /\ queue'[i].slot # queue'[j].slot
  BY <1>2, <1>3 DEF OneComputationEach
<1>5. sweep' = "computing" <=> \E i \in DOMAIN queue' : queue'[i].by = "sweep"
  BY <1>2 DEF OneComputationEach
<1>6. ASSUME NEW r \in Slots
      PROVE  task'[r] = "queued"
               <=> \E i \in DOMAIN queue' :
                      queue'[i].by = "task" /\ queue'[i].slot = r
  <2>1. CASE by = "task" /\ r = s
    <3>1. task'[r] = "queued"
      BY <2>1 DEF Inv, TypeOK
    <3>2. queue'[n].by = "task" /\ queue'[n].slot = r /\ n \in DOMAIN queue'
      BY <1>2, <2>1
    <3> QED BY <3>1, <3>2
  <2>2. CASE ~(by = "task" /\ r = s)
    <3>1. task'[r] = "queued" <=> task[r] = "queued"
      BY <2>2 DEF Inv, TypeOK
    <3> QED BY <1>2, <2>2, <3>1 DEF OneComputationEach
  <2> QED BY <2>1, <2>2
<1> QED BY <1>4, <1>5, <1>6 DEF OneComputationEach

\* The one that ends was the only one its party had.
LEMMA EndEach ==
    ASSUME Inv, OneComputationEach, NEW by \in {"sweep", "task"}, Ends(by),
           NEW to, to # "computing", NEW now, now # "queued",
           \/ by = "sweep" /\ sweep' = to /\ UNCHANGED task
           \/ /\ by = "task" /\ task' = [task EXCEPT ![Head(queue).slot] = now]
              /\ UNCHANGED sweep
    PROVE  OneComputationEach'
<1> DEFINE job == Head(queue)
<1>1. queue \in Seq(Job) /\ task \in [Slots -> {"none", "created", "queued", "pushing"}]
  BY DEF Inv, TypeOK
<1>2. /\ job \in Job /\ job = queue[1] /\ job.by = by /\ 1 \in DOMAIN queue
      /\ \A i \in DOMAIN queue' : i + 1 \in DOMAIN queue /\ queue'[i] = queue[i + 1]
  BY <1>1, HeadTail DEF Ends
<1>3. \A i \in DOMAIN queue' : i \in Nat /\ i + 1 # 1
  BY <1>1 DEF Ends
<1>4. ASSUME NEW i \in DOMAIN queue, i # 1
      PROVE  \E h \in DOMAIN queue' : queue'[h] = queue[i]
  <2>1. i - 1 \in DOMAIN queue' /\ queue'[i - 1] = queue[i]
    BY <1>1, <1>4 DEF Ends
  <2> QED BY <2>1
<1>5. \A i, j \in DOMAIN queue' :
         i # j => \/ queue'[i].by # queue'[j].by
                  \/ queue'[i].by = "task" /\ queue'[i].slot # queue'[j].slot
  BY <1>2, <1>3 DEF OneComputationEach
<1>6. \A i \in DOMAIN queue' :
         \/ queue'[i].by # by
         \/ by = "task" /\ queue'[i].slot # job.slot
  BY <1>2, <1>3 DEF OneComputationEach
<1>7. sweep' = "computing" <=> \E i \in DOMAIN queue' : queue'[i].by = "sweep"
  <2>1. CASE by = "sweep"
    BY <1>6, <2>1
  <2>2. CASE by = "task"
    <3>1. sweep' = sweep
      BY <2>2
    <3> QED BY <1>2, <1>4, <2>2, <3>1 DEF OneComputationEach
  <2> QED BY <2>1, <2>2
<1>8. ASSUME NEW r \in Slots
      PROVE  task'[r] = "queued"
               <=> \E i \in DOMAIN queue' :
                      queue'[i].by = "task" /\ queue'[i].slot = r
  <2>1. CASE by = "task" /\ r = job.slot
    <3>1. task'[r] = now
      BY <1>1, <2>1
    <3> QED BY <1>6, <2>1, <3>1
  <2>2. CASE ~(by = "task" /\ r = job.slot)
    <3>1. task'[r] = task[r]
      BY <1>1, <2>2
    <3>2. ASSUME NEW i \in DOMAIN queue, queue[i].by = "task", queue[i].slot = r
          PROVE  \E h \in DOMAIN queue' : queue'[h] = queue[i]
      BY <1>2, <1>4, <2>2, <3>2
    <3> QED BY <1>2, <3>1, <3>2 DEF OneComputationEach
  <2> QED BY <2>1, <2>2
<1> QED BY <1>5, <1>7, <1>8 DEF OneComputationEach

\* Steps that begin and end none.
LEMMA QuietEach ==
    ASSUME OneComputationEach, UNCHANGED queue,
           sweep' = "computing" <=> sweep = "computing",
           \A s \in Slots : task'[s] = "queued" <=> task[s] = "queued"
    PROVE  OneComputationEach'
BY DEF OneComputationEach

\* Every step keeps one computation for each.
LEMMA StepEach ==
    ASSUME Inv, OneComputationEach, [Next]_vars
    PROVE  OneComputationEach'
<1>1. CASE UNCHANGED vars
  BY <1>1, QuietEach DEF vars, sweepVars, taskVars
<1>2. CASE SweepWakes \/ SweepPushed \/ SweepRests
           \/ \E s \in Slots : \/ SweepFindsCached(s) \/ Advance(s)
                               \/ AdvanceQuietly(s)
  BY <1>2, QuietEach DEF SweepWakes, SweepPushed, SweepRests, SweepFindsCached,
                         Advance, AdvanceQuietly, sweepVars, taskVars
<1>3. CASE \E s \in Slots : SweepBegins(s)
  <2>1. PICK s \in Slots : SweepBegins(s)
    BY <1>3
  <2> QED BY <2>1, BeginEach DEF SweepBegins, taskVars
<1>4. CASE SweepComputed
  BY <1>4, EndEach DEF SweepComputed, taskVars
<1>5. CASE SweepFailed
  BY <1>5, EndEach DEF SweepFailed, taskVars
<1>6. CASE \E s \in Slots : TaskFindsCached(s) \/ TaskPushed(s) \/ AskAndLeave(s)
  BY <1>6, QuietEach DEF TaskFindsCached, TaskPushed, AskAndLeave, sweepVars,
                         Inv, TypeOK
<1>7. CASE \E s \in Slots : TaskBegins(s)
  <2>1. PICK s \in Slots : TaskBegins(s)
    BY <1>7
  <2> QED BY <2>1, BeginEach DEF TaskBegins, sweepVars
<1>8. CASE TaskComputed \/ TaskFailed
  <2>1. PICK now \in {"none", "pushing"} :
           /\ Ends("task") /\ UNCHANGED sweep
           /\ task' = [task EXCEPT ![Head(queue).slot] = now]
    BY <1>8 DEF TaskComputed, TaskFailed, sweepVars
  <2> QED BY <2>1, EndEach
<1>9. CASE Page
  BY <1>9, QuietEach DEF Page, PageAsks, PageGivesUp, PageResumes, sweepVars,
                         taskVars, Inv, TypeOK
<1> QED BY <1>1, <1>2, <1>3, <1>4, <1>5, <1>6, <1>7, <1>8, <1>9
        DEF Next, Sweep, Task

\* The sweep and each slot's task compute at most once at a time, and every
\* computation belongs to a party waiting for it (start_reachable, the sweep).
THEOREM OneEach == Spec => []OneComputationEach
<1>1. Init => OneComputationEach
  BY DEF Init, OneComputationEach
<1>2. OneComputationEach /\ Inv /\ [Next]_vars => OneComputationEach'
  BY StepEach
<1> QED BY <1>1, <1>2, InductiveInvariant, PTL DEF Spec

-----------------------------------------------------------------------------
(* The figure, where no page waits. *)

\* Without waiting pages what is shown is what is cached.
ShownIsCached == reachableNow = cache

\* The figure of every slot is that of its cached result.
LEMMA ShownFollows ==
    ASSUME Pages = {} PROVE Spec => []ShownIsCached
<1>1. Init => ShownIsCached
  BY DEF Init, ShownIsCached
<1>2. Inv /\ ShownIsCached /\ [Next]_vars => ShownIsCached'
  <2> SUFFICES ASSUME Inv, ShownIsCached, [Next]_vars PROVE ShownIsCached'
    OBVIOUS
  <2>1. CASE SweepComputed \/ TaskComputed
    BY <2>1 DEF ShownIsCached, SweepComputed, TaskComputed, Show
  <2>2. CASE \E s \in Slots : SweepFindsCached(s)
    <3>1. PICK s \in Slots : /\ reachableNow' = [reachableNow EXCEPT ![s] = cache[s]]
                            /\ cache' = cache
      BY <2>2 DEF SweepFindsCached
    <3> QED BY <3>1 DEF Inv, TypeOK, ShownIsCached
  <2>3. CASE UNCHANGED <<reachableNow, cache>>
    BY <2>3 DEF ShownIsCached
  <2>4. ~Page
    BY DEF Page
  <2> QED BY <2>1, <2>2, <2>3, <2>4
          DEF Next, vars, Sweep, Task, SweepWakes, SweepFailed, SweepPushed,
              SweepRests, SweepBegins, TaskFailed, TaskFindsCached, TaskBegins,
              TaskPushed, Advance, AdvanceQuietly, AskAndLeave
<1> QED BY <1>1, <1>2, InductiveInvariant, PTL DEF Spec

\* Where no page waits, the figure shown is at least as recent as the sweep's
\* mark (_reachable_sweep_loop, make_reachable_publisher).
THEOREM FigureFollowsMark ==
    ASSUME Pages = {} PROVE Spec => []ShownAsMarked
<1>1. Inv /\ ShownIsCached => ShownAsMarked
  BY DEF Inv, TypeOK, MarksWhatWasComputed, ShownIsCached, ShownAsMarked, Key, Never
<1> QED BY <1>1, ShownFollows, InductiveInvariant, PTL

\* A computation that ends shows its slot's newer figure, or the same one.
LEMMA ShowRenews ==
    ASSUME Inv, ShownIsCached, NEW by, Ends(by),
           Show(Head(queue).slot, Head(queue).key), UNCHANGED progress
    PROVE  [Promise!Next]_Promise!vars
<1> DEFINE s == Head(queue).slot
           k == Head(queue).key
<1>1. queue \in Seq(Job) /\ Head(queue) \in Job /\ Head(queue) = queue[1]
      /\ 1 \in DOMAIN queue
  BY HeadTail DEF Inv, TypeOK, Ends
<1>2. s \in Slots /\ k \in Nat /\ k \in cache[s]..progress[s]
  BY <1>1 DEF Job, Inv, QueueInOrder
<1>3. /\ cache \in [Slots -> Key] /\ progress \in [Slots -> 0..MaxProgress]
      /\ reachableNow = cache
      /\ reachableNow' = [reachableNow EXCEPT ![s] = k]
  BY DEF Inv, TypeOK, ShownIsCached, Show
<1>4. CASE k = reachableNow[s]
  BY <1>2, <1>3, <1>4 DEF Promise!vars
<1>5. CASE k # reachableNow[s]
  <2>1. k > reachableNow[s] /\ k \in 0..progress[s]
    BY <1>2, <1>3, <1>5, BoundAssumption DEF Key, Never
  <2>2. Promise!Renew(s)
    BY <1>3, <2>1 DEF Promise!Renew
  <2> QED BY <1>2, <2>2 DEF Promise!Next
<1> QED BY <1>4, <1>5

\* Where no page waits, Reachable implements the pages' promise: each figure
\* follows from a state the slot was in, later than that of the figure before.
THEOREM PromiseKept ==
    ASSUME Pages = {} PROVE Spec => KeepsPromise
<1>1. Init => Promise!Init
  BY DEF Init, Promise!Init
<1>2. Inv /\ ShownIsCached /\ [Next]_vars => [Promise!Next]_Promise!vars
  <2> SUFFICES ASSUME Inv, ShownIsCached, [Next]_vars
               PROVE  [Promise!Next]_Promise!vars
    OBVIOUS
  <2>1. CASE SweepComputed
    BY <2>1, ShowRenews DEF SweepComputed
  <2>2. CASE TaskComputed
    BY <2>2, ShowRenews DEF TaskComputed
  <2>3. CASE \E s \in Slots : Advance(s) \/ AdvanceQuietly(s)
    BY <2>3 DEF Advance, AdvanceQuietly, Promise!Next, Promise!Play
  <2>4. CASE \E s \in Slots : SweepFindsCached(s)
    BY <2>4 DEF SweepFindsCached, ShownIsCached, Inv, TypeOK, Promise!vars
  <2>5. CASE UNCHANGED <<progress, reachableNow>>
    BY <2>5 DEF Promise!vars
  <2>6. ~Page
    BY DEF Page
  <2> QED BY <2>1, <2>2, <2>3, <2>4, <2>5, <2>6
          DEF Next, vars, Sweep, Task, SweepWakes, SweepFailed, SweepPushed,
              SweepRests, SweepBegins, TaskFailed, TaskFindsCached, TaskBegins,
              TaskPushed, AskAndLeave
<1> QED BY <1>1, <1>2, ShownFollows, InductiveInvariant, PTL
        DEF Spec, KeepsPromise, Promise!Spec
=============================================================================
