-------------------------- MODULE SlotDaemonProofs --------------------------
(***************************************************************************)
(* Theorems about SlotDaemon, for any number of start tasks and any bounds.*)
(*                                                                         *)
(* An answer is matched to its request by its place in the stream alone,   *)
(* so the argument is about streams: a daemon that a computation may yet   *)
(* ask owes nothing, and the one being asked owes one line at most, the    *)
(* answer to this computation, behind any number of ready lines.           *)
(***************************************************************************)
EXTENDS SlotDaemon, SequenceTheorems, TLAPS

OnlyReady(d) == \A n \in DOMAIN answers[d] : answers[d][n] = Ready

Clean(d) == requests[d] = <<>> /\ OnlyReady(d)

\* The request for state k is still in the pipe.
Waiting(d, k) == requests[d] = <<k>> /\ OnlyReady(d)

\* Its answer is, last of the lines.
Answered(d, k) ==
    /\ requests[d] = <<>>
    /\ answers[d] # <<>>
    /\ answers[d][Len(answers[d])] \in {Answer(k), Failure}
    /\ \A n \in 1..(Len(answers[d]) - 1) : answers[d][n] = Ready

Asked(d) == computing.phase = "asked" /\ computing.daemon = d

\* A daemon nobody asked yet, that some computation may ask.
Early(i) == starts[i] \in {"none", "scheduled", "spawning"}

StreamsOK ==
    /\ \A d \in Starts : (Early(d) \/ registered = d) /\ ~Asked(d) => Clean(d)
    /\ \A d \in Starts : Early(d) => registered # d /\ ~Asked(d)
    /\ \A d \in Starts : Asked(d) =>
          \/ Clean(d)
          \/ Waiting(d, computing.state)
          \/ Answered(d, computing.state)

\* A daemon answers nothing before it is ready.
LoadingOK ==
    \A d \in Starts : process[d] \in {"none", "loading"} => OnlyReady(d)

Inv == TypeOK /\ StreamsOK /\ LoadingOK /\ CachedAsAsked

-----------------------------------------------------------------------------
(* The lines are told apart. *)

LEMMA LinesDiffer ==
    /\ \A k : Answer(k) # Ready /\ Answer(k) # Failure
    /\ Ready # Failure
    /\ \A k : Answer(k).type = "answer" /\ Answer(k).from = k
    /\ Ready.type = "ready" /\ Failure.type = "error"
<1>1. \A k : Answer(k).type = "answer" /\ Answer(k).from = k
  BY DEF Answer
<1>2. Ready.type = "ready" /\ Failure.type = "error"
  BY DEF Ready, Failure
<1> QED BY <1>1, <1>2

\* What is left of a daemon's stream after its first line.
LEMMA AfterHead ==
    ASSUME TypeOK, NEW d \in Starts, answers[d] # <<>>,
           answers' = [answers EXCEPT ![d] = Tail(@)]
    PROVE  /\ Head(answers[d]) = answers[d][1] /\ Head(answers[d]) \in Line
           /\ answers' \in [Starts -> Seq(Line)]
           /\ Len(answers'[d]) = Len(answers[d]) - 1
           /\ \A n \in DOMAIN answers'[d] :
                 /\ n + 1 \in DOMAIN answers[d]
                 /\ answers'[d][n] = answers[d][n + 1]
           /\ \A e \in Starts \ {d} : answers'[e] = answers[e]
<1>1. answers[d] \in Seq(Line) /\ answers \in [Starts -> Seq(Line)]
  BY DEF TypeOK
<1>2. answers'[d] = Tail(answers[d])
  BY <1>1
<1>3. /\ Head(answers[d]) = answers[d][1] /\ Head(answers[d]) \in Line
      /\ Tail(answers[d]) \in Seq(Line)
      /\ Len(Tail(answers[d])) = Len(answers[d]) - 1
      /\ \A n \in 1..(Len(answers[d]) - 1) : Tail(answers[d])[n] = answers[d][n + 1]
  BY <1>1, HeadTailProperties
<1>4. Len(answers[d]) \in Nat /\ DOMAIN answers[d] = 1..Len(answers[d])
  BY <1>1
<1>5. DOMAIN answers'[d] = 1..(Len(answers[d]) - 1)
  <2>1. DOMAIN Tail(answers[d]) = 1..Len(Tail(answers[d]))
    BY <1>3, LenProperties
  <2> QED BY <1>2, <1>3, <2>1
<1> QED BY <1>1, <1>2, <1>3, <1>4, <1>5

\* And after a line is added to it.
LEMMA AfterLine ==
    ASSUME TypeOK, NEW d \in Starts, NEW line \in Line,
           answers' = [answers EXCEPT ![d] = Append(@, line)]
    PROVE  /\ answers' \in [Starts -> Seq(Line)]
           /\ Len(answers'[d]) = Len(answers[d]) + 1
           /\ answers'[d] # <<>>
           /\ answers'[d][Len(answers'[d])] = line
           /\ \A n \in DOMAIN answers[d] : answers'[d][n] = answers[d][n]
           /\ DOMAIN answers[d] = 1..(Len(answers'[d]) - 1)
           /\ DOMAIN answers'[d] = 1..(Len(answers[d]) + 1)
           /\ \A e \in Starts \ {d} : answers'[e] = answers[e]
<1>1. answers[d] \in Seq(Line) /\ answers \in [Starts -> Seq(Line)]
  BY DEF TypeOK
<1>2. answers'[d] = Append(answers[d], line)
  BY <1>1
<1>3. Len(answers[d]) \in Nat /\ DOMAIN answers[d] = 1..Len(answers[d])
  BY <1>1
<1>4. /\ Append(answers[d], line) \in Seq(Line)
      /\ Len(Append(answers[d], line)) = Len(answers[d]) + 1
      /\ \A n \in 1..Len(answers[d]) : Append(answers[d], line)[n] = answers[d][n]
      /\ Append(answers[d], line)[Len(answers[d]) + 1] = line
      /\ Append(answers[d], line) # <<>>
  BY <1>1, AppendProperties
<1>5. DOMAIN answers'[d] = 1..(Len(answers[d]) + 1)
  BY <1>2, <1>3, <1>4
<1> QED BY <1>1, <1>2, <1>3, <1>4, <1>5

-----------------------------------------------------------------------------
(* Every action keeps the invariant. *)

USE SlotDaemonAssumption

LEMMA InitOK == Init => Inv
<1> SUFFICES ASSUME Init PROVE Inv
  OBVIOUS
<1>1. TypeOK
  BY DEF Init, TypeOK, Uncached, Idle, States
<1>2. StreamsOK
  BY DEF Init, StreamsOK, Clean, OnlyReady, Asked, Early, Idle
<1>3. CachedAsAsked
  BY DEF Init, CachedAsAsked, Uncached
<1>4. LoadingOK
  BY DEF Init, LoadingOK, OnlyReady
<1> QED BY <1>1, <1>2, <1>3, <1>4 DEF Inv

\* A reset changes no stream and leaves nothing registered.
LEMMA ResetOK ==
    ASSUME Inv, ResetDaemon
    PROVE  /\ registered' = NoStart /\ event' = NoStart
           /\ process' \in [Starts -> {"none", "loading", "serving", "died", "reaped"}]
           /\ \A d \in Starts : process'[d] \in {process[d], "reaped"}
BY DEF Inv, TypeOK, ResetDaemon

\* A task is scheduled for a start that was unused, or none is.
LEMMA StartIfNoneOK ==
    ASSUME Inv, NEW current, StartIfNone(current)
    PROVE  /\ starts' \in [Starts -> {"none", "scheduled", "spawning", "waiting", "done"}]
           /\ \A i \in Starts : (starts'[i] \in {"none", "scheduled", "spawning"})
                                    <=> Early(i)
BY DEF Inv, TypeOK, StartIfNone, Unused, Early

LEMMA AskDaemonOK ==
    ASSUME Inv, AskDaemon
    PROVE  Inv'
<1> DEFINE r == registered
<1>1. r \in Starts
  BY DEF Inv, TypeOK, AskDaemon, Usable, Running
<1>2. ~Asked(r) /\ Clean(r) /\ ~Early(r) /\ \A d \in Starts : ~Asked(d)
  BY <1>1 DEF Inv, StreamsOK, AskDaemon, Asked, Idle
<1>3. requests'[r] = <<progress>> /\ answers' = answers
      /\ \A d \in Starts \ {r} : requests'[d] = requests[d]
  BY <1>1, <1>2 DEF Inv, TypeOK, AskDaemon, Clean
<1>4. /\ computing' = [phase |-> "asked", state |-> progress, daemon |-> r]
      /\ UNCHANGED <<progress, cache, taskVars, process, answers, registered, deaths>>
  BY DEF AskDaemon
<1>5. TypeOK'
  <2>1. requests' \in [Starts -> Seq(States)]
    BY <1>1 DEF Inv, TypeOK, AskDaemon
  <2>2. progress \in States
    BY DEF Inv, TypeOK
  <2>3. computing' \in [phase : {"asked"}, state : States, daemon : Starts]
    BY <1>1, <1>4, <2>2
  <2> QED BY <1>4, <2>1, <2>3 DEF Inv, TypeOK, taskVars
<1>6. \A d \in Starts : Asked(d)' <=> d = r
  BY <1>4 DEF Asked
<1>7. Waiting(r, computing.state)'
  BY <1>2, <1>3, <1>4 DEF Waiting, Clean, OnlyReady
<1>8. \A d \in Starts \ {r} : Clean(d) => Clean(d)'
  BY <1>3 DEF Clean, OnlyReady
<1>9. \A d \in Starts : Early(d)' <=> Early(d)
  BY <1>4 DEF Early, taskVars
<1>10. StreamsOK'
  BY <1>1, <1>2, <1>4, <1>6, <1>7, <1>8, <1>9 DEF Inv, StreamsOK
<1>11. LoadingOK'
  BY <1>4
     DEF Inv, LoadingOK, OnlyReady
<1> QED BY <1>4, <1>5, <1>10, <1>11 DEF Inv, CachedAsAsked

LEMMA RunOnceOK ==
    ASSUME Inv, RunOnce
    PROVE  Inv'
<1>1. /\ computing' = [phase |-> "once", state |-> progress]
      /\ UNCHANGED <<progress, cache, event, ready, process, streamVars, registered,
                     deaths>>
      /\ StartIfNone(registered)
  BY DEF RunOnce
<1>2. TypeOK'
  <2>1. progress \in States
    BY DEF Inv, TypeOK
  <2>2. computing' \in [phase : {"once"}, state : States]
    BY <1>1, <2>1
  <2> QED BY <1>1, <2>2, StartIfNoneOK DEF Inv, TypeOK, streamVars
<1>3. \A d \in Starts : ~Asked(d) /\ ~Asked(d)'
  BY <1>1 DEF RunOnce, Asked, Idle
<1>4. \A d \in Starts : Clean(d)' <=> Clean(d)
  BY <1>1 DEF Clean, OnlyReady, streamVars
<1>5. \A d \in Starts : Early(d)' <=> Early(d)
  BY <1>1, StartIfNoneOK DEF Early
<1>6. StreamsOK'
  BY <1>1, <1>3, <1>4, <1>5 DEF Inv, StreamsOK
<1>7. LoadingOK'
  BY <1>1
     DEF Inv, LoadingOK, OnlyReady, streamVars
<1> QED BY <1>1, <1>2, <1>6, <1>7 DEF Inv, CachedAsAsked

LEMMA ReadAnswerOK ==
    ASSUME Inv, ReadAnswer
    PROVE  Inv'
<1>0. PICK d \in Starts, k \in States : d = computing.daemon /\ k = computing.state
  BY DEF Inv, TypeOK, ReadAnswer, Idle
<1>1. d \in Starts /\ k \in States /\ Asked(d)
  BY <1>0 DEF ReadAnswer, Asked
<1> DEFINE line == Head(answers[d])
<1>2. answers[d] # <<>> /\ answers' = [answers EXCEPT ![d] = Tail(@)]
      /\ UNCHANGED <<progress, starts, ready, requests, deaths>>
  BY <1>0 DEF ReadAnswer
<1>3. /\ line = answers[d][1] /\ line \in Line
      /\ answers' \in [Starts -> Seq(Line)]
      /\ Len(answers'[d]) = Len(answers[d]) - 1
      /\ \A n \in DOMAIN answers'[d] :
            n + 1 \in DOMAIN answers[d] /\ answers'[d][n] = answers[d][n + 1]
      /\ \A e \in Starts \ {d} : answers'[e] = answers[e]
  BY <1>1, <1>2, AfterHead DEF Inv
<1>4. Len(answers[d]) \in Nat \ {0} /\ DOMAIN answers[d] = 1..Len(answers[d])
  BY <1>1, <1>2 DEF Inv, TypeOK
<1>5. line # Ready => requests[d] = <<>> /\ answers'[d] = <<>>
                      /\ line \in {Answer(k), Failure}
  <2>1. SUFFICES ASSUME line # Ready
                 PROVE  requests[d] = <<>> /\ answers'[d] = <<>>
                        /\ line \in {Answer(k), Failure}
    OBVIOUS
  <2>2. Answered(d, k)
    BY <1>0, <1>1, <1>3, <1>4, <2>1 DEF Inv, StreamsOK, Clean, Waiting, OnlyReady
  <2>3. Len(answers[d]) = 1
    <3>1. 1 \notin 1..(Len(answers[d]) - 1)
      BY <1>3, <2>1, <2>2 DEF Answered
    <3>2. \A m \in Nat \ {0} : 1 \notin 1..(m - 1) => m = 1
      OBVIOUS
    <3> QED BY <1>4, <3>1, <3>2
  <2>4. answers'[d] \in Seq(Line) /\ Len(answers'[d]) = 0
    BY <1>1, <1>3, <2>3
  <2> QED BY <1>3, <2>2, <2>3, <2>4, EmptySeq DEF Answered
<1>6. \A e \in Starts : ~Asked(e)'
  BY DEF ReadAnswer, Finish, Asked, Idle
<1>7. \A e \in Starts : Early(e)' <=> Early(e)
  BY <1>2 DEF Early
<1>8. \A e \in Starts \ {d} : ~Asked(e) /\ (Clean(e)' <=> Clean(e))
  BY <1>0, <1>2, <1>3 DEF Clean, OnlyReady, Asked
<1>9. \A e \in Starts : OnlyReady(e) => OnlyReady(e)'
  BY <1>3 DEF OnlyReady
<1>10. (\A e \in Starts : process'[e] \in {process[e], "reaped"}) => LoadingOK'
  BY <1>9 DEF Inv, LoadingOK
<1>11. CASE line.type \in {"answer", "error"}
  <2>1. UNCHANGED <<registered, event, process>>
    BY <1>0, <1>11 DEF ReadAnswer
  <2>2. line # Ready
    BY <1>11, LinesDiffer
  <2>3. Clean(d)'
    <3>1. requests'[d] = <<>> /\ answers'[d] = <<>>
      BY <1>2, <1>5, <2>2
    <3> QED BY <3>1 DEF Clean, OnlyReady
  <2>4. StreamsOK'
    BY <1>1, <1>6, <1>7, <1>8, <2>1, <2>3 DEF Inv, StreamsOK
  <2>5. computing' = Idle /\ cache' \in {cache, [state |-> k, from |-> k]}
    <3>1. line = Answer(k) \/ line = Failure
      BY <1>5, <2>2
    <3>2. CASE line = Answer(k)
      <4>1. line.type = "answer" /\ line.from = k
        BY <3>2, LinesDiffer
      <4> QED BY <1>0, <4>1 DEF ReadAnswer, Finish
    <3>3. CASE line = Failure
      <4>1. line.type = "error"
        BY <3>3, LinesDiffer
      <4> QED BY <1>0, <4>1 DEF ReadAnswer, Finish
    <3> QED BY <3>1, <3>2, <3>3
  <2>6. TypeOK'
    BY <1>1, <1>2, <1>3, <2>1, <2>5 DEF Inv, TypeOK, States
  <2> QED BY <1>10, <2>1, <2>4, <2>5, <2>6 DEF Inv, CachedAsAsked
<1>12. CASE line.type \notin {"answer", "error"}
  <2>1. Finish(0) /\ ResetDaemon
    BY <1>0, <1>12 DEF ReadAnswer
  <2>2. computing' = Idle /\ cache' = cache
    BY <2>1 DEF Finish
  <2>3. \A e \in Starts : registered' # e
    BY <2>1, ResetOK
  <2>4. StreamsOK'
    BY <1>1, <1>6, <1>7, <1>8, <2>3 DEF Inv, StreamsOK
  <2>5. TypeOK'
    BY <1>2, <1>3, <2>1, <2>2, ResetOK DEF Inv, TypeOK
  <2> QED BY <1>10, <2>1, <2>2, <2>4, <2>5, ResetOK DEF Inv, CachedAsAsked
<1> QED BY <1>11, <1>12

LEMMA DaemonFailsOK ==
    ASSUME Inv, DaemonFails
    PROVE  Inv'
<1>1. /\ ResetDaemon /\ StartIfNone(registered')
      /\ computing' = [phase |-> "once", state |-> computing.state]
      /\ UNCHANGED <<progress, cache, ready, streamVars, deaths>>
  BY DEF DaemonFails
<1>2. computing.state \in States
  BY DEF Inv, TypeOK, DaemonFails, Idle
<1>3. TypeOK'
  <2>1. computing' \in [phase : {"once"}, state : States]
    BY <1>1, <1>2
  <2> QED BY <1>1, <2>1, ResetOK, StartIfNoneOK DEF Inv, TypeOK, streamVars
<1>4. \A d \in Starts : registered' # d /\ ~Asked(d)'
  BY <1>1, ResetOK DEF Asked
<1>5. \A d \in Starts : Early(d)' <=> Early(d)
  BY <1>1, StartIfNoneOK DEF Early
<1>6. \A d \in Starts : Clean(d)' <=> Clean(d)
  BY <1>1 DEF Clean, OnlyReady, streamVars
<1>7. StreamsOK'
  BY <1>4, <1>5, <1>6 DEF Inv, StreamsOK
<1>8. LoadingOK'
  BY <1>1, ResetOK
     DEF Inv, LoadingOK, OnlyReady, streamVars
<1> QED BY <1>1, <1>3, <1>7, <1>8 DEF Inv, CachedAsAsked

LEMMA OnceEndsOK ==
    ASSUME Inv, OnceEnds
    PROVE  Inv'
<1>1. PICK result \in {0, computing.state} : Finish(result)
  BY DEF OnceEnds
<1>2. UNCHANGED <<progress, taskVars, process, streamVars, registered, deaths>>
  BY DEF OnceEnds
<1>3. computing.state \in States
  BY DEF Inv, TypeOK, OnceEnds, Idle
<1>4. computing' = Idle
      /\ cache' \in {cache, [state |-> computing.state, from |-> computing.state]}
  BY <1>1 DEF Finish
<1>5. TypeOK'
  BY <1>2, <1>3, <1>4 DEF Inv, TypeOK, taskVars, streamVars, States
<1>6. \A d \in Starts : ~Asked(d) /\ ~Asked(d)'
  BY <1>4 DEF OnceEnds, Asked, Idle
<1>7. \A d \in Starts : (Clean(d)' <=> Clean(d)) /\ (Early(d)' <=> Early(d))
  BY <1>2 DEF Clean, OnlyReady, Early, taskVars, streamVars
<1>8. StreamsOK'
  BY <1>2, <1>6, <1>7 DEF Inv, StreamsOK
<1>9. LoadingOK'
  BY <1>2
     DEF Inv, LoadingOK, OnlyReady, streamVars
<1> QED BY <1>4, <1>5, <1>8, <1>9 DEF Inv, CachedAsAsked

LEMMA StartRunsOK ==
    ASSUME Inv, NEW i \in Starts, StartRuns(i)
    PROVE  Inv'
<1>1. /\ starts' = [starts EXCEPT ![i] = "spawning"] /\ starts[i] = "scheduled"
      /\ event' = i
      /\ UNCHANGED <<progress, cache, computing, ready, process, streamVars,
                     registered, deaths>>
  BY DEF StartRuns
<1>2. TypeOK'
  BY <1>1 DEF Inv, TypeOK, streamVars
<1>3. \A d \in Starts : Early(d)' <=> Early(d)
  BY <1>1 DEF Inv, TypeOK, Early
<1>4. StreamsOK'
  BY <1>1, <1>3
     DEF Inv, StreamsOK, Clean, Waiting, Answered, OnlyReady, Asked, streamVars
<1>5. LoadingOK'
  BY <1>1
     DEF Inv, LoadingOK, OnlyReady, streamVars
<1> QED BY <1>1, <1>2, <1>4, <1>5 DEF Inv, CachedAsAsked

\* The daemon that takes the slot's place has been asked nothing.
LEMMA SpawnedOK ==
    ASSUME Inv, NEW i \in Starts, Spawned(i)
    PROVE  Inv'
<1>1. /\ starts' = [starts EXCEPT ![i] = "waiting"] /\ starts[i] = "spawning"
      /\ process' = [process EXCEPT ![i] = "loading"]
      /\ registered' = i
      /\ UNCHANGED <<progress, cache, computing, event, ready, streamVars, deaths>>
  BY DEF Spawned
<1>2. TypeOK'
  BY <1>1 DEF Inv, TypeOK, streamVars
<1>3. Early(i) /\ ~Early(i)' /\ \A d \in Starts \ {i} : Early(d)' <=> Early(d)
  BY <1>1 DEF Inv, TypeOK, Early
<1>4. Clean(i) /\ ~Asked(i)
  BY <1>3 DEF Inv, StreamsOK
<1>5. StreamsOK'
  BY <1>1, <1>3, <1>4
     DEF Inv, StreamsOK, Clean, Waiting, Answered, OnlyReady, Asked, streamVars
<1>6. LoadingOK'
  BY <1>1, <1>4
     DEF Inv, LoadingOK, OnlyReady, TypeOK, Clean, streamVars
<1> QED BY <1>1, <1>2, <1>5, <1>6 DEF Inv, CachedAsAsked

\* The start may read the very line a computation waits for: then nothing is owed.
LEMMA StartReadsOK ==
    ASSUME Inv, NEW i \in Starts, StartReads(i)
    PROVE  Inv'
<1>1. /\ answers[i] # <<>> /\ answers' = [answers EXCEPT ![i] = Tail(@)]
      /\ starts' = [starts EXCEPT ![i] = "done"] /\ starts[i] = "waiting"
      /\ ready' \in {ready, ready \cup {i}}
      /\ UNCHANGED <<progress, cache, computing, event, process, requests, registered,
                     deaths>>
  BY DEF StartReads
<1>2. /\ answers' \in [Starts -> Seq(Line)]
      /\ Len(answers'[i]) = Len(answers[i]) - 1
      /\ \A n \in DOMAIN answers'[i] :
            n + 1 \in DOMAIN answers[i] /\ answers'[i][n] = answers[i][n + 1]
      /\ \A e \in Starts \ {i} : answers'[e] = answers[e]
  BY <1>1, AfterHead DEF Inv
<1>3. /\ Len(answers[i]) \in Nat \ {0} /\ DOMAIN answers[i] = 1..Len(answers[i])
      /\ answers'[i] \in Seq(Line) /\ DOMAIN answers'[i] = 1..Len(answers'[i])
  BY <1>1, <1>2 DEF Inv, TypeOK
<1>4. TypeOK'
  BY <1>1, <1>2 DEF Inv, TypeOK
<1>5. \A d \in Starts : (Early(d)' <=> Early(d)) /\ (Asked(d)' <=> Asked(d))
  BY <1>1 DEF Inv, TypeOK, Early, Asked
<1>6. \A d \in Starts \ {i} : (Clean(d)' <=> Clean(d))
         /\ \A k : (Waiting(d, k)' <=> Waiting(d, k)) /\ (Answered(d, k)' <=> Answered(d, k))
  BY <1>1, <1>2 DEF Clean, OnlyReady, Waiting, Answered
<1>7. OnlyReady(i) => OnlyReady(i)'
  BY <1>2 DEF OnlyReady
<1>8. \A k : Answered(i, k) => Clean(i)' \/ Answered(i, k)'
  <2> SUFFICES ASSUME NEW k, Answered(i, k) PROVE Clean(i)' \/ Answered(i, k)'
    OBVIOUS
  <2>1. CASE Len(answers[i]) = 1
    BY <1>1, <1>2, <1>3, <2>1 DEF Answered, Clean, OnlyReady
  <2>2. CASE Len(answers[i]) # 1
    <3>0. PICK m \in Nat \ {0} : Len(answers[i]) = m + 1 /\ Len(answers'[i]) = m
      <4>1. \A m \in Nat \ {0} : m # 1 => m - 1 \in Nat \ {0} /\ m = (m - 1) + 1
        OBVIOUS
      <4> QED BY <1>2, <1>3, <2>2, <4>1
    <3>1. m \in DOMAIN answers'[i] /\ answers'[i] # <<>>
      BY <1>3, <3>0
    <3>2. answers'[i][Len(answers'[i])] = answers[i][Len(answers[i])]
      BY <1>2, <3>0, <3>1
    <3>3. \A n \in 1..(m - 1) : answers'[i][n] = Ready
      <4>1. \A n \in 1..(m - 1) : n \in 1..m /\ n + 1 \in 1..m
        OBVIOUS
      <4>2. \A n \in 1..m : answers[i][n] = Ready
        BY <3>0 DEF Answered
      <4> QED BY <1>2, <1>3, <3>0, <4>1, <4>2
    <3> QED BY <1>1, <3>0, <3>1, <3>2, <3>3 DEF Answered
  <2> QED BY <2>1, <2>2
<1>9. StreamsOK'
  BY <1>1, <1>5, <1>6, <1>7, <1>8 DEF Inv, StreamsOK, Clean, Waiting
<1>10. LoadingOK'
  BY <1>1, <1>2
     DEF Inv, LoadingOK, OnlyReady
<1> QED BY <1>1, <1>4, <1>9, <1>10 DEF Inv, CachedAsAsked

LEMMA StartFailsOK ==
    ASSUME Inv, NEW i \in Starts, StartFails(i)
    PROVE  Inv'
<1>1. /\ starts' = [starts EXCEPT ![i] = "done"]
      /\ UNCHANGED <<progress, cache, computing, event, ready, process, streamVars,
                     registered, deaths>>
  BY DEF StartFails
<1>2. TypeOK'
  BY <1>1 DEF Inv, TypeOK, streamVars
<1>3. \A d \in Starts : Early(d)' => Early(d)
  BY <1>1 DEF Inv, TypeOK, Early
<1>4. StreamsOK'
  BY <1>1, <1>3
     DEF Inv, StreamsOK, Clean, Waiting, Answered, OnlyReady, Asked, streamVars
<1>5. LoadingOK'
  BY <1>1
     DEF Inv, LoadingOK, OnlyReady, streamVars
<1> QED BY <1>1, <1>2, <1>4, <1>5 DEF Inv, CachedAsAsked

LEMMA PlayOK ==
    ASSUME Inv, Play
    PROVE  Inv'
<1>1. /\ progress' = progress + 1 /\ progress < MaxProgress
      /\ UNCHANGED <<cache, computing, taskVars, process, streamVars, registered,
                     deaths>>
  BY DEF Play
<1>2. TypeOK'
  BY <1>1 DEF Inv, TypeOK, taskVars, streamVars, States
<1>3. StreamsOK'
  BY <1>1 DEF Inv, StreamsOK, Clean, Waiting, Answered, OnlyReady, Asked, Early,
              taskVars, streamVars
<1>4. LoadingOK'
  BY <1>1
     DEF Inv, LoadingOK, OnlyReady, streamVars
<1> QED BY <1>1, <1>2, <1>3, <1>4 DEF Inv, CachedAsAsked

LEMMA LoadedOK ==
    ASSUME Inv, NEW i \in Starts, Loaded(i)
    PROVE  Inv'
<1>1. /\ process' = [process EXCEPT ![i] = "serving"]
      /\ answers' = [answers EXCEPT ![i] = Append(@, Ready)]
      /\ UNCHANGED <<progress, cache, computing, taskVars, requests, registered, deaths>>
      /\ process[i] = "loading"
  BY DEF Loaded
<1>2. TypeOK'
  BY <1>1, AfterLine DEF Inv, TypeOK, Line, taskVars
<1>3. PICK m \in Nat : /\ DOMAIN answers[i] = 1..m /\ DOMAIN answers'[i] = 1..(m + 1)
                       /\ answers'[i][m + 1] = Ready
                       /\ \A n \in 1..m : answers'[i][n] = answers[i][n]
  <2>1. Len(answers[i]) \in Nat /\ DOMAIN answers[i] = 1..Len(answers[i])
    BY DEF Inv, TypeOK
  <2>2. TypeOK /\ Ready \in Line
    BY DEF Inv, Line
  <2>3. /\ Len(answers'[i]) = Len(answers[i]) + 1
        /\ answers'[i][Len(answers'[i])] = Ready
        /\ \A n \in DOMAIN answers[i] : answers'[i][n] = answers[i][n]
        /\ DOMAIN answers'[i] = 1..(Len(answers[i]) + 1)
    BY <1>1, <2>2, AfterLine
  <2> QED BY <2>1, <2>3
<1>4. OnlyReady(i) => OnlyReady(i)'
  BY <1>3 DEF OnlyReady
<1>5. \A d \in Starts \ {i} : answers'[d] = answers[d]
  BY <1>1 DEF Inv, TypeOK
<1>6. /\ Clean(i) => Clean(i)'
      /\ \A k : Waiting(i, k) => Waiting(i, k)'
      /\ OnlyReady(i)
  BY <1>1, <1>4 DEF Inv, LoadingOK, Clean, Waiting
<1>7. \A k : Answered(i, k) => FALSE
  <2>1. Len(answers[i]) \in Nat /\ DOMAIN answers[i] = 1..Len(answers[i])
    BY DEF Inv, TypeOK
  <2>2. answers[i] # <<>> => Len(answers[i]) \in DOMAIN answers[i]
    BY <2>1, EmptySeq DEF Inv, TypeOK
  <2> QED BY <1>6, <2>2, LinesDiffer DEF Answered, OnlyReady
<1>8. \A d \in Starts : (Early(d)' <=> Early(d)) /\ (Asked(d)' <=> Asked(d))
  BY <1>1 DEF Early, Asked, taskVars
<1>9. \A d \in Starts \ {i} : /\ Clean(d)' <=> Clean(d)
         /\ \A k : (Waiting(d, k)' <=> Waiting(d, k)) /\ (Answered(d, k)' <=> Answered(d, k))
  BY <1>1, <1>5 DEF Clean, OnlyReady, Waiting, Answered
<1>10. StreamsOK'
  BY <1>1, <1>6, <1>7, <1>8, <1>9 DEF Inv, StreamsOK
<1>11. LoadingOK'
  BY <1>1, <1>4, <1>5, <1>6 DEF Inv, TypeOK, LoadingOK, OnlyReady
<1> QED BY <1>1, <1>2, <1>10, <1>11 DEF Inv, CachedAsAsked

\* A daemon that serves has been asked: only the one a computation waits for may
\* answer it, or one that nobody asks again.
LEMMA ServeOK ==
    ASSUME Inv, NEW i \in Starts, Serve(i)
    PROVE  Inv'
<1>1. PICK line \in {Answer(Head(requests[i])), Failure} :
         answers' = [answers EXCEPT ![i] = Append(@, line)]
  BY DEF Serve
<1>2. /\ requests' = [requests EXCEPT ![i] = Tail(@)] /\ requests[i] # <<>>
      /\ UNCHANGED <<progress, cache, computing, taskVars, process, registered, deaths>>
      /\ process[i] = "serving"
  BY DEF Serve
<1>3. /\ requests[i] \in Seq(States) /\ Head(requests[i]) \in States
      /\ requests' \in [Starts -> Seq(States)]
      /\ \A d \in Starts \ {i} : requests'[d] = requests[d]
      /\ requests'[i] = Tail(requests[i])
  BY <1>2 DEF Inv, TypeOK
<1>4. line \in Line
  BY <1>3 DEF Line
<1>5. TypeOK'
  BY <1>1, <1>2, <1>3, <1>4, AfterLine DEF Inv, TypeOK, taskVars
<1>6. PICK m \in Nat : /\ DOMAIN answers[i] = 1..m /\ Len(answers'[i]) = m + 1
                       /\ answers'[i] # <<>> /\ answers'[i][m + 1] = line
                       /\ \A n \in 1..m : answers'[i][n] = answers[i][n]
  <2>1. Len(answers[i]) \in Nat /\ DOMAIN answers[i] = 1..Len(answers[i])
    BY DEF Inv, TypeOK
  <2>2. TypeOK
    BY DEF Inv
  <2>3. /\ Len(answers'[i]) = Len(answers[i]) + 1
        /\ answers'[i] # <<>>
        /\ answers'[i][Len(answers'[i])] = line
        /\ \A n \in DOMAIN answers[i] : answers'[i][n] = answers[i][n]
    BY <1>1, <1>4, <2>2, AfterLine
  <2> QED BY <2>1, <2>3
<1>7. ~Clean(i) /\ \A k : ~Answered(i, k)
  BY <1>2 DEF Clean, Answered
<1>8. \A k : Waiting(i, k) => Answered(i, k)'
  <2> SUFFICES ASSUME NEW k, Waiting(i, k) PROVE Answered(i, k)'
    OBVIOUS
  <2>1. requests[i] = <<k>> /\ requests'[i] = <<>> /\ line \in {Answer(k), Failure}
    BY <1>1, <1>3 DEF Waiting
  <2>2. \A n \in 1..((m + 1) - 1) : answers'[i][n] = Ready
    BY <1>6 DEF Waiting, OnlyReady
  <2> QED BY <1>6, <2>1, <2>2 DEF Answered
<1>9. \A d \in Starts : (Early(d)' <=> Early(d)) /\ (Asked(d)' <=> Asked(d))
  BY <1>2 DEF Early, Asked, taskVars
<1>10. \A d \in Starts \ {i} : answers'[d] = answers[d]
  BY <1>1 DEF Inv, TypeOK
<1>11. \A d \in Starts \ {i} : /\ Clean(d)' <=> Clean(d)
         /\ \A k : (Waiting(d, k)' <=> Waiting(d, k)) /\ (Answered(d, k)' <=> Answered(d, k))
  BY <1>3, <1>10 DEF Clean, OnlyReady, Waiting, Answered
<1>12. StreamsOK'
  BY <1>2, <1>7, <1>8, <1>9, <1>11 DEF Inv, StreamsOK
<1>13. LoadingOK'
  BY <1>2, <1>10 DEF Inv, LoadingOK, OnlyReady
<1> QED BY <1>2, <1>5, <1>12, <1>13 DEF Inv, CachedAsAsked

LEMMA EndOK ==
    ASSUME Inv, NEW i \in Starts, Die(i) \/ Reap(i)
    PROVE  Inv'
<1>1. /\ process' \in {[process EXCEPT ![i] = "died"], [process EXCEPT ![i] = "reaped"]}
      /\ deaths' \in 0..MaxDeaths
      /\ UNCHANGED <<progress, cache, computing, taskVars, streamVars, registered>>
  BY DEF Inv, TypeOK, Die, Reap
<1>2. TypeOK'
  BY <1>1 DEF Inv, TypeOK, taskVars, streamVars
<1>3. StreamsOK'
  BY <1>1 DEF Inv, StreamsOK, Clean, Waiting, Answered, OnlyReady, Asked, Early,
              taskVars, streamVars
<1>4. LoadingOK'
  BY <1>1 DEF Inv, TypeOK, LoadingOK, OnlyReady, streamVars
<1> QED BY <1>1, <1>2, <1>3, <1>4 DEF Inv, CachedAsAsked

LEMMA NextOK == Inv /\ [Next]_vars => Inv'
<1> SUFFICES ASSUME Inv, [Next]_vars PROVE Inv'
  OBVIOUS
<1>1. CASE Compute
  BY <1>1, AskDaemonOK, RunOnceOK, ReadAnswerOK, DaemonFailsOK, OnceEndsOK DEF Compute
<1>2. CASE Play
  BY <1>2, PlayOK
<1>3. ASSUME NEW i \in Starts, Start(i) PROVE Inv'
  BY <1>3, StartRunsOK, SpawnedOK, StartReadsOK, StartFailsOK DEF Start
<1>4. ASSUME NEW i \in Starts, Daemon(i) PROVE Inv'
  BY <1>4, LoadedOK, ServeOK, EndOK DEF Daemon
<1>5. CASE UNCHANGED vars
  BY <1>5 DEF vars, taskVars, streamVars, Inv, TypeOK, StreamsOK, LoadingOK, Clean,
              Waiting, Answered, OnlyReady, Asked, Early, CachedAsAsked
<1> QED BY <1>1, <1>2, <1>3, <1>4, <1>5 DEF Next

\* Between computations the slot's daemon owes nothing.
LEMMA NothingOwedFollows == Inv => NothingOwed
BY DEF Inv, TypeOK, StreamsOK, Clean, OnlyReady, Asked, NothingOwed

LEMMA Invariance == Spec => []Inv
<1>1. Inv /\ [Next]_vars => Inv'
  BY NextOK
<1> QED BY <1>1, InitOK, PTL DEF Spec

\* The variables keep their types (core/reachable.py, the daemon path).
THEOREM DaemonTypes == Spec => []TypeOK
<1>1. Inv => TypeOK
  BY DEF Inv
<1> QED BY <1>1, Invariance, PTL

\* Whatever the start tasks, the late answers and the deaths of daemons do, a
\* result cached for a state was computed from it.
THEOREM ResultsAreAsAsked == Spec => []CachedAsAsked
<1>1. Inv => CachedAsAsked
  BY DEF Inv
<1> QED BY <1>1, Invariance, PTL

\* And no daemon a computation may ask owes an answer to a former one.
THEOREM DaemonsOweNothing == Spec => []NothingOwed
BY NothingOwedFollows, Invariance, PTL
=============================================================================
