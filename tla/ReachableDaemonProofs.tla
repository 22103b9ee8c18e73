------------------------ MODULE ReachableDaemonProofs ------------------------
(***************************************************************************)
(* Proofs about ReachableDaemon, for any callers, seeds, limits and bounds: *)
(* at most one daemon is up, its stream is in step, every answer is that of *)
(* its own request, computed by a daemon on the seed asked for.            *)
(***************************************************************************)
EXTENDS ReachableDaemon, FiniteSetTheorems, TLAPS

DaemonRecord == [seed : Seeds, open : BOOLEAN, alive : BOOLEAN,
                 ready : BOOLEAN, age : 0..ReadyTimeout,
                 in : Seq(1..MaxRequests), out : Seq(Line)]

CallerRecord ==
    [at : {"idle", "ensuring", "connecting", "starting", "queued", "reading", "closing"},
     request : 0..MaxRequests, seed : Seeds, daemon : Opened \cup {None},
     waited : 0..ComputeTimeout, result : Line \cup {Failed, Pending}]

-----------------------------------------------------------------------------
(* The invariant *)

\* Whoever connects or starts holds _starting, and no daemon is at hand then.
StarterOK ==
    /\ \A c \in Callers : At(c, "connecting") \/ At(c, "starting") => starting = c
    /\ \A c \in Callers :
          starting = c => callers[c].at \in {"connecting", "starting", "closing"}
    /\ starting # None => current = None

\* A daemon being started is open, on the starter's seed, nobody's yet, and has
\* printed nothing or its first line.
LoadingOK ==
    \A c \in Callers : At(c, "starting") =>
        LET d == callers[c].daemon IN
        /\ d \in Opened
        /\ daemons[d].open
        /\ daemons[d].seed = callers[c].seed
        /\ lock[d] = None
        /\ daemons[d].in = <<>>
        /\ daemons[d].out \in IF daemons[d].ready THEN {<<Ready>>, <<Broken>>} ELSE {<<>>}

\* A daemon that is up is the one at hand, or the one being started.
OpenOK ==
    \A d \in Opened : daemons[d].open =>
        d = current \/ \E c \in Callers : At(c, "starting") /\ callers[c].daemon = d

\* The daemon at hand has been ready, and owes nothing when nobody holds it.
CurrentOK ==
    current # None =>
        /\ daemons[current].open /\ daemons[current].ready
        /\ lock[current] = None => daemons[current].in = <<>> /\ daemons[current].out = <<>>

\* Nothing is on a closed connection.
ClosedOK == \A d \in Opened : ~daemons[d].open =>
                daemons[d].in = <<>> /\ daemons[d].out = <<>>

\* Who waits for a daemon, or reads from it, was handed it: it is on the seed asked
\* for and is not being started.
UsersOK ==
    \A c \in Callers : At(c, "queued") \/ At(c, "reading") =>
        /\ callers[c].daemon \in Opened
        /\ daemons[callers[c].daemon].seed = callers[c].seed
        /\ \A x \in Callers : At(x, "starting") => callers[x].daemon # callers[c].daemon

\* A reader holds the daemon's lock, and its request or the answer to it is all
\* there is on the stream.
ReadersOK ==
    \A c \in Callers : At(c, "reading") =>
        LET d == daemons[callers[c].daemon] IN
        /\ lock[callers[c].daemon] = c
        /\ \/ d.in = <<>> /\ d.out \in {<<>>, <<callers[c].request>>}
           \/ d.in = <<callers[c].request>> /\ d.out = <<>>

\* A daemon's lock is held by its reader, or by one that has closed it.
LocksOK ==
    \A d \in Daemons : lock[d] # None =>
        /\ d \in Opened
        /\ callers[lock[d]].daemon = d
        /\ \/ At(lock[d], "reading")
           \/ At(lock[d], "closing") /\ ~daemons[d].open

RequestsOK == \A c \in Callers : ~Idle(c) => callers[c].request # 0

Inv == /\ StarterOK /\ LoadingOK /\ OpenOK /\ CurrentOK /\ ClosedOK /\ UsersOK
       /\ ReadersOK /\ LocksOK /\ RequestsOK /\ AnswersOwnRequest

-----------------------------------------------------------------------------
(* What a step does to the sequence of daemons, and to a caller. *)

LEMMA Update ==
    ASSUME NEW R, NEW q \in Seq(R), NEW i \in DOMAIN q, NEW r \in R
    PROVE  LET t == [q EXCEPT ![i] = r] IN
           /\ t \in Seq(R) /\ DOMAIN t = DOMAIN q /\ Len(t) = Len(q)
           /\ t[i] = r
           /\ \A j \in DOMAIN q : j # i => t[j] = q[j]
  OBVIOUS

LEMMA Extend ==
    ASSUME NEW R, NEW q \in Seq(R), NEW r \in R
    PROVE  LET t == Append(q, r) IN
           /\ t \in Seq(R) /\ DOMAIN t = DOMAIN q \cup {Len(q) + 1}
           /\ Len(t) = Len(q) + 1 /\ Len(q) + 1 \notin DOMAIN q
           /\ t[Len(q) + 1] = r
           /\ \A j \in DOMAIN q : t[j] = q[j]
  OBVIOUS

LEMMA Single ==
    ASSUME NEW R, NEW r \in R
    PROVE  /\ <<r>> \in Seq(R) /\ <<r>> # <<>> /\ Head(<<r>>) = r /\ Tail(<<r>>) = <<>>
           /\ Append(<<>>, r) = <<r>>
  OBVIOUS

LEMMA ConnectionFacts ==
    ASSUME NEW s \in Seeds, NEW open \in BOOLEAN
    PROVE  LET r == Connection(s, open) IN
           /\ r \in DaemonRecord /\ r.open = open /\ r.seed = s /\ ~r.ready
           /\ r.in = <<>> /\ r.out = <<>>
<1>1. <<>> \in Seq(1..MaxRequests) /\ <<>> \in Seq(Line)
  OBVIOUS
<1>2. 0 \in 0..ReadyTimeout
  BY BoundAssumption
<1> QED
  BY <1>1, <1>2 DEF Connection, DaemonRecord

\* A connection closed keeps its seed, and nothing on it.
LEMMA ClosedFacts ==
    ASSUME TypeOK, NEW d \in Opened
    PROVE  /\ Closed(d) \in Seq(DaemonRecord)
           /\ DOMAIN Closed(d) = Opened /\ Len(Closed(d)) = Len(daemons)
           /\ ~Closed(d)[d].open /\ Closed(d)[d].seed = daemons[d].seed
           /\ Closed(d)[d].in = <<>> /\ Closed(d)[d].out = <<>>
           /\ \A e \in Opened : e # d => Closed(d)[e] = daemons[e]
<1> DEFINE r == Connection(daemons[d].seed, FALSE)
<1>1. daemons \in Seq(DaemonRecord)
  BY DEF TypeOK, DaemonRecord
<1>2. daemons[d] \in DaemonRecord
  BY <1>1 DEF Opened
<1>3. daemons[d].seed \in Seeds
  BY <1>2 DEF DaemonRecord
<1>4. /\ r \in DaemonRecord /\ ~r.open /\ r.seed = daemons[d].seed
      /\ r.in = <<>> /\ r.out = <<>>
  BY <1>3, ConnectionFacts
<1> HIDE DEF r
<1>5. Closed(d) = [daemons EXCEPT ![d] = r]
  BY DEF Closed, r
<1> QED
  BY <1>1, <1>4, <1>5, Update DEF Opened

IInv == TypeOK /\ Inv

LEMMA TypeFacts ==
    ASSUME TypeOK
    PROVE  /\ daemons \in Seq(DaemonRecord) /\ Opened = 1..Len(daemons)
           /\ Opened \subseteq Daemons /\ None \notin Daemons /\ None \notin Callers
           /\ \A d \in Opened : daemons[d] \in DaemonRecord
           /\ \A c \in Callers : callers[c] \in CallerRecord
           /\ callers \in [Callers -> CallerRecord]
           /\ lock \in [Daemons -> Callers \cup {None}]
           /\ requests \in 0..MaxRequests /\ MaxRequests \in Nat
           /\ current \in Opened \cup {None} /\ starting \in Callers \cup {None}
<1>1. /\ daemons \in Seq(DaemonRecord) /\ callers \in [Callers -> CallerRecord]
  BY DEF TypeOK, DaemonRecord, CallerRecord
<1>2. Opened = 1..Len(daemons) /\ Len(daemons) <= MaxDaemons /\ Len(daemons) \in Nat
  BY <1>1 DEF TypeOK, Opened
<1>3. /\ lock \in [Daemons -> Callers \cup {None}]
      /\ requests \in 0..MaxRequests /\ MaxRequests \in Nat
      /\ current \in Opened \cup {None} /\ starting \in Callers \cup {None}
  BY BoundAssumption DEF TypeOK
<1> QED
  BY <1>1, <1>2, <1>3, BoundAssumption DEF Opened, Daemons, None

LEMMA SameOpened ==
    ASSUME Opened' = Opened PROVE CallerRecord' = CallerRecord
  BY DEF CallerRecord

\* What Goes and Ends do to a caller.
LEMMA GoesFacts ==
    ASSUME TypeOK, NEW c \in Callers, NEW place \in {"connecting", "reading", "closing"},
           Goes(c, place)
    PROVE  /\ callers' \in [Callers -> CallerRecord]
           /\ \A x \in Callers : x # c => callers'[x] = callers[x]
           /\ callers'[c].at = place
           /\ callers'[c].request = callers[c].request
           /\ callers'[c].seed = callers[c].seed
           /\ callers'[c].daemon = callers[c].daemon
           /\ callers'[c].result = callers[c].result
<1>1. callers \in [Callers -> CallerRecord] /\ callers[c] \in CallerRecord
  BY TypeFacts
<1>2. [callers[c] EXCEPT !.at = place] \in CallerRecord
  BY <1>1 DEF CallerRecord
<1>3. callers' = [callers EXCEPT ![c] = [callers[c] EXCEPT !.at = place]]
  BY DEF Goes
<1>4. /\ callers' \in [Callers -> CallerRecord]
      /\ \A x \in Callers : x # c => callers'[x] = callers[x]
      /\ callers'[c] = [callers[c] EXCEPT !.at = place]
  BY <1>1, <1>2, <1>3
<1>5. /\ callers'[c].at = place
      /\ callers'[c].request = callers[c].request
      /\ callers'[c].seed = callers[c].seed
      /\ callers'[c].daemon = callers[c].daemon
      /\ callers'[c].result = callers[c].result
  BY <1>1, <1>4 DEF CallerRecord
<1> QED
  BY <1>4, <1>5

LEMMA EndsFacts ==
    ASSUME TypeOK, NEW c \in Callers, NEW result \in Line \cup {Failed, Pending},
           Ends(c, result)
    PROVE  /\ callers' \in [Callers -> CallerRecord]
           /\ \A x \in Callers : x # c => callers'[x] = callers[x]
           /\ callers'[c].at = "idle"
           /\ callers'[c].request = callers[c].request
           /\ callers'[c].result = result
<1> DEFINE r == [callers[c] EXCEPT !.at = "idle", !.result = result,
                                   !.daemon = None, !.waited = 0]
<1>1. callers \in [Callers -> CallerRecord] /\ callers[c] \in CallerRecord
  BY TypeFacts
<1>2. 0 \in 0..ComputeTimeout
  BY BoundAssumption
<1>3. /\ r \in CallerRecord /\ r.at = "idle" /\ r.result = result
      /\ r.request = callers[c].request
  BY <1>1, <1>2 DEF CallerRecord
<1>4. callers' = [callers EXCEPT ![c] = r]
  BY <1>1 DEF Ends
<1> HIDE DEF r
<1> QED
  BY <1>1, <1>3, <1>4

\* What handing it daemon d does.
LEMMA HandFacts ==
    ASSUME TypeOK, NEW c \in Callers, NEW place \in {"starting", "queued", "reading"},
           NEW d, d \in Opened', Opened \subseteq Opened',
           callers' = [callers EXCEPT ![c].at = place, ![c].daemon = d]
    PROVE  /\ callers' \in [Callers -> CallerRecord']
           /\ \A x \in Callers : x # c => callers'[x] = callers[x]
           /\ callers'[c].at = place
           /\ callers'[c].request = callers[c].request
           /\ callers'[c].seed = callers[c].seed
           /\ callers'[c].daemon = d
           /\ callers'[c].result = callers[c].result
<1> DEFINE r == [callers[c] EXCEPT !.at = place, !.daemon = d]
<1>1. /\ callers \in [Callers -> CallerRecord] /\ callers[c] \in CallerRecord
  BY TypeFacts
<1>2. CallerRecord \subseteq CallerRecord'
  BY DEF CallerRecord
<1>3. /\ r \in CallerRecord' /\ r.at = place /\ r.daemon = d
      /\ r.request = callers[c].request /\ r.seed = callers[c].seed
      /\ r.result = callers[c].result
  BY <1>1 DEF CallerRecord
<1>4. callers' = [callers EXCEPT ![c] = r]
  BY <1>1
<1> HIDE DEF r
<1> QED
  BY <1>1, <1>2, <1>3, <1>4

\* A step that changes what is on one stream.
Streams(d, in, out) ==
    daemons' = [daemons EXCEPT ![d] = [daemons[d] EXCEPT !.in = in, !.out = out]]

LEMMA StreamFacts ==
    ASSUME TypeOK, NEW d \in Opened, NEW in \in Seq(1..MaxRequests),
           NEW out \in Seq(Line), Streams(d, in, out)
    PROVE  /\ daemons' \in Seq(DaemonRecord) /\ Opened' = Opened
           /\ Len(daemons') = Len(daemons)
           /\ daemons'[d].in = in /\ daemons'[d].out = out
           /\ daemons'[d].open = daemons[d].open /\ daemons'[d].seed = daemons[d].seed
           /\ daemons'[d].ready = daemons[d].ready
           /\ \A e \in Opened : e # d => daemons'[e] = daemons[e]
<1> DEFINE r == [daemons[d] EXCEPT !.in = in, !.out = out]
<1>1. daemons \in Seq(DaemonRecord) /\ daemons[d] \in DaemonRecord
  BY TypeFacts
<1>2. /\ r \in DaemonRecord /\ r.in = in /\ r.out = out /\ r.open = daemons[d].open
      /\ r.seed = daemons[d].seed /\ r.ready = daemons[d].ready
  BY <1>1 DEF DaemonRecord
<1>3. daemons' = [daemons EXCEPT ![d] = r]
  BY DEF Streams
<1> HIDE DEF r
<1> QED
  BY <1>1, <1>2, <1>3, Update DEF Opened

LEMMA DropFacts ==
    ASSUME TypeOK, NEW d \in Opened, Drop(d)
    PROVE  /\ daemons' \in Seq(DaemonRecord) /\ Opened' = Opened
           /\ Len(daemons') = Len(daemons)
           /\ ~daemons'[d].open /\ daemons'[d].seed = daemons[d].seed
           /\ daemons'[d].in = <<>> /\ daemons'[d].out = <<>>
           /\ \A e \in Opened : e # d => daemons'[e] = daemons[e]
           /\ current' = IF current = d THEN None ELSE current
  BY ClosedFacts DEF Drop, Opened

LEMMA TypeNext ==
    ASSUME TypeOK,
           daemons' \in Seq(DaemonRecord), Len(daemons') <= MaxDaemons,
           callers' \in [Callers -> CallerRecord'],
           current' \in Opened' \cup {None}, starting' \in Callers \cup {None},
           lock' \in [Daemons -> Callers \cup {None}],
           requests' \in 0..MaxRequests, seed' \in Seeds
    PROVE  TypeOK'
  BY DEF TypeOK, DaemonRecord, CallerRecord

\* Readers stay in step if the locks and the streams they read are left alone, or
\* emptied.
ReadersKeep ==
    \A c \in Callers : At(c, "reading")' =>
        LET d == callers[c].daemon IN
        /\ At(c, "reading")
        /\ callers'[c].daemon = d /\ callers'[c].request = callers[c].request
        /\ lock'[d] = lock[d]
        /\ \/ daemons'[d].in = daemons[d].in /\ daemons'[d].out = daemons[d].out
           \/ daemons'[d].in = <<>> /\ daemons'[d].out = <<>>

LEMMA ReadersKept ==
    ASSUME ReadersOK, ReadersKeep PROVE ReadersOK'
  BY DEF ReadersOK, ReadersKeep

-----------------------------------------------------------------------------
(* One lemma per action. *)

LEMMA BeginStep ==
    ASSUME IInv, NEW c \in Callers, Begin(c)
    PROVE  IInv'
<1>1. TypeOK /\ Inv
  BY DEF IInv
<1>2. /\ \A x \in Callers : x # c => callers'[x] = callers[x]
      /\ callers'[c].at = "ensuring" /\ callers[c].at = "idle"
      /\ callers'[c].request = requests + 1
      /\ callers'[c].result = Pending
      /\ requests + 1 \in 1..MaxRequests
      /\ UNCHANGED <<current, starting, daemons, lock, seed, Opened>>
  BY <1>1, TypeFacts DEF Begin, Idle, Opened
<1>3. callers' \in [Callers -> CallerRecord]
  <2>1. callers \in [Callers -> CallerRecord]
    BY <1>1, TypeFacts
  <2> QED
    BY <1>1, <2>1, <1>2, BoundAssumption DEF Begin, CallerRecord, TypeOK, None
<1>4. TypeOK'
  BY <1>1, <1>2, <1>3 DEF TypeOK, Begin, CallerRecord
<1>5. StarterOK'
  BY <1>1, <1>2 DEF Inv, StarterOK, At
<1>6. LoadingOK'
  BY <1>1, <1>2 DEF Inv, LoadingOK, At
<1>7. OpenOK'
  BY <1>1, <1>2 DEF Inv, OpenOK, At
<1>8. CurrentOK' /\ ClosedOK'
  BY <1>1, <1>2 DEF Inv, CurrentOK, ClosedOK
<1>9. UsersOK'
  BY <1>1, <1>2 DEF Inv, UsersOK, At
<1>10. ReadersOK'
  BY <1>1, <1>2 DEF Inv, ReadersOK, At
<1>11. LocksOK'
  BY <1>1, <1>2, TypeFacts DEF Inv, LocksOK, At
<1>12. RequestsOK' /\ AnswersOwnRequest'
  BY <1>1, <1>2 DEF Inv, RequestsOK, AnswersOwnRequest, Idle
<1> QED
  BY <1>4, <1>5, <1>6, <1>7, <1>8, <1>9, <1>10, <1>11, <1>12 DEF IInv, Inv
LEMMA StartFirstStep ==
    ASSUME IInv, NEW c \in Callers, StartFirst(c)
    PROVE  IInv'
<1>1. TypeOK /\ Inv
  BY DEF IInv
<1>2. /\ callers' \in [Callers -> CallerRecord]
      /\ \A x \in Callers : x # c => callers'[x] = callers[x]
      /\ callers'[c].at = "connecting" /\ callers[c].at = "ensuring"
      /\ callers'[c].request = callers[c].request
      /\ callers'[c].result = callers[c].result
  BY <1>1, GoesFacts DEF StartFirst, At
<1>3. /\ starting = None /\ starting' = c /\ current = None
      /\ UNCHANGED <<current, daemons, lock, requests, seed, Opened>>
  BY DEF StartFirst, Opened
<1>4. TypeOK'
  BY <1>1, <1>2, <1>3, SameOpened, TypeNext, TypeFacts DEF TypeOK
<1>5. StarterOK'
  BY <1>1, <1>2, <1>3, TypeFacts
    DEF Inv, StarterOK, At
<1>6. LoadingOK'
  BY <1>1, <1>2, <1>3
    DEF Inv, LoadingOK, At
<1>7. OpenOK'
  BY <1>1, <1>2, <1>3
    DEF Inv, OpenOK, At
<1>8. CurrentOK'
  BY <1>1, <1>2, <1>3, TypeFacts
    DEF Inv, CurrentOK
<1>9. ClosedOK'
  BY <1>1, <1>2, <1>3, TypeFacts
    DEF Inv, ClosedOK
<1>10. UsersOK'
  BY <1>1, <1>2, <1>3
    DEF Inv, UsersOK, At
<1>11. ReadersOK'
  BY <1>1, <1>2, <1>3
    DEF Inv, ReadersOK, At
<1>12. LocksOK'
  BY <1>1, <1>2, <1>3, TypeFacts
    DEF Inv, LocksOK, At
<1>13. RequestsOK'
  BY <1>1, <1>2, <1>3
    DEF Inv, RequestsOK, Idle
<1>14. AnswersOwnRequest'
  BY <1>1, <1>2, <1>3
    DEF Inv, AnswersOwnRequest
<1> QED
  BY <1>4, <1>5, <1>6, <1>7, <1>8, <1>9, <1>10, <1>11, <1>12, <1>13, <1>14 DEF IInv, Inv

LEMMA ReplaceStep ==
    ASSUME IInv, NEW c \in Callers, Replace(c)
    PROVE  IInv'
<1>1. TypeOK /\ Inv
  BY DEF IInv
<1>2. /\ callers' \in [Callers -> CallerRecord]
      /\ \A x \in Callers : x # c => callers'[x] = callers[x]
      /\ callers'[c].at = "connecting" /\ callers[c].at = "ensuring"
      /\ callers'[c].request = callers[c].request
      /\ callers'[c].result = callers[c].result
  BY <1>1, GoesFacts DEF Replace, At
<1>3. /\ starting = None /\ starting' = c /\ current' = None /\ current \in Opened
      /\ daemons' \in Seq(DaemonRecord) /\ Opened' = Opened
      /\ Len(daemons') = Len(daemons)
      /\ ~daemons'[current].open /\ daemons'[current].seed = daemons[current].seed
      /\ daemons'[current].in = <<>> /\ daemons'[current].out = <<>>
      /\ \A e \in Opened : e # current => daemons'[e] = daemons[e]
      /\ UNCHANGED <<lock, requests, seed>>
  BY <1>1, DropFacts, TypeFacts DEF Replace
<1>4. TypeOK'
  BY <1>1, <1>2, <1>3, SameOpened, TypeNext, TypeFacts DEF TypeOK
<1>5. StarterOK'
  BY <1>1, <1>2, <1>3, TypeFacts
    DEF Inv, StarterOK, At
<1>6. LoadingOK'
  BY <1>1, <1>2, <1>3, TypeFacts
    DEF Inv, LoadingOK, At, StarterOK
<1>7. OpenOK'
  BY <1>1, <1>2, <1>3
    DEF Inv, OpenOK, At, StarterOK
<1>8. CurrentOK'
  BY <1>1, <1>2, <1>3, TypeFacts
    DEF Inv, CurrentOK
<1>9. ClosedOK'
  BY <1>1, <1>2, <1>3, TypeFacts
    DEF Inv, ClosedOK
<1>10. UsersOK'
  BY <1>1, <1>2, <1>3
    DEF Inv, UsersOK, At
<1>11. ReadersOK'
  <2>1. ReadersKeep
    BY <1>1, <1>2, <1>3, TypeFacts
      DEF ReadersKeep, Inv, UsersOK, At
  <2> QED
    BY <1>1, <2>1, ReadersKept DEF Inv
<1>12. LocksOK'
  BY <1>1, <1>2, <1>3, TypeFacts
    DEF Inv, LocksOK, At
<1>13. RequestsOK'
  BY <1>1, <1>2, <1>3
    DEF Inv, RequestsOK, Idle
<1>14. AnswersOwnRequest'
  BY <1>1, <1>2, <1>3
    DEF Inv, AnswersOwnRequest
<1> QED
  BY <1>4, <1>5, <1>6, <1>7, <1>8, <1>9, <1>10, <1>11, <1>12, <1>13, <1>14 DEF IInv, Inv

LEMMA ConnectFailsStep ==
    ASSUME IInv, NEW c \in Callers, ConnectFails(c)
    PROVE  IInv'
<1>1. TypeOK /\ Inv
  BY DEF IInv
<1>2. /\ callers' \in [Callers -> CallerRecord]
      /\ \A x \in Callers : x # c => callers'[x] = callers[x]
      /\ callers'[c].at = "idle" /\ callers[c].at = "connecting"
      /\ callers'[c].result = Failed
  BY <1>1, EndsFacts DEF ConnectFails, At
<1>3. /\ starting' = None
      /\ UNCHANGED <<current, daemons, lock, requests, seed, Opened>>
  BY DEF ConnectFails, Opened
<1>4. TypeOK'
  BY <1>1, <1>2, <1>3, SameOpened, TypeNext, TypeFacts DEF TypeOK
<1>5. StarterOK'
  BY <1>1, <1>2, <1>3, TypeFacts
    DEF Inv, StarterOK, At
<1>6. LoadingOK'
  BY <1>1, <1>2, <1>3
    DEF Inv, LoadingOK, At
<1>7. OpenOK'
  BY <1>1, <1>2, <1>3
    DEF Inv, OpenOK, At
<1>8. CurrentOK'
  BY <1>1, <1>2, <1>3, TypeFacts
    DEF Inv, CurrentOK
<1>9. ClosedOK'
  BY <1>1, <1>2, <1>3, TypeFacts
    DEF Inv, ClosedOK
<1>10. UsersOK'
  BY <1>1, <1>2, <1>3
    DEF Inv, UsersOK, At
<1>11. ReadersOK'
  BY <1>1, <1>2, <1>3
    DEF Inv, ReadersOK, At
<1>12. LocksOK'
  BY <1>1, <1>2, <1>3, TypeFacts
    DEF Inv, LocksOK, At
<1>13. RequestsOK'
  BY <1>1, <1>2, <1>3
    DEF Inv, RequestsOK, Idle
<1>14. AnswersOwnRequest'
  BY <1>1, <1>2, <1>3
    DEF Inv, AnswersOwnRequest
<1> QED
  BY <1>4, <1>5, <1>6, <1>7, <1>8, <1>9, <1>10, <1>11, <1>12, <1>13, <1>14 DEF IInv, Inv

LEMMA GoAwayStep ==
    ASSUME IInv, NEW c \in Callers, GoAway(c)
    PROVE  IInv'
<1>1. TypeOK /\ Inv
  BY DEF IInv
<1>2. /\ callers' \in [Callers -> CallerRecord]
      /\ \A x \in Callers : x # c => callers'[x] = callers[x]
      /\ callers'[c].at = "idle"
      /\ callers[c].at \in {"ensuring", "queued", "connecting"}
      /\ callers'[c].result = Failed
  BY <1>1, EndsFacts DEF GoAway, At
<1>3. /\ starting' = IF starting = c THEN None ELSE starting
      /\ UNCHANGED <<current, daemons, lock, requests, seed, Opened>>
  BY DEF GoAway, Opened
<1>4. TypeOK'
  BY <1>1, <1>2, <1>3, SameOpened, TypeNext, TypeFacts DEF TypeOK
<1>5. StarterOK'
  BY <1>1, <1>2, <1>3, TypeFacts
    DEF Inv, StarterOK, At
<1>6. LoadingOK'
  BY <1>1, <1>2, <1>3
    DEF Inv, LoadingOK, At
<1>7. OpenOK'
  BY <1>1, <1>2, <1>3
    DEF Inv, OpenOK, At
<1>8. CurrentOK'
  BY <1>1, <1>2, <1>3, TypeFacts
    DEF Inv, CurrentOK
<1>9. ClosedOK'
  BY <1>1, <1>2, <1>3, TypeFacts
    DEF Inv, ClosedOK
<1>10. UsersOK'
  BY <1>1, <1>2, <1>3
    DEF Inv, UsersOK, At
<1>11. ReadersOK'
  BY <1>1, <1>2, <1>3
    DEF Inv, ReadersOK, At
<1>12. LocksOK'
  BY <1>1, <1>2, <1>3, TypeFacts
    DEF Inv, LocksOK, At
<1>13. RequestsOK'
  BY <1>1, <1>2, <1>3
    DEF Inv, RequestsOK, Idle
<1>14. AnswersOwnRequest'
  BY <1>1, <1>2, <1>3
    DEF Inv, AnswersOwnRequest
<1> QED
  BY <1>4, <1>5, <1>6, <1>7, <1>8, <1>9, <1>10, <1>11, <1>12, <1>13, <1>14 DEF IInv, Inv

LEMMA GiveUpStep ==
    ASSUME IInv, NEW c \in Callers, GiveUp(c)
    PROVE  IInv'
<1>1. TypeOK /\ Inv
  BY DEF IInv
<1>2. /\ callers' \in [Callers -> CallerRecord]
      /\ \A x \in Callers : x # c => callers'[x] = callers[x]
      /\ callers'[c].at = "closing" /\ callers[c].at \in {"starting", "reading"}
      /\ callers'[c].request = callers[c].request
      /\ callers'[c].daemon = callers[c].daemon
      /\ callers'[c].result = callers[c].result
  BY <1>1, GoesFacts DEF GiveUp, At
<1>3. callers[c].daemon \in Opened
  BY <1>1, <1>2 DEF Inv, LoadingOK, UsersOK, At
<1>4. \E d \in Opened :
         /\ d = callers[c].daemon
         /\ daemons' \in Seq(DaemonRecord) /\ Opened' = Opened
         /\ Len(daemons') = Len(daemons)
         /\ ~daemons'[d].open /\ daemons'[d].seed = daemons[d].seed
         /\ daemons'[d].in = <<>> /\ daemons'[d].out = <<>>
         /\ \A e \in Opened : e # d => daemons'[e] = daemons[e]
         /\ current' = IF current = d THEN None ELSE current
  BY <1>1, <1>3, DropFacts DEF GiveUp
<1>5. UNCHANGED <<starting, lock, requests, seed>>
  BY DEF GiveUp
<1>6. TypeOK'
  BY <1>1, <1>2, <1>3, <1>4, <1>5, SameOpened, TypeNext, TypeFacts DEF TypeOK
<1>7. StarterOK'
  <2>1. StarterOK /\ (callers[c].at = "starting" => starting = c)
    BY <1>1, <1>2 DEF Inv, StarterOK, At
  <2>2. ASSUME NEW x \in Callers, At(x, "connecting")' \/ At(x, "starting")'
        PROVE  starting' = x
    BY <1>2, <1>5, <2>1, <2>2 DEF StarterOK, At
  <2>3. ASSUME NEW x \in Callers, starting' = x
        PROVE  callers'[x].at \in {"connecting", "starting", "closing"}
    BY <1>2, <1>5, <2>1, <2>3 DEF StarterOK
  <2>4. starting' # None => current' = None
    BY <1>4, <1>5, <2>1 DEF StarterOK
  <2> QED
    BY <2>2, <2>3, <2>4 DEF StarterOK
<1>8. LoadingOK'
  BY <1>1, <1>2, <1>3, <1>4, <1>5
    DEF Inv, LoadingOK, At, StarterOK, UsersOK
<1>9. OpenOK'
  BY <1>1, <1>2, <1>3, <1>4, <1>5
    DEF Inv, OpenOK, At, StarterOK
<1>10. CurrentOK'
  BY <1>1, <1>2, <1>3, <1>4, <1>5, TypeFacts
    DEF Inv, CurrentOK
<1>11. ClosedOK'
  BY <1>1, <1>2, <1>3, <1>4, <1>5, TypeFacts
    DEF Inv, ClosedOK
<1>12. UsersOK'
  BY <1>1, <1>2, <1>3, <1>4, <1>5
    DEF Inv, UsersOK, At
<1>13. ReadersOK'
  <2>1. ReadersKeep
    BY <1>1, <1>2, <1>3, <1>4, <1>5, TypeFacts
      DEF ReadersKeep, Inv, UsersOK, At
  <2> QED
    BY <1>1, <2>1, ReadersKept DEF Inv
<1>14. LocksOK'
  BY <1>1, <1>2, <1>3, <1>4, <1>5, TypeFacts
    DEF Inv, LocksOK, At
<1>15. RequestsOK'
  BY <1>1, <1>2, <1>3, <1>4, <1>5
    DEF Inv, RequestsOK, Idle
<1>16. AnswersOwnRequest'
  BY <1>1, <1>2, <1>3, <1>4, <1>5
    DEF Inv, AnswersOwnRequest
<1> QED
  BY <1>6, <1>7, <1>8, <1>9, <1>10, <1>11, <1>12, <1>13, <1>14, <1>15, <1>16 DEF IInv, Inv

LEMMA CloseStep ==
    ASSUME IInv, NEW c \in Callers, Close(c)
    PROVE  IInv'
<1>1. TypeOK /\ Inv
  BY DEF IInv
<1>2. /\ callers' \in [Callers -> CallerRecord]
      /\ \A x \in Callers : x # c => callers'[x] = callers[x]
      /\ callers'[c].at = "idle" /\ callers[c].at = "closing"
      /\ callers'[c].result = Failed
  BY <1>1, EndsFacts DEF Close, At
<1>3. /\ starting' = IF starting = c THEN None ELSE starting
      /\ lock' \in [Daemons -> Callers \cup {None}]
      /\ \A d \in Daemons : lock'[d] = IF lock[d] = c THEN None ELSE lock[d]
      /\ UNCHANGED <<current, daemons, requests, seed, Opened>>
  BY <1>1, TypeFacts DEF Close, Opened
<1>4. TypeOK'
  BY <1>1, <1>2, <1>3, SameOpened, TypeNext, TypeFacts DEF TypeOK
<1>5. StarterOK'
  BY <1>1, <1>2, <1>3, TypeFacts
    DEF Inv, StarterOK, At
<1>6. LoadingOK'
  BY <1>1, <1>2, <1>3, TypeFacts
    DEF Inv, LoadingOK, At
<1>7. OpenOK'
  BY <1>1, <1>2, <1>3
    DEF Inv, OpenOK, At
<1>8. CurrentOK'
  BY <1>1, <1>2, <1>3, TypeFacts
    DEF Inv, CurrentOK, LocksOK, At
<1>9. ClosedOK'
  BY <1>1, <1>2, <1>3, TypeFacts
    DEF Inv, ClosedOK
<1>10. UsersOK'
  BY <1>1, <1>2, <1>3
    DEF Inv, UsersOK, At
<1>11. ReadersOK'
  BY <1>1, <1>2, <1>3, TypeFacts
    DEF Inv, ReadersOK, At, UsersOK, LocksOK
<1>12. LocksOK'
  BY <1>1, <1>2, <1>3, TypeFacts
    DEF Inv, LocksOK, At
<1>13. RequestsOK'
  BY <1>1, <1>2, <1>3
    DEF Inv, RequestsOK, Idle
<1>14. AnswersOwnRequest'
  BY <1>1, <1>2, <1>3
    DEF Inv, AnswersOwnRequest
<1> QED
  BY <1>4, <1>5, <1>6, <1>7, <1>8, <1>9, <1>10, <1>11, <1>12, <1>13, <1>14 DEF IInv, Inv

LEMMA ReleaseIdleStep ==
    ASSUME IInv, ReleaseIdle
    PROVE  IInv'
<1>1. TypeOK /\ Inv
  BY DEF IInv
<1>2. /\ current \in Opened /\ lock[current] = None /\ current' = None
      /\ daemons' \in Seq(DaemonRecord) /\ Opened' = Opened
      /\ Len(daemons') = Len(daemons)
      /\ ~daemons'[current].open /\ daemons'[current].seed = daemons[current].seed
      /\ daemons'[current].in = <<>> /\ daemons'[current].out = <<>>
      /\ \A e \in Opened : e # current => daemons'[e] = daemons[e]
      /\ UNCHANGED <<starting, lock, callers, requests, seed>>
  BY <1>1, DropFacts, TypeFacts DEF ReleaseIdle
<1>3. TypeOK'
  BY <1>1, <1>2, SameOpened, TypeNext, TypeFacts DEF TypeOK
<1>4. StarterOK'
  BY <1>1, <1>2, TypeFacts
    DEF Inv, StarterOK, At
<1>5. LoadingOK'
  BY <1>1, <1>2, TypeFacts
    DEF Inv, LoadingOK, At, StarterOK
<1>6. OpenOK'
  BY <1>1, <1>2
    DEF Inv, OpenOK, At, StarterOK
<1>7. CurrentOK'
  BY <1>1, <1>2, TypeFacts
    DEF Inv, CurrentOK
<1>8. ClosedOK'
  BY <1>1, <1>2, TypeFacts
    DEF Inv, ClosedOK
<1>9. UsersOK'
  BY <1>1, <1>2
    DEF Inv, UsersOK, At
<1>10. ReadersOK'
  <2>1. ReadersKeep
    BY <1>1, <1>2, TypeFacts
      DEF ReadersKeep, Inv, UsersOK, At
  <2> QED
    BY <1>1, <2>1, ReadersKept DEF Inv
<1>11. LocksOK'
  BY <1>1, <1>2, TypeFacts
    DEF Inv, LocksOK, At
<1>12. RequestsOK'
  BY <1>1, <1>2
    DEF Inv, RequestsOK, Idle
<1>13. AnswersOwnRequest'
  BY <1>1, <1>2
    DEF Inv, AnswersOwnRequest
<1> QED
  BY <1>3, <1>4, <1>5, <1>6, <1>7, <1>8, <1>9, <1>10, <1>11, <1>12, <1>13 DEF IInv, Inv

LEMMA RegenerateStep ==
    ASSUME IInv, Regenerate
    PROVE  IInv'
<1>1. TypeOK /\ Inv
  BY DEF IInv
<1>2. /\ seed' \in Seeds
      /\ UNCHANGED <<current, starting, daemons, lock, callers, requests, Opened>>
  BY DEF Regenerate, Opened
<1>3. TypeOK'
  BY <1>1, <1>2, SameOpened, TypeNext, TypeFacts DEF TypeOK
<1>4. StarterOK'
  BY <1>1, <1>2, TypeFacts
    DEF Inv, StarterOK, At
<1>5. LoadingOK'
  BY <1>1, <1>2
    DEF Inv, LoadingOK, At
<1>6. OpenOK'
  BY <1>1, <1>2
    DEF Inv, OpenOK, At
<1>7. CurrentOK'
  BY <1>1, <1>2, TypeFacts
    DEF Inv, CurrentOK
<1>8. ClosedOK'
  BY <1>1, <1>2, TypeFacts
    DEF Inv, ClosedOK
<1>9. UsersOK'
  BY <1>1, <1>2
    DEF Inv, UsersOK, At
<1>10. ReadersOK'
  BY <1>1, <1>2
    DEF Inv, ReadersOK, At
<1>11. LocksOK'
  BY <1>1, <1>2, TypeFacts
    DEF Inv, LocksOK, At
<1>12. RequestsOK'
  BY <1>1, <1>2
    DEF Inv, RequestsOK, Idle
<1>13. AnswersOwnRequest'
  BY <1>1, <1>2
    DEF Inv, AnswersOwnRequest
<1> QED
  BY <1>3, <1>4, <1>5, <1>6, <1>7, <1>8, <1>9, <1>10, <1>11, <1>12, <1>13 DEF IInv, Inv

\* A daemon in use is waited for.
LEMMA WaitStep ==
    ASSUME IInv, NEW c \in Callers, NEW d \in Opened,
           At(c, "ensuring") \/ At(c, "queued"),
           daemons[d].seed = callers[c].seed,
           \A x \in Callers : At(x, "starting") => callers[x].daemon # d,
           Take(c, d), UNCHANGED <<current, starting, requests, seed>>, lock[d] # None
    PROVE  IInv'
<1>1. TypeOK /\ Inv
  BY DEF IInv
<1>2. UNCHANGED <<current, starting, requests, seed, lock, daemons, Opened>>
  BY DEF Take, Opened
<1>3. /\ callers' \in [Callers -> CallerRecord']
      /\ \A x \in Callers : x # c => callers'[x] = callers[x]
      /\ callers'[c].at = "queued"
      /\ callers'[c].request = callers[c].request
      /\ callers'[c].seed = callers[c].seed
      /\ callers'[c].daemon = d
      /\ callers'[c].result = callers[c].result
  BY <1>1, <1>2, HandFacts DEF Take
<1>4. callers[c].at \in {"ensuring", "queued"}
  BY DEF At
<1>5. TypeOK'
  BY <1>1, <1>2, <1>3, TypeNext, TypeFacts DEF TypeOK
<1>6. StarterOK'
  BY <1>1, <1>2, <1>3, <1>4, TypeFacts
    DEF Inv, StarterOK, At
<1>7. LoadingOK'
  BY <1>1, <1>2, <1>3, <1>4
    DEF Inv, LoadingOK, At
<1>8. OpenOK'
  BY <1>1, <1>2, <1>3, <1>4
    DEF Inv, OpenOK, At
<1>9. CurrentOK'
  BY <1>1, <1>2, <1>3, <1>4, TypeFacts
    DEF Inv, CurrentOK
<1>10. ClosedOK'
  BY <1>1, <1>2, <1>3, <1>4, TypeFacts
    DEF Inv, ClosedOK
<1>11. UsersOK'
  BY <1>1, <1>2, <1>3, <1>4
    DEF Inv, UsersOK, At
<1>12. ReadersOK'
  BY <1>1, <1>2, <1>3, <1>4
    DEF Inv, ReadersOK, At
<1>13. LocksOK'
  BY <1>1, <1>2, <1>3, <1>4, TypeFacts
    DEF Inv, LocksOK, At
<1>14. RequestsOK'
  BY <1>1, <1>2, <1>3, <1>4
    DEF Inv, RequestsOK, Idle
<1>15. AnswersOwnRequest'
  BY <1>1, <1>2, <1>3, <1>4
    DEF Inv, AnswersOwnRequest
<1> QED
  BY <1>5, <1>6, <1>7, <1>8, <1>9, <1>10, <1>11, <1>12, <1>13, <1>14, <1>15 DEF IInv, Inv

\* One that is free is taken, and the request written.
LEMMA HoldStep ==
    ASSUME IInv, NEW c \in Callers, NEW d \in Opened,
           At(c, "ensuring") \/ At(c, "queued"),
           daemons[d].seed = callers[c].seed,
           \A x \in Callers : At(x, "starting") => callers[x].daemon # d,
           Take(c, d), UNCHANGED <<current, starting, requests, seed>>, lock[d] = None
    PROVE  IInv'
<1>1. TypeOK /\ Inv
  BY DEF IInv
<1>2. daemons[d].in = <<>> /\ daemons[d].out = <<>>
  <2>1. CASE daemons[d].open
    BY <1>1, <2>1, TypeFacts DEF Inv, OpenOK, CurrentOK
  <2>2. CASE ~daemons[d].open
    BY <1>1, <2>2 DEF Inv, ClosedOK
  <2> QED
    BY <2>1, <2>2
<1>3. callers[c].request \in 1..MaxRequests
  <2>1. callers[c].request \in 0..MaxRequests
    BY <1>1, TypeFacts DEF CallerRecord
  <2> QED
    BY <1>1, <2>1, TypeFacts DEF Inv, RequestsOK, Idle, At
<1>4. /\ daemons' \in Seq(DaemonRecord) /\ Opened' = Opened
      /\ Len(daemons') = Len(daemons)
      /\ daemons'[d].in \in {<<>>, <<callers[c].request>>} /\ daemons'[d].out = <<>>
      /\ ~daemons[d].open => daemons'[d].in = <<>>
      /\ daemons'[d].open = daemons[d].open /\ daemons'[d].seed = daemons[d].seed
      /\ daemons'[d].ready = daemons[d].ready
      /\ \A e \in Opened : e # d => daemons'[e] = daemons[e]
  <2>1. CASE daemons[d].open
    <3>1. daemons' = [daemons EXCEPT ![d].in = Append(@, callers[c].request)]
      BY <2>1 DEF Take
    <3>2. daemons[d] \in DaemonRecord /\ daemons \in Seq(DaemonRecord)
      BY <1>1, TypeFacts
    <3>3. Append(daemons[d].in, callers[c].request) = <<callers[c].request>>
      BY <1>2, <1>3, Single
    <3>4. [daemons[d] EXCEPT !.in = <<callers[c].request>>]
            = [daemons[d] EXCEPT !.in = <<callers[c].request>>, !.out = <<>>]
      BY <1>2, <3>2 DEF DaemonRecord
    <3>5. Streams(d, <<callers[c].request>>, <<>>)
      BY <3>1, <3>2, <3>3, <3>4 DEF Streams, Opened
    <3>6. <<callers[c].request>> \in Seq(1..MaxRequests) /\ <<>> \in Seq(Line)
      BY <1>3
    <3> QED
      BY <1>1, <2>1, <3>5, <3>6, StreamFacts
  <2>2. CASE ~daemons[d].open
    BY <1>1, <1>2, <2>2, TypeFacts DEF Take, Opened
  <2> QED
    BY <2>1, <2>2
<1>5. /\ callers' \in [Callers -> CallerRecord']
      /\ \A x \in Callers : x # c => callers'[x] = callers[x]
      /\ callers'[c].at = "reading"
      /\ callers'[c].request = callers[c].request
      /\ callers'[c].seed = callers[c].seed
      /\ callers'[c].daemon = d
      /\ callers'[c].result = callers[c].result
  BY <1>1, <1>4, HandFacts DEF Take
<1>6. /\ callers[c].at \in {"ensuring", "queued"}
      /\ lock' \in [Daemons -> Callers \cup {None}] /\ lock'[d] = c
      /\ \A e \in Daemons : e # d => lock'[e] = lock[e]
  BY <1>1, TypeFacts DEF Take, At
<1>7. TypeOK'
  BY <1>1, <1>4, <1>5, <1>6, TypeNext, TypeFacts DEF TypeOK
<1>8. StarterOK'
  BY <1>1, <1>2, <1>3, <1>4, <1>5, <1>6, TypeFacts
    DEF Inv, StarterOK, At
<1>9. LoadingOK'
  <2>1. ASSUME NEW x \in Callers, At(x, "starting")'
        PROVE  /\ At(x, "starting") /\ callers'[x] = callers[x]
               /\ callers[x].daemon \in Opened
               /\ daemons'[callers[x].daemon] = daemons[callers[x].daemon]
               /\ lock'[callers[x].daemon] = lock[callers[x].daemon]
    <3>1. At(x, "starting") /\ callers'[x] = callers[x]
      BY <1>5, <2>1 DEF At
    <3>2. callers[x].daemon \in Opened /\ callers[x].daemon # d
      BY <1>1, <3>1 DEF Inv, LoadingOK
    <3>3. callers[x].daemon \in Daemons
      BY <1>1, <3>2, TypeFacts
    <3> QED
      BY <1>4, <1>6, <3>1, <3>2, <3>3
  <2>2. LoadingOK
    BY <1>1 DEF Inv
  <2> QED
    BY <1>4, <2>1, <2>2 DEF LoadingOK
<1>10. OpenOK'
  BY <1>1, <1>2, <1>3, <1>4, <1>5, <1>6
    DEF Inv, OpenOK, At
<1>11. CurrentOK'
  BY <1>1, <1>2, <1>3, <1>4, <1>5, <1>6, TypeFacts
    DEF Inv, CurrentOK
<1>12. ClosedOK'
  BY <1>1, <1>2, <1>3, <1>4, <1>5, <1>6, TypeFacts
    DEF Inv, ClosedOK
<1>13. UsersOK'
  BY <1>1, <1>2, <1>3, <1>4, <1>5, <1>6
    DEF Inv, UsersOK, At
<1>14. ReadersOK'
  <2>1. ASSUME NEW x \in Callers, At(x, "reading")'
        PROVE  LET e == daemons'[callers'[x].daemon] IN
               /\ lock'[callers'[x].daemon] = x
               /\ \/ e.in = <<>> /\ e.out \in {<<>>, <<callers'[x].request>>}
                  \/ e.in = <<callers'[x].request>> /\ e.out = <<>>
    <3>1. CASE x = c
      BY <1>4, <1>5, <1>6, <3>1
    <3>2. CASE x # c
      <4>1. At(x, "reading") /\ callers'[x] = callers[x]
        BY <1>5, <2>1, <3>2 DEF At
      <4>2. /\ callers[x].daemon \in Opened /\ callers[x].daemon # d
            /\ callers[x].daemon \in Daemons
        BY <1>1, <4>1, TypeFacts DEF Inv, UsersOK, ReadersOK
      <4>3. /\ daemons'[callers[x].daemon] = daemons[callers[x].daemon]
            /\ lock'[callers[x].daemon] = lock[callers[x].daemon]
        BY <1>4, <1>6, <4>2
      <4>4. ReadersOK
        BY <1>1 DEF Inv
      <4> QED
        BY <4>1, <4>3, <4>4 DEF ReadersOK
    <3> QED
      BY <3>1, <3>2
  <2> QED
    BY <2>1 DEF ReadersOK
<1>15. LocksOK'
  BY <1>1, <1>2, <1>3, <1>4, <1>5, <1>6, TypeFacts
    DEF Inv, LocksOK, At
<1>16. RequestsOK'
  BY <1>1, <1>2, <1>3, <1>4, <1>5, <1>6
    DEF Inv, RequestsOK, Idle
<1>17. AnswersOwnRequest'
  BY <1>1, <1>2, <1>3, <1>4, <1>5, <1>6
    DEF Inv, AnswersOwnRequest
<1> QED
  BY <1>7, <1>8, <1>9, <1>10, <1>11, <1>12, <1>13, <1>14, <1>15, <1>16, <1>17 DEF IInv, Inv

LEMMA TakeStep ==
    ASSUME IInv, NEW c \in Callers, Ensure(c) \/ Queued(c)
    PROVE  IInv'
<1>1. TypeOK /\ Inv
  BY DEF IInv
<1>2. PICK d \in Opened :
         /\ Take(c, d) /\ UNCHANGED <<current, starting, requests, seed>>
         /\ daemons[d].seed = callers[c].seed
         /\ At(c, "ensuring") \/ At(c, "queued")
         /\ \A x \in Callers : At(x, "starting") => callers[x].daemon # d
  <2>1. CASE Ensure(c)
    BY <1>1, <2>1, TypeFacts DEF Ensure, Inv, StarterOK
  <2>2. CASE Queued(c)
    BY <1>1, <2>2 DEF Queued, Inv, UsersOK
  <2> QED
    BY <2>1, <2>2
<1> QED
  BY <1>2, WaitStep, HoldStep

LEMMA ConnectStep ==
    ASSUME IInv, NEW c \in Callers, Connect(c)
    PROVE  IInv'
<1>1. TypeOK /\ Inv
  BY DEF IInv
<1>2. callers[c].seed \in Seeds
  BY <1>1, TypeFacts DEF CallerRecord
<1>3. PICK d \in Daemons :
         /\ d \notin Opened /\ Opened' = Opened \cup {d}
         /\ daemons' \in Seq(DaemonRecord) /\ Len(daemons') <= MaxDaemons
         /\ daemons'[d] = Loading(callers[c].seed) /\ d = Len(daemons')
         /\ \A e \in Opened : daemons'[e] = daemons[e]
  <2>1. daemons \in Seq(DaemonRecord) /\ Loading(callers[c].seed) \in DaemonRecord
    BY <1>1, <1>2, TypeFacts, ConnectionFacts DEF Loading
  <2>2. daemons' = Append(daemons, Loading(callers[c].seed)) /\ Len(daemons) < MaxDaemons
    BY DEF Connect
  <2>3. Len(daemons) + 1 \in Daemons /\ Len(daemons) + 1 <= MaxDaemons
    BY <2>1, <2>2, BoundAssumption DEF Daemons
  <2> HIDE DEF Loading
  <2> QED
    BY <2>1, <2>2, <2>3, Extend DEF Opened
<1>4. /\ daemons'[d].open /\ daemons'[d].seed = callers[c].seed /\ ~daemons'[d].ready
      /\ daemons'[d].in = <<>> /\ daemons'[d].out = <<>>
  BY <1>2, <1>3, ConnectionFacts DEF Loading
<1>5. /\ callers' \in [Callers -> CallerRecord']
      /\ \A x \in Callers : x # c => callers'[x] = callers[x]
      /\ callers'[c].at = "starting"
      /\ callers'[c].request = callers[c].request
      /\ callers'[c].seed = callers[c].seed
      /\ callers'[c].daemon = d
      /\ callers'[c].result = callers[c].result
  BY <1>1, <1>3, HandFacts DEF Connect
<1>6. /\ callers[c].at = "connecting" /\ lock[d] = None
      /\ UNCHANGED <<current, starting, lock, requests, seed>>
  BY <1>1, <1>3 DEF Connect, At, Inv, LocksOK
<1>7. TypeOK'
  BY <1>1, <1>3, <1>5, <1>6, TypeNext, TypeFacts DEF TypeOK
<1>8. StarterOK'
  BY <1>1, <1>2, <1>3, <1>4, <1>5, <1>6, TypeFacts
    DEF Inv, StarterOK, At
<1>9. LoadingOK'
  BY <1>1, <1>2, <1>3, <1>4, <1>5, <1>6, TypeFacts
    DEF Inv, LoadingOK, At, StarterOK
<1>10. OpenOK'
  BY <1>1, <1>2, <1>3, <1>4, <1>5, <1>6
    DEF Inv, OpenOK, At, StarterOK
<1>11. CurrentOK'
  BY <1>1, <1>2, <1>3, <1>4, <1>5, <1>6, TypeFacts
    DEF Inv, CurrentOK
<1>12. ClosedOK'
  BY <1>1, <1>2, <1>3, <1>4, <1>5, <1>6, TypeFacts
    DEF Inv, ClosedOK
<1>13. UsersOK'
  <2>1. ASSUME NEW x \in Callers, At(x, "queued")' \/ At(x, "reading")'
        PROVE  /\ callers'[x] = callers[x] /\ callers[x].daemon \in Opened
               /\ daemons[callers[x].daemon].seed = callers[x].seed
    <3>1. x # c /\ callers'[x] = callers[x]
      BY <1>5, <2>1 DEF At
    <3> QED
      BY <1>1, <2>1, <3>1 DEF Inv, UsersOK, At
  <2>2. ASSUME NEW y \in Callers, At(y, "starting")' PROVE callers'[y].daemon = d
    BY <1>1, <1>5, <1>6, <2>2 DEF Inv, StarterOK, At
  <2> QED
    BY <1>3, <2>1, <2>2 DEF UsersOK
<1>14. ReadersOK'
  <2>1. ReadersKeep
    BY <1>1, <1>2, <1>3, <1>4, <1>5, <1>6, TypeFacts
      DEF ReadersKeep, Inv, UsersOK, At
  <2> QED
    BY <1>1, <2>1, ReadersKept DEF Inv
<1>15. LocksOK'
  BY <1>1, <1>2, <1>3, <1>4, <1>5, <1>6, TypeFacts
    DEF Inv, LocksOK, At
<1>16. RequestsOK'
  BY <1>1, <1>2, <1>3, <1>4, <1>5, <1>6
    DEF Inv, RequestsOK, Idle
<1>17. AnswersOwnRequest'
  BY <1>1, <1>2, <1>3, <1>4, <1>5, <1>6
    DEF Inv, AnswersOwnRequest
<1> QED
  BY <1>7, <1>8, <1>9, <1>10, <1>11, <1>12, <1>13, <1>14, <1>15, <1>16, <1>17 DEF IInv, Inv

LEMMA StartedStep ==
    ASSUME IInv, NEW c \in Callers, Started(c)
    PROVE  IInv'
<1>1. TypeOK /\ Inv
  BY DEF IInv
<1>2. PICK d \in Opened :
         /\ d = callers[c].daemon /\ d \in Daemons
         /\ At(c, "starting") /\ starting = c /\ current = None
         /\ daemons[d].open /\ daemons[d].ready
         /\ daemons[d].in = <<>> /\ daemons[d].out = <<Ready>>
         /\ daemons[d].seed = callers[c].seed
         /\ \A x \in Callers : At(x, "starting") => x = c
  <2>1. /\ At(c, "starting") /\ daemons[callers[c].daemon].out # <<>>
        /\ Head(daemons[callers[c].daemon].out) = Ready
    BY DEF Started
  <2>2. <<Ready>> # <<>> /\ <<Broken>> # <<>> /\ Head(<<Broken>>) # Ready
    BY DEF Ready, Broken
  <2>3. LoadingOK /\ StarterOK
    BY <1>1 DEF Inv
  <2> QED
    BY <1>1, <2>1, <2>2, <2>3, TypeFacts DEF LoadingOK, StarterOK, At
<1>3. callers[c].request \in 1..MaxRequests
  <2>1. callers[c].request \in 0..MaxRequests
    BY <1>1, TypeFacts DEF CallerRecord
  <2> QED
    BY <1>1, <2>1, TypeFacts DEF Started, Inv, RequestsOK, Idle, At
<1>4. /\ daemons' \in Seq(DaemonRecord) /\ Opened' = Opened
      /\ Len(daemons') = Len(daemons)
      /\ daemons'[d].in = <<callers[c].request>> /\ daemons'[d].out = <<>>
      /\ daemons'[d].open = daemons[d].open /\ daemons'[d].seed = daemons[d].seed
      /\ daemons'[d].ready = daemons[d].ready
      /\ \A e \in Opened : e # d => daemons'[e] = daemons[e]
  <2>1. daemons' = [daemons EXCEPT ![d].out = Tail(@), ![d].in = <<callers[c].request>>]
    BY <1>2 DEF Started
  <2>2. daemons[d] \in DaemonRecord /\ daemons \in Seq(DaemonRecord)
    BY <1>1, TypeFacts
  <2>3. Tail(daemons[d].out) = <<>>
    BY <1>2
  <2>4. Streams(d, <<callers[c].request>>, <<>>)
    BY <2>1, <2>2, <2>3 DEF Streams, DaemonRecord, Opened
  <2>5. <<callers[c].request>> \in Seq(1..MaxRequests) /\ <<>> \in Seq(Line)
    BY <1>3
  <2> QED
    BY <1>1, <2>4, <2>5, StreamFacts
<1>5. /\ callers' \in [Callers -> CallerRecord]
      /\ \A x \in Callers : x # c => callers'[x] = callers[x]
      /\ callers'[c].at = "reading"
      /\ callers'[c].request = callers[c].request
      /\ callers'[c].seed = callers[c].seed
      /\ callers'[c].daemon = d
      /\ callers'[c].result = callers[c].result
  <2>1. Goes(c, "reading")
    BY DEF Started, Goes
  <2> QED
    BY <1>1, <1>2, <2>1, GoesFacts
<1>6. /\ current' = d /\ starting' = None
      /\ lock' \in [Daemons -> Callers \cup {None}] /\ lock'[d] = c
      /\ \A e \in Daemons : e # d => lock'[e] = lock[e]
      /\ UNCHANGED <<requests, seed>>
  BY <1>1, <1>2, TypeFacts DEF Started
<1>7. \A x \in Callers : ~At(x, "starting")'
  BY <1>2, <1>5 DEF At
<1>8. TypeOK'
  BY <1>1, <1>2, <1>4, <1>5, <1>6, SameOpened, TypeNext, TypeFacts DEF TypeOK
<1>9. StarterOK'
  BY <1>1, <1>2, <1>3, <1>4, <1>5, <1>6, <1>7, TypeFacts
    DEF Inv, StarterOK, At
<1>10. LoadingOK'
  BY <1>1, <1>2, <1>3, <1>4, <1>5, <1>6, <1>7, TypeFacts
    DEF Inv, LoadingOK, At
<1>11. OpenOK'
  <2>1. ASSUME NEW e \in Opened', daemons'[e].open PROVE e = d
    <3>1. CASE e # d
      <4>1. daemons[e].open /\ e \in Opened /\ e # current
        BY <1>1, <1>2, <1>4, <2>1, <3>1, TypeFacts
      <4>2. \E x \in Callers : At(x, "starting") /\ callers[x].daemon = e
        BY <1>1, <4>1 DEF Inv, OpenOK
      <4> QED
        BY <1>2, <3>1, <4>2
    <3> QED
      BY <3>1
  <2> QED
    BY <1>6, <2>1 DEF OpenOK
<1>12. CurrentOK'
  BY <1>1, <1>2, <1>3, <1>4, <1>5, <1>6, <1>7, TypeFacts
    DEF Inv, CurrentOK
<1>13. ClosedOK'
  <2>1. ClosedOK
    BY <1>1 DEF Inv
  <2> QED
    BY <1>2, <1>4, <2>1 DEF ClosedOK
<1>14. UsersOK'
  <2>1. ASSUME NEW x \in Callers, At(x, "queued")' \/ At(x, "reading")'
        PROVE  /\ callers'[x].daemon \in Opened'
               /\ daemons'[callers'[x].daemon].seed = callers'[x].seed
    <3>1. CASE x = c
      BY <1>2, <1>4, <1>5, <3>1
    <3>2. CASE x # c
      <4>1. At(x, "queued") \/ At(x, "reading")
        BY <1>5, <2>1, <3>2 DEF At
      <4>2. callers[x].daemon \in Opened /\ daemons[callers[x].daemon].seed = callers[x].seed
        BY <1>1, <4>1 DEF Inv, UsersOK
      <4>3. daemons'[callers[x].daemon].seed = daemons[callers[x].daemon].seed
        BY <1>4, <4>2
      <4> QED
        BY <1>4, <1>5, <3>2, <4>2, <4>3
    <3> QED
      BY <3>1, <3>2
  <2> QED
    BY <1>7, <2>1 DEF UsersOK
<1>15. ReadersOK'
  <2>1. ASSUME NEW x \in Callers, At(x, "reading")'
        PROVE  LET e == daemons'[callers'[x].daemon] IN
               /\ lock'[callers'[x].daemon] = x
               /\ \/ e.in = <<>> /\ e.out \in {<<>>, <<callers'[x].request>>}
                  \/ e.in = <<callers'[x].request>> /\ e.out = <<>>
    <3>1. CASE x = c
      BY <1>4, <1>5, <1>6, <3>1
    <3>2. CASE x # c
      <4>1. At(x, "reading") /\ callers'[x] = callers[x]
        BY <1>5, <2>1, <3>2 DEF At
      <4>2. /\ callers[x].daemon \in Opened /\ callers[x].daemon # d
            /\ callers[x].daemon \in Daemons
        BY <1>1, <1>2, <4>1, TypeFacts DEF Inv, UsersOK
      <4>3. /\ daemons'[callers[x].daemon] = daemons[callers[x].daemon]
            /\ lock'[callers[x].daemon] = lock[callers[x].daemon]
        BY <1>4, <1>6, <4>2
      <4>4. ReadersOK
        BY <1>1 DEF Inv
      <4> QED
        BY <4>1, <4>3, <4>4 DEF ReadersOK
    <3> QED
      BY <3>1, <3>2
  <2> QED
    BY <2>1 DEF ReadersOK
<1>16. LocksOK'
  BY <1>1, <1>2, <1>3, <1>4, <1>5, <1>6, <1>7, TypeFacts
    DEF Inv, LocksOK, At
<1>17. RequestsOK'
  BY <1>1, <1>2, <1>3, <1>4, <1>5, <1>6, <1>7
    DEF Inv, RequestsOK, Idle
<1>18. AnswersOwnRequest'
  BY <1>1, <1>2, <1>3, <1>4, <1>5, <1>6, <1>7
    DEF Inv, AnswersOwnRequest
<1> QED
  BY <1>8, <1>9, <1>10, <1>11, <1>12, <1>13, <1>14, <1>15, <1>16, <1>17, <1>18 DEF IInv, Inv

LEMMA ReadStep ==
    ASSUME IInv, NEW c \in Callers, Read(c)
    PROVE  IInv'
<1>1. TypeOK /\ Inv
  BY DEF IInv
<1>2. callers[c].request \in 1..MaxRequests
  <2>1. callers[c].request \in 0..MaxRequests
    BY <1>1, TypeFacts DEF CallerRecord
  <2> QED
    BY <1>1, <2>1, TypeFacts DEF Read, Inv, RequestsOK, Idle, At
<1>3. PICK d \in Opened :
         /\ d = callers[c].daemon /\ d \in Daemons /\ lock[d] = c
         /\ At(c, "reading")
         /\ daemons[d].in = <<>> /\ daemons[d].out = <<callers[c].request>>
  <2>1. At(c, "reading") /\ daemons[callers[c].daemon].out # <<>>
    BY DEF Read
  <2>2. callers[c].daemon \in Opened /\ callers[c].daemon \in Daemons
    BY <1>1, <2>1, TypeFacts DEF Inv, UsersOK
  <2> QED
    BY <1>1, <2>1, <2>2 DEF Inv, ReadersOK
<1>4. /\ Ends(c, callers[c].request)
      /\ daemons' = [daemons EXCEPT ![d].out = Tail(@)]
      /\ lock' = [lock EXCEPT ![d] = None]
      /\ UNCHANGED <<current, starting, requests, seed>>
  <2>1. Head(daemons[d].out) = callers[c].request
    BY <1>3
  <2>2. callers[c].request # Ready
    BY <1>2 DEF Ready
  <2> QED
    BY <1>3, <2>1, <2>2 DEF Read
<1>5. /\ daemons' \in Seq(DaemonRecord) /\ Opened' = Opened
      /\ Len(daemons') = Len(daemons)
      /\ daemons'[d].in = <<>> /\ daemons'[d].out = <<>>
      /\ daemons'[d].open = daemons[d].open /\ daemons'[d].seed = daemons[d].seed
      /\ daemons'[d].ready = daemons[d].ready
      /\ \A e \in Opened : e # d => daemons'[e] = daemons[e]
  <2>1. daemons[d] \in DaemonRecord /\ daemons \in Seq(DaemonRecord)
    BY <1>1, TypeFacts
  <2>2. Tail(daemons[d].out) = <<>>
    BY <1>3
  <2>3. Streams(d, <<>>, <<>>)
    BY <1>3, <1>4, <2>1, <2>2 DEF Streams, DaemonRecord, Opened
  <2>4. <<>> \in Seq(1..MaxRequests) /\ <<>> \in Seq(Line)
    OBVIOUS
  <2> QED
    BY <1>1, <2>3, <2>4, StreamFacts
<1>6. /\ callers' \in [Callers -> CallerRecord]
      /\ \A x \in Callers : x # c => callers'[x] = callers[x]
      /\ callers'[c].at = "idle"
      /\ callers'[c].request = callers[c].request
      /\ callers'[c].result = callers[c].request
  <2>1. callers[c].request \in Line
    BY <1>2 DEF Line
  <2> QED
    BY <1>1, <1>4, <2>1, EndsFacts
<1>7. /\ lock' \in [Daemons -> Callers \cup {None}] /\ lock'[d] = None
      /\ \A e \in Daemons : e # d => lock'[e] = lock[e]
  BY <1>1, <1>3, <1>4, TypeFacts
<1>8. TypeOK'
  BY <1>1, <1>4, <1>5, <1>6, <1>7, SameOpened, TypeNext, TypeFacts DEF TypeOK
<1>9. StarterOK'
  BY <1>1, <1>2, <1>3, <1>4, <1>5, <1>6, <1>7, TypeFacts
    DEF Inv, StarterOK, At
<1>10. LoadingOK'
  BY <1>1, <1>2, <1>3, <1>4, <1>5, <1>6, <1>7, TypeFacts
    DEF Inv, LoadingOK, At
<1>11. OpenOK'
  BY <1>1, <1>2, <1>3, <1>4, <1>5, <1>6, <1>7
    DEF Inv, OpenOK, At
<1>12. CurrentOK'
  BY <1>1, <1>2, <1>3, <1>4, <1>5, <1>6, <1>7, TypeFacts
    DEF Inv, CurrentOK
<1>13. ClosedOK'
  BY <1>1, <1>2, <1>3, <1>4, <1>5, <1>6, <1>7, TypeFacts
    DEF Inv, ClosedOK
<1>14. UsersOK'
  BY <1>1, <1>2, <1>3, <1>4, <1>5, <1>6, <1>7, TypeFacts
    DEF Inv, UsersOK, At
<1>15. ReadersOK'
  <2>1. ReadersKeep
    <3>1. ASSUME NEW x \in Callers, At(x, "reading")'
          PROVE  /\ At(x, "reading") /\ callers'[x] = callers[x]
                 /\ callers[x].daemon \in Opened /\ callers[x].daemon # d
                 /\ callers[x].daemon \in Daemons
      <4>1. x # c /\ At(x, "reading") /\ callers'[x] = callers[x]
        BY <1>6, <3>1 DEF At
      <4> QED
        BY <1>1, <1>3, <4>1, TypeFacts DEF Inv, UsersOK, ReadersOK
    <3> QED
      BY <1>5, <1>7, <3>1 DEF ReadersKeep
  <2> QED
    BY <1>1, <2>1, ReadersKept DEF Inv
<1>16. LocksOK'
  <2>1. ASSUME NEW e \in Daemons, lock'[e] # None
        PROVE  /\ e \in Opened /\ callers'[lock'[e]] = callers[lock'[e]]
               /\ callers[lock'[e]].daemon = e /\ daemons'[e] = daemons[e]
               /\ \/ At(lock'[e], "reading")
                  \/ At(lock'[e], "closing") /\ ~daemons[e].open
    <3>1. e # d /\ lock'[e] = lock[e]
      BY <1>7, <2>1
    <3>2. /\ e \in Opened /\ callers[lock[e]].daemon = e
          /\ \/ At(lock[e], "reading")
             \/ At(lock[e], "closing") /\ ~daemons[e].open
      BY <1>1, <2>1, <3>1 DEF Inv, LocksOK
    <3>3. lock[e] # c /\ lock[e] \in Callers
      BY <1>1, <1>3, <2>1, <3>1, <3>2, TypeFacts
    <3> QED
      BY <1>5, <1>6, <3>1, <3>2, <3>3
  <2> QED
    BY <1>5, <2>1 DEF LocksOK, At
<1>17. RequestsOK'
  BY <1>1, <1>2, <1>3, <1>4, <1>5, <1>6, <1>7
    DEF Inv, RequestsOK, Idle
<1>18. AnswersOwnRequest'
  BY <1>1, <1>2, <1>3, <1>4, <1>5, <1>6, <1>7
    DEF Inv, AnswersOwnRequest
<1> QED
  BY <1>8, <1>9, <1>10, <1>11, <1>12, <1>13, <1>14, <1>15, <1>16, <1>17, <1>18 DEF IInv, Inv

LEMMA HostLoadsStep ==
    ASSUME IInv, NEW d \in Opened, HostLoads(d)
    PROVE  IInv'
<1>1. TypeOK /\ Inv
  BY DEF IInv
<1>2. /\ daemons[d].open /\ d # current
      /\ \A x \in Callers : At(x, "queued") \/ At(x, "reading")
                              => callers[x].daemon \in Opened /\ callers[x].daemon # d
  <2>1. daemons[d].open /\ ~daemons[d].ready
    BY DEF HostLoads, Serving
  <2>2. d # current
    BY <1>1, <2>1, TypeFacts DEF Inv, CurrentOK
  <2>3. PICK y \in Callers : At(y, "starting") /\ callers[y].daemon = d
    BY <1>1, <2>1, <2>2 DEF Inv, OpenOK
  <2> QED
    BY <1>1, <2>1, <2>2, <2>3 DEF Inv, UsersOK
<1>3. PICK line \in {Ready, Broken} :
         daemons' = [daemons EXCEPT ![d].ready = TRUE, ![d].out = <<line>>]
  BY DEF HostLoads
<1>4. /\ daemons' \in Seq(DaemonRecord) /\ Opened' = Opened
      /\ Len(daemons') = Len(daemons)
      /\ daemons'[d].in = daemons[d].in /\ daemons'[d].out = <<line>>
      /\ daemons'[d].open /\ daemons'[d].seed = daemons[d].seed
      /\ daemons'[d].ready
      /\ \A e \in Opened : e # d => daemons'[e] = daemons[e]
  <2> DEFINE r == [daemons[d] EXCEPT !.ready = TRUE, !.out = <<line>>]
  <2>1. daemons[d] \in DaemonRecord /\ daemons \in Seq(DaemonRecord)
    BY <1>1, TypeFacts
  <2>2. <<line>> \in Seq(Line)
    BY DEF Line
  <2>3. /\ r \in DaemonRecord /\ r.in = daemons[d].in /\ r.out = <<line>>
        /\ r.open = daemons[d].open /\ r.seed = daemons[d].seed /\ r.ready
    BY <2>1, <2>2 DEF DaemonRecord
  <2>4. daemons' = [daemons EXCEPT ![d] = r]
    BY <1>3, <2>1 DEF DaemonRecord
  <2> HIDE DEF r
  <2>5. /\ daemons' \in Seq(DaemonRecord) /\ Opened' = Opened
        /\ Len(daemons') = Len(daemons) /\ daemons'[d] = r
        /\ \A e \in Opened : e # d => daemons'[e] = daemons[e]
    BY <2>1, <2>3, <2>4, Update DEF Opened
  <2> QED
    BY <1>2, <2>3, <2>5
<1>5. UNCHANGED <<current, starting, lock, callers, requests, seed>>
  BY DEF HostLoads
<1>6. TypeOK'
  BY <1>1, <1>4, <1>5, SameOpened, TypeNext, TypeFacts DEF TypeOK
<1>7. StarterOK'
  BY <1>1, <1>2, <1>3, <1>4, <1>5, TypeFacts
    DEF Inv, StarterOK, At
<1>8. LoadingOK'
  <2>1. ASSUME NEW x \in Callers, At(x, "starting")'
        PROVE  LET e == callers[x].daemon IN
               /\ callers'[x].daemon = e /\ callers'[x].seed = callers[x].seed
               /\ e \in Opened' /\ daemons'[e].open /\ daemons'[e].seed = callers[x].seed
               /\ lock'[e] = None /\ daemons'[e].in = <<>>
               /\ daemons'[e].out \in IF daemons'[e].ready THEN {<<Ready>>, <<Broken>>}
                                      ELSE {<<>>}
    <3>1. At(x, "starting") /\ LoadingOK
      BY <1>1, <1>5, <2>1 DEF At, Inv
    <3>2. CASE callers[x].daemon = d
      BY <1>3, <1>4, <1>5, <3>1, <3>2 DEF LoadingOK
    <3>3. CASE callers[x].daemon # d
      BY <1>4, <1>5, <3>1, <3>3 DEF LoadingOK
    <3> QED
      BY <3>2, <3>3
  <2> QED
    BY <2>1 DEF LoadingOK
<1>9. OpenOK'
  BY <1>1, <1>2, <1>3, <1>4, <1>5
    DEF Inv, OpenOK, At
<1>10. CurrentOK'
  BY <1>1, <1>2, <1>3, <1>4, <1>5, TypeFacts
    DEF Inv, CurrentOK
<1>11. ClosedOK'
  BY <1>1, <1>2, <1>3, <1>4, <1>5, TypeFacts
    DEF Inv, ClosedOK
<1>12. UsersOK'
  <2>1. UsersOK
    BY <1>1 DEF Inv
  <2> QED
    BY <1>2, <1>4, <1>5, <2>1 DEF UsersOK, At
<1>13. ReadersOK'
  <2>1. ReadersKeep
    BY <1>2, <1>4, <1>5 DEF ReadersKeep, At
  <2> QED
    BY <1>1, <2>1, ReadersKept DEF Inv
<1>14. LocksOK'
  BY <1>1, <1>2, <1>3, <1>4, <1>5, TypeFacts
    DEF Inv, LocksOK, At
<1>15. RequestsOK'
  BY <1>1, <1>2, <1>3, <1>4, <1>5
    DEF Inv, RequestsOK, Idle
<1>16. AnswersOwnRequest'
  BY <1>1, <1>2, <1>3, <1>4, <1>5
    DEF Inv, AnswersOwnRequest
<1> QED
  BY <1>6, <1>7, <1>8, <1>9, <1>10, <1>11, <1>12, <1>13, <1>14, <1>15, <1>16 DEF IInv, Inv

LEMMA HostAnswersStep ==
    ASSUME IInv, NEW d \in Opened, HostAnswers(d)
    PROVE  IInv'
<1>1. TypeOK /\ Inv
  BY DEF IInv
<1>2. PICK c \in Callers :
         /\ At(c, "reading") /\ callers[c].daemon = d /\ lock[d] = c
         /\ daemons[d].open
         /\ daemons[d].in = <<callers[c].request>> /\ daemons[d].out = <<>>
  <2>1. daemons[d].open /\ daemons[d].in # <<>>
    BY DEF HostAnswers, Serving
  <2>2. d = current
    BY <1>1, <2>1 DEF Inv, OpenOK, LoadingOK
  <2>3. lock[d] # None /\ lock[d] \in Callers /\ d \in Daemons
    BY <1>1, <2>1, <2>2, TypeFacts DEF Inv, CurrentOK
  <2>4. At(lock[d], "reading") /\ callers[lock[d]].daemon = d
    BY <1>1, <2>1, <2>3 DEF Inv, LocksOK
  <2> QED
    BY <1>1, <2>1, <2>3, <2>4 DEF Inv, ReadersOK
<1>3. callers[c].request \in 1..MaxRequests
  <2>1. callers[c].request \in 0..MaxRequests
    BY <1>1, <1>2, TypeFacts DEF CallerRecord
  <2> QED
    BY <1>1, <1>2, <2>1, TypeFacts DEF Inv, RequestsOK, Idle, At
<1>4. /\ daemons' \in Seq(DaemonRecord) /\ Opened' = Opened
      /\ Len(daemons') = Len(daemons)
      /\ daemons'[d].in = <<>> /\ daemons'[d].out = <<callers[c].request>>
      /\ daemons'[d].open = daemons[d].open /\ daemons'[d].seed = daemons[d].seed
      /\ daemons'[d].ready = daemons[d].ready
      /\ \A e \in Opened : e # d => daemons'[e] = daemons[e]
  <2>1. daemons[d] \in DaemonRecord /\ daemons \in Seq(DaemonRecord)
    BY <1>1, TypeFacts
  <2>2. /\ Tail(daemons[d].in) = <<>> /\ Head(daemons[d].in) = callers[c].request
        /\ Append(daemons[d].out, Head(daemons[d].in)) = <<callers[c].request>>
    BY <1>2, <1>3, Single
  <2>3. Streams(d, <<>>, <<callers[c].request>>)
    BY <2>1, <2>2 DEF HostAnswers, Streams, DaemonRecord, Opened
  <2>4. <<>> \in Seq(1..MaxRequests) /\ <<callers[c].request>> \in Seq(Line)
    BY <1>3 DEF Line
  <2> QED
    BY <1>1, <2>3, <2>4, StreamFacts
<1>5. UNCHANGED <<current, starting, lock, callers, requests, seed>>
  BY DEF HostAnswers
<1>6. TypeOK'
  BY <1>1, <1>4, <1>5, SameOpened, TypeNext, TypeFacts DEF TypeOK
<1>7. StarterOK'
  BY <1>1, <1>2, <1>3, <1>4, <1>5, TypeFacts
    DEF Inv, StarterOK, At
<1>8. LoadingOK'
  BY <1>1, <1>2, <1>3, <1>4, <1>5
    DEF Inv, LoadingOK, At, UsersOK
<1>9. OpenOK'
  BY <1>1, <1>2, <1>3, <1>4, <1>5
    DEF Inv, OpenOK, At
<1>10. CurrentOK'
  <2>1. CurrentOK /\ (current # None => current \in Opened) /\ lock[d] # None
    BY <1>1, <1>2, TypeFacts DEF Inv
  <2> QED
    BY <1>4, <1>5, <2>1 DEF CurrentOK
<1>11. ClosedOK'
  <2>1. ClosedOK
    BY <1>1 DEF Inv
  <2> QED
    BY <1>2, <1>4, <2>1 DEF ClosedOK
<1>12. UsersOK'
  BY <1>1, <1>2, <1>3, <1>4, <1>5
    DEF Inv, UsersOK, At
<1>13. ReadersOK'
  <2>1. ASSUME NEW x \in Callers, At(x, "reading")'
        PROVE  LET e == daemons'[callers'[x].daemon] IN
               /\ lock'[callers'[x].daemon] = x
               /\ \/ e.in = <<>> /\ e.out \in {<<>>, <<callers'[x].request>>}
                  \/ e.in = <<callers'[x].request>> /\ e.out = <<>>
    <3>1. At(x, "reading") /\ callers'[x] = callers[x] /\ callers[x].daemon \in Opened
      BY <1>1, <1>5, <2>1 DEF At, Inv, UsersOK
    <3>2. ReadersOK
      BY <1>1 DEF Inv
    <3>3. CASE callers[x].daemon = d
      <4>1. x = c
        BY <1>2, <3>1, <3>2, <3>3 DEF ReadersOK
      <4> QED
        BY <1>2, <1>4, <1>5, <4>1
    <3>4. CASE callers[x].daemon # d
      <4>1. daemons'[callers[x].daemon] = daemons[callers[x].daemon]
        BY <1>4, <3>1, <3>4
      <4> QED
        BY <1>5, <3>1, <3>2, <4>1 DEF ReadersOK
    <3> QED
      BY <3>3, <3>4
  <2> QED
    BY <2>1 DEF ReadersOK
<1>14. LocksOK'
  BY <1>1, <1>2, <1>3, <1>4, <1>5, TypeFacts
    DEF Inv, LocksOK, At
<1>15. RequestsOK'
  BY <1>1, <1>2, <1>3, <1>4, <1>5
    DEF Inv, RequestsOK, Idle
<1>16. AnswersOwnRequest'
  BY <1>1, <1>2, <1>3, <1>4, <1>5
    DEF Inv, AnswersOwnRequest
<1> QED
  BY <1>6, <1>7, <1>8, <1>9, <1>10, <1>11, <1>12, <1>13, <1>14, <1>15, <1>16 DEF IInv, Inv

LEMMA HostDiesStep ==
    ASSUME IInv, NEW d \in Opened, HostDies(d)
    PROVE  IInv'
<1>1. TypeOK /\ Inv
  BY DEF IInv
<1>2. /\ daemons' \in Seq(DaemonRecord) /\ Opened' = Opened
      /\ Len(daemons') = Len(daemons)
      /\ daemons'[d].in = <<>> /\ daemons'[d].out = daemons[d].out
      /\ daemons'[d].open /\ daemons[d].open /\ daemons'[d].seed = daemons[d].seed
      /\ daemons'[d].ready = daemons[d].ready
      /\ \A e \in Opened : e # d => daemons'[e] = daemons[e]
  <2> DEFINE r == [daemons[d] EXCEPT !.alive = FALSE, !.in = <<>>]
  <2>1. daemons[d] \in DaemonRecord /\ daemons \in Seq(DaemonRecord)
    BY <1>1, TypeFacts
  <2>2. <<>> \in Seq(1..MaxRequests)
    OBVIOUS
  <2>3. /\ r \in DaemonRecord /\ r.in = <<>> /\ r.out = daemons[d].out
        /\ r.open = daemons[d].open /\ r.seed = daemons[d].seed
        /\ r.ready = daemons[d].ready
    BY <2>1, <2>2 DEF DaemonRecord
  <2>4. daemons' = [daemons EXCEPT ![d] = r] /\ daemons[d].open
    BY <2>1 DEF HostDies, Serving, DaemonRecord
  <2> HIDE DEF r
  <2>5. /\ daemons' \in Seq(DaemonRecord) /\ Opened' = Opened
        /\ Len(daemons') = Len(daemons) /\ daemons'[d] = r
        /\ \A e \in Opened : e # d => daemons'[e] = daemons[e]
    BY <2>1, <2>3, <2>4, Update DEF Opened
  <2> QED
    BY <2>3, <2>4, <2>5
<1>3. UNCHANGED <<current, starting, lock, callers, requests, seed>>
  BY DEF HostDies
<1>4. TypeOK'
  BY <1>1, <1>2, <1>3, SameOpened, TypeNext, TypeFacts DEF TypeOK
<1>5. StarterOK'
  BY <1>1, <1>2, <1>3, TypeFacts
    DEF Inv, StarterOK, At
<1>6. LoadingOK'
  BY <1>1, <1>2, <1>3
    DEF Inv, LoadingOK, At
<1>7. OpenOK'
  BY <1>1, <1>2, <1>3
    DEF Inv, OpenOK, At
<1>8. CurrentOK'
  BY <1>1, <1>2, <1>3, TypeFacts
    DEF Inv, CurrentOK
<1>9. ClosedOK'
  BY <1>1, <1>2, <1>3, TypeFacts
    DEF Inv, ClosedOK
<1>10. UsersOK'
  BY <1>1, <1>2, <1>3
    DEF Inv, UsersOK, At
<1>11. ReadersOK'
  <2>1. ASSUME NEW x \in Callers, At(x, "reading")
        PROVE  /\ callers[x].daemon \in Opened
               /\ daemons'[callers[x].daemon].out = daemons[callers[x].daemon].out
               /\ daemons'[callers[x].daemon].in
                     \in {<<>>, daemons[callers[x].daemon].in}
    BY <1>1, <1>2, <2>1 DEF Inv, UsersOK
  <2>2. ReadersOK
    BY <1>1 DEF Inv
  <2> QED
    BY <1>3, <2>1, <2>2 DEF ReadersOK, At
<1>12. LocksOK'
  BY <1>1, <1>2, <1>3, TypeFacts
    DEF Inv, LocksOK, At
<1>13. RequestsOK'
  BY <1>1, <1>2, <1>3
    DEF Inv, RequestsOK, Idle
<1>14. AnswersOwnRequest'
  BY <1>1, <1>2, <1>3
    DEF Inv, AnswersOwnRequest
<1> QED
  BY <1>4, <1>5, <1>6, <1>7, <1>8, <1>9, <1>10, <1>11, <1>12, <1>13, <1>14 DEF IInv, Inv

LEMMA TickStep ==
    ASSUME IInv, Tick
    PROVE  IInv'
<1>1. TypeOK /\ Inv
  BY DEF IInv
<1>2. /\ DOMAIN daemons' = Opened /\ Opened' = Opened /\ daemons' \in Seq(DaemonRecord)
      /\ Len(daemons') = Len(daemons)
      /\ \A d \in Opened : /\ daemons'[d].open = daemons[d].open
                            /\ daemons'[d].ready = daemons[d].ready
                            /\ daemons'[d].seed = daemons[d].seed
                            /\ daemons'[d].in = daemons[d].in
                            /\ daemons'[d].out = daemons[d].out
  <2> DEFINE older(d) == IF Serving(d) /\ ~daemons[d].ready
                         THEN [daemons[d] EXCEPT !.age = @ + 1] ELSE daemons[d]
  <2>1. ASSUME NEW d \in Opened
        PROVE  /\ older(d) \in DaemonRecord /\ older(d).open = daemons[d].open
               /\ older(d).ready = daemons[d].ready /\ older(d).seed = daemons[d].seed
               /\ older(d).in = daemons[d].in /\ older(d).out = daemons[d].out
    <3>1. daemons[d] \in DaemonRecord
      BY <1>1, TypeFacts
    <3>2. CASE Serving(d) /\ ~daemons[d].ready
      <4>1. d # current
        BY <1>1, <3>2, TypeFacts DEF Inv, CurrentOK
      <4>2. PICK y \in Callers : At(y, "starting") /\ callers[y].daemon = d
        BY <1>1, <3>2, <4>1 DEF Inv, OpenOK, Serving
      <4>3. ~TimedOut(y)
        BY <4>2 DEF Tick, Idle, At
      <4>4. daemons[d].age \in 0..ReadyTimeout /\ daemons[d].age < ReadyTimeout
        BY <3>1, <4>2, <4>3, BoundAssumption DEF TimedOut, DaemonRecord
      <4>5. daemons[d].age + 1 \in 0..ReadyTimeout
        BY <4>4, BoundAssumption
      <4> QED
        BY <3>1, <3>2, <4>5 DEF DaemonRecord
    <3>3. CASE ~(Serving(d) /\ ~daemons[d].ready)
      BY <3>1, <3>3
    <3> QED
      BY <3>2, <3>3
  <2>2. daemons' = [d \in Opened |-> older(d)] /\ Opened = 1..Len(daemons)
    BY <1>1, TypeFacts DEF Tick
  <2> HIDE DEF older
  <2>3. Len(daemons) \in Nat
    BY <1>1, TypeFacts
  <2>4. daemons' \in Seq(DaemonRecord) /\ DOMAIN daemons' = Opened
    BY <2>1, <2>2, <2>3
  <2>5. Len(daemons') = Len(daemons)
    BY <2>2, <2>3, <2>4
  <2> QED
    BY <2>1, <2>2, <2>4, <2>5 DEF Opened
<1>3. /\ callers' \in [Callers -> CallerRecord]
      /\ \A x \in Callers : /\ callers'[x].at = callers[x].at
                            /\ callers'[x].request = callers[x].request
                            /\ callers'[x].seed = callers[x].seed
                            /\ callers'[x].daemon = callers[x].daemon
                            /\ callers'[x].result = callers[x].result
  <2> DEFINE later(x) == IF Idle(x) THEN callers[x]
                         ELSE [callers[x] EXCEPT !.waited = @ + 1]
  <2>1. ASSUME NEW x \in Callers
        PROVE  /\ later(x) \in CallerRecord /\ later(x).at = callers[x].at
               /\ later(x).request = callers[x].request
               /\ later(x).seed = callers[x].seed
               /\ later(x).daemon = callers[x].daemon
               /\ later(x).result = callers[x].result
    <3>1. callers[x] \in CallerRecord
      BY <1>1, TypeFacts
    <3>2. CASE ~Idle(x)
      <4>1. callers[x].waited \in 0..ComputeTimeout /\ callers[x].waited < ComputeTimeout
        BY <3>1, <3>2, BoundAssumption DEF Tick, TimedOut, CallerRecord
      <4>2. callers[x].waited + 1 \in 0..ComputeTimeout
        BY <4>1, BoundAssumption
      <4> QED
        BY <3>1, <3>2, <4>2 DEF CallerRecord
    <3>3. CASE Idle(x)
      BY <3>1, <3>3
    <3> QED
      BY <3>2, <3>3
  <2>2. callers' = [x \in Callers |-> later(x)]
    BY DEF Tick
  <2> HIDE DEF later
  <2> QED
    BY <2>1, <2>2
<1>4. UNCHANGED <<current, starting, lock, requests, seed>>
  BY DEF Tick
<1>5. TypeOK'
  BY <1>1, <1>2, <1>3, <1>4, SameOpened, TypeNext, TypeFacts DEF TypeOK
<1>6. StarterOK'
  BY <1>1, <1>2, <1>3, <1>4, TypeFacts
    DEF Inv, StarterOK, At
<1>7. LoadingOK'
  BY <1>1, <1>2, <1>3, <1>4
    DEF Inv, LoadingOK, At
<1>8. OpenOK'
  BY <1>1, <1>2, <1>3, <1>4
    DEF Inv, OpenOK, At
<1>9. CurrentOK'
  BY <1>1, <1>2, <1>3, <1>4, TypeFacts
    DEF Inv, CurrentOK
<1>10. ClosedOK'
  BY <1>1, <1>2, <1>3, <1>4, TypeFacts
    DEF Inv, ClosedOK
<1>11. UsersOK'
  BY <1>1, <1>2, <1>3, <1>4
    DEF Inv, UsersOK, At
<1>12. ReadersOK'
  BY <1>1, <1>2, <1>3, <1>4
    DEF Inv, ReadersOK, At, UsersOK
<1>13. LocksOK'
  BY <1>1, <1>2, <1>3, <1>4, TypeFacts
    DEF Inv, LocksOK, At
<1>14. RequestsOK'
  BY <1>1, <1>2, <1>3, <1>4
    DEF Inv, RequestsOK, Idle
<1>15. AnswersOwnRequest'
  BY <1>1, <1>2, <1>3, <1>4
    DEF Inv, AnswersOwnRequest
<1> QED
  BY <1>5, <1>6, <1>7, <1>8, <1>9, <1>10, <1>11, <1>12, <1>13, <1>14, <1>15 DEF IInv, Inv

-----------------------------------------------------------------------------
(* The theorems. *)

LEMMA InitInv ==
    Init => IInv
<1> SUFFICES ASSUME Init PROVE IInv
  OBVIOUS
<1>1. Opened = {} /\ \A c \in Callers : callers[c].at = "idle"
  BY DEF Init, Opened
<1>2. TypeOK
  BY BoundAssumption DEF Init, TypeOK, Opened, None, Failed
<1>3. StarterOK /\ LocksOK
  BY <1>1, BoundAssumption DEF Init, StarterOK, LocksOK, At, None
<1>4. LoadingOK /\ UsersOK /\ ReadersOK /\ RequestsOK
  BY <1>1 DEF LoadingOK, UsersOK, ReadersOK, RequestsOK, At, Idle
<1>5. OpenOK /\ CurrentOK /\ ClosedOK
  BY <1>1 DEF Init, OpenOK, CurrentOK, ClosedOK
<1>6. AnswersOwnRequest
  BY DEF Init, AnswersOwnRequest
<1> QED
  BY <1>2, <1>3, <1>4, <1>5, <1>6 DEF IInv, Inv

LEMMA StutterStep ==
    ASSUME IInv, UNCHANGED vars PROVE IInv'
  BY DEF IInv, Inv, vars, TypeOK, StarterOK, LoadingOK, OpenOK, CurrentOK, ClosedOK,
         UsersOK, ReadersOK, LocksOK, RequestsOK, AnswersOwnRequest, At, Idle, Opened

LEMMA NextInv ==
    IInv /\ [Next]_vars => IInv'
<1> SUFFICES ASSUME IInv, [Next]_vars PROVE IInv'
  OBVIOUS
<1>1. ASSUME NEW c \in Callers, Begin(c) PROVE IInv'
  BY <1>1, BeginStep
<1>2. ASSUME NEW c \in Callers, Step(c) PROVE IInv'
  BY <1>2, TakeStep, ReplaceStep, StartFirstStep, ConnectStep, ConnectFailsStep,
     StartedStep, ReadStep, GiveUpStep, CloseStep, GoAwayStep DEF Step
<1>3. CASE ReleaseIdle
  BY <1>3, ReleaseIdleStep
<1>4. ASSUME NEW d \in Opened, HostLoads(d) \/ HostAnswers(d) \/ HostDies(d) PROVE IInv'
  BY <1>4, HostLoadsStep, HostAnswersStep, HostDiesStep
<1>5. CASE Regenerate
  BY <1>5, RegenerateStep
<1>6. CASE Tick
  BY <1>6, TickStep
<1>7. CASE UNCHANGED vars
  BY <1>7, StutterStep
<1> QED
  BY <1>1, <1>2, <1>3, <1>4, <1>5, <1>6, <1>7 DEF Next

LEMMA InvHolds ==
    Spec => []IInv
  BY InitInv, NextInv, PTL DEF Spec

\* Every variable keeps its type; no caller waits past its limit, no start either.
THEOREM SessionTypes ==
    Spec => []TypeOK
<1>1. IInv => TypeOK
  BY DEF IInv
<1> QED
  BY <1>1, InvHolds, PTL

\* A computation that ends with an answer ends with its own, whoever gave up,
\* was cut short or closed the daemon meanwhile.
THEOREM AnswersAreOwn ==
    Spec => []AnswersOwnRequest
<1>1. IInv => AnswersOwnRequest
  BY DEF IInv, Inv
<1> QED
  BY <1>1, InvHolds, PTL

\* The stream of the daemon at hand is in step.
THEOREM StreamInStep ==
    Spec => []InStep
<1>1. IInv => InStep
  <2> SUFFICES ASSUME IInv, current # None
               PROVE  LET d == daemons[current] IN
                      /\ d.open /\ d.ready
                      /\ lock[current] = None => d.in \o d.out = <<>>
                      /\ \A c \in Callers :
                            lock[current] = c /\ At(c, "reading")
                              => d.in \o d.out \in {<<>>, <<callers[c].request>>}
    BY DEF InStep
  <2>1. TypeOK /\ Inv /\ current \in Opened /\ current \in Daemons
    BY TypeFacts DEF IInv
  <2>2. daemons[current].open /\ daemons[current].ready
    BY <2>1 DEF Inv, CurrentOK
  <2>3. lock[current] = None => daemons[current].in \o daemons[current].out = <<>>
    <3>1. lock[current] = None => daemons[current].in = <<>> /\ daemons[current].out = <<>>
      BY <2>1 DEF Inv, CurrentOK
    <3>2. <<>> \o <<>> = <<>>
      OBVIOUS
    <3> QED
      BY <3>1, <3>2
  <2>4. ASSUME NEW c \in Callers, lock[current] = c, At(c, "reading")
        PROVE  daemons[current].in \o daemons[current].out
                 \in {<<>>, <<callers[c].request>>}
    <3>1. lock[current] # None /\ callers[c].daemon = current
      BY <2>1, <2>4, TypeFacts DEF Inv, LocksOK
    <3>2. \/ daemons[current].in = <<>>
             /\ daemons[current].out \in {<<>>, <<callers[c].request>>}
          \/ daemons[current].in = <<callers[c].request>> /\ daemons[current].out = <<>>
      BY <2>1, <2>4, <3>1 DEF Inv, ReadersOK
    <3>3. callers[c].request \in Nat
      BY <2>1, TypeFacts, BoundAssumption DEF CallerRecord
    <3>4. \A n \in Nat : <<>> \o <<n>> = <<n>> /\ <<n>> \o <<>> = <<n>> /\ <<>> \o <<>> = <<>>
      OBVIOUS
    <3> QED
      BY <3>2, <3>3, <3>4
  <2> QED
    BY <2>2, <2>3, <2>4
<1> QED
  BY <1>1, InvHolds, PTL

\* At most one daemon is up, starting ones included.
THEOREM OneIsUp ==
    Spec => []OneDaemon
<1>1. IInv => OneDaemon
  <2> SUFFICES ASSUME IInv PROVE OneDaemon
    OBVIOUS
  <2> DEFINE up == {d \in Opened : daemons[d].open}
  <2>1. TypeOK /\ Inv
    BY DEF IInv
  <2>2. ASSUME NEW d \in up, NEW e \in up PROVE d = e
    BY <2>1, TypeFacts DEF Inv, OpenOK, StarterOK
  <2>3. CASE up = {}
    BY <2>3, FS_EmptySet DEF OneDaemon
  <2>4. CASE up # {}
    <3>1. PICK d \in up : TRUE
      BY <2>4
    <3>2. up = {d}
      BY <2>2, <3>1
    <3>3. Cardinality(up) = 1
      BY <3>2, FS_Singleton
    <3> QED
      BY <3>3 DEF OneDaemon
  <2> QED
    BY <2>3, <2>4
<1> QED
  BY <1>1, InvHolds, PTL

\* Only a daemon on the seed the caller saw computes for it.
THEOREM SeedIsRight ==
    Spec => []RightSeed
<1>1. IInv => RightSeed
  BY DEF IInv, Inv, UsersOK, RightSeed
<1> QED
  BY <1>1, InvHolds, PTL
=============================================================================
