-------------------------- MODULE TaskEvents_proofs --------------------------
(***************************************************************************)
(* What holds of requests, workers and task events for any brains and      *)
(* requests and any number of faults and deaths: for any apps the type     *)
(* invariant, that no command takes effect more than twice, and that an    *)
(* answer is the last word while one thing goes wrong at most; for one app *)
(* that its files are true, and that an answer is recorded.                *)
(***************************************************************************)
EXTENDS TaskEvents, SequenceTheorems, TLAPS

\* The types are inductive with the places of the parts of the code: only a
\* worker that serves a request looks up its brain.
TypeInvariant == TypeOK /\ PlacesFit

Fit(w) == w \in Worker /\ PlaceFits(w)

\* What a step of a worker leaves of its process.
ProcessFits ==
    /\ child \in [Apps -> {"none", "alive", "dead"}]
    /\ lines \in [Apps -> Seq(Requests)]
    /\ worker \in [Apps -> Worker]
    /\ PlacesFit
    /\ lock \in [Brains -> Apps \cup {NoApp}]

LEMMA RecordsTyped ==
    /\ NoEvent \in Event
    /\ NoMirror \in Mirror
    /\ Fit(Idle)
<1>1. NoEvent \in Event
  BY DEF NoEvent, Event, Statuses
<1>2. NoMirror \in Mirror
  BY <1>1 DEF NoMirror, Mirror
<1>3. Idle \in Worker
  BY <1>2 DEF Idle, Worker, Places, Parts, Statuses
<1>4. PlaceFits(Idle)
  BY DEF Idle, PlaceFits, Publishing
<1> QED
  BY <1>1, <1>2, <1>3, <1>4 DEF Fit

\* What the record of a brain keeps is the end of the history there was, and the
\* new entry; only a full history loses entries.
EndOf(n, h, e, d) ==
    /\ Len(n) + d = Len(h) + 1
    /\ d > 0 => Len(n) = MirrorLimit
    /\ \A i \in 1..Len(n) : n[i] = IF i = Len(n) THEN e ELSE h[i + d]

\* Positions before and after the oldest d entries are dropped.
LEMMA Shifted ==
    ASSUME NEW x \in Nat, NEW y \in Nat, NEW d \in Nat, x + d = y + 1
    PROVE  /\ \A i \in 1..x : i # x => i + d \in 1..y
           /\ \A j \in 1..y : j - d >= 1 => j - d \in 1..x /\ j - d # x /\ (j - d) + d = j
           /\ \A i \in 1..x, j \in 1..y : i + d <= j => i <= j - d /\ j - d >= 1
           /\ d = 0 => x = y + 1
  OBVIOUS

Longer(h, e) == Recent(Append(h, e))

\* history[-MirrorLimit:] of a history with one more entry.
LEMMA RecentHistory ==
    ASSUME NEW h \in Seq(Event), NEW e \in Event, NEW n, n = Longer(h, e)
    PROVE  /\ n \in Seq(Event) /\ Len(n) \in Nat /\ Len(h) \in Nat
           /\ DOMAIN n = 1..Len(n) /\ DOMAIN h = 1..Len(h)
           /\ Len(n) > 0 /\ Len(n) <= MirrorLimit
           /\ \E d \in Nat : EndOf(n, h, e, d)
<1> PICK a : a = Append(h, e)
  OBVIOUS
<1>0. n = Recent(a)
  BY DEF Longer
<1>1. /\ a \in Seq(Event) /\ Len(a) = Len(h) + 1 /\ Len(h) \in Nat
      /\ \A i \in 1..Len(h) : a[i] = h[i]
      /\ a[Len(h) + 1] = e
  OBVIOUS
<1>2. MirrorLimit \in Nat /\ MirrorLimit > 0 /\ Len(a) \in Nat
  BY <1>1, TaskAssumption
<1>3. CASE Len(a) <= MirrorLimit
  <2>1. n = a
    BY <1>0, <1>3 DEF Recent
  <2>2. EndOf(n, h, e, 0)
    BY <1>1, <2>1 DEF EndOf
  <2> QED
    BY <1>1, <1>3, <2>1, <2>2
<1>4. CASE Len(a) > MirrorLimit
  <2>0. Len(a) - MirrorLimit + 1 \in Nat
    BY <1>2, <1>4
  <2> PICK m \in Nat : m = Len(a) - MirrorLimit + 1
    BY <2>0
  <2>2. /\ m >= 2 /\ m <= Len(a) /\ Len(a) - m + 1 = MirrorLimit
        /\ m \in 1..Len(a) + 1 /\ Len(a) \in m - 1..Len(a)
    BY <1>2, <1>4
  <2>1. n = SubSeq(a, m, Len(a))
    <3>1. ~(Len(a) <= MirrorLimit)
      BY <1>2, <1>4
    <3> QED
      BY <1>0, <3>1 DEF Recent
  <2>3. /\ n \in Seq(Event) /\ Len(n) = Len(a) - m + 1
        /\ \A i \in 1..Len(n) : n[i] = a[m + i - 1]
    <3>1. a \in Seq(Event) /\ m \in 1..Len(a) + 1 /\ Len(a) \in m - 1..Len(a)
      BY <1>1, <2>2
    <3>2. /\ SubSeq(a, m, Len(a)) \in Seq(Event)
          /\ Len(SubSeq(a, m, Len(a))) = IF m <= Len(a) THEN Len(a) - m + 1 ELSE 0
          /\ \A i \in 1..Len(a) - m + 1 : SubSeq(a, m, Len(a))[i] = a[m + i - 1]
      BY <3>1, SubSeqProperties, SMTT(30)
    <3> QED
      BY <2>1, <2>2, <3>2
  <2>4. /\ Len(n) = MirrorLimit /\ m - 1 \in Nat
        /\ Len(n) + (m - 1) = Len(h) + 1
    BY <1>1, <1>2, <2>2, <2>3
  <2>5. ASSUME NEW i \in 1..Len(n)
        PROVE  n[i] = IF i = Len(n) THEN e ELSE h[i + (m - 1)]
    <3>1. i \in Nat /\ i >= 1 /\ i <= Len(n)
      BY <1>2, <2>4
    <3>2. m + i - 1 = i + (m - 1)
      BY <3>1
    <3>3. CASE i = Len(n)
      <4>1. m + i - 1 = Len(h) + 1
        BY <2>4, <3>2, <3>3
      <4> QED
        BY <1>1, <2>3, <3>3, <4>1
    <3>4. CASE i # Len(n)
      <4>1. i + (m - 1) \in 1..Len(h)
        BY <1>1, <1>2, <2>4, <3>1, <3>4
      <4> QED
        BY <1>1, <2>3, <3>2, <3>4, <4>1
    <3> QED
      BY <3>3, <3>4
  <2>6. EndOf(n, h, e, m - 1)
    BY <2>4, <2>5 DEF EndOf
  <2> QED
    BY <1>1, <1>2, <2>3, <2>4, <2>6
<1> QED
  BY <1>1, <1>2, <1>3, <1>4

\* Every entry that is kept was there, or is the new one.
LEMMA RecentEntries ==
    ASSUME NEW h \in Seq(Event), NEW e \in Event, NEW n, n = Longer(h, e)
    PROVE  \A i \in DOMAIN n : n[i] = e \/ \E j \in DOMAIN h : n[i] = h[j]
<1>1. n \in Seq(Event) /\ Len(n) \in Nat /\ Len(h) \in Nat
  BY RecentHistory
<1>6. DOMAIN n = 1..Len(n) /\ DOMAIN h = 1..Len(h)
  BY RecentHistory
<1>2. PICK d \in Nat : EndOf(n, h, e, d)
  BY RecentHistory
<1>3. ASSUME NEW i \in 1..Len(n), i # Len(n)
      PROVE  i + d \in 1..Len(h)
  <2>1. Len(n) + d = Len(h) + 1
    BY <1>2 DEF EndOf
  <2> PICK x \in Nat, y \in Nat : x = Len(n) /\ y = Len(h)
    BY <1>1
  <2>2. x + d = y + 1 /\ i \in 1..x /\ i # x
    BY <1>3, <2>1
  <2>3. i + d \in 1..y
    BY <2>2, Shifted
  <2> QED
    BY <2>3
<1>4. \A i \in 1..Len(n) : n[i] = IF i = Len(n) THEN e ELSE h[i + d]
  BY <1>2 DEF EndOf
<1>5. ASSUME NEW i \in 1..Len(n)
      PROVE  n[i] = e \/ \E j \in 1..Len(h) : n[i] = h[j]
  BY <1>3, <1>4
<1> QED
  BY <1>5, <1>6

Values(h) == {h[i] : i \in DOMAIN h}

\* The same, of the sets of entries.
LEMMA KeptValues ==
    ASSUME NEW h \in Seq(Event), NEW e \in Event
    PROVE  Values(Longer(h, e)) \subseteq Values(h) \cup {e}
BY RecentEntries DEF Values

\* A completed entry that is new is the last that is said of its request;
LEMMA NowCompleted ==
    ASSUME NEW h \in Seq(Event), NEW e \in Event, NEW n, n = Longer(h, e),
           NEW r, e.task = r, e.status = "completed"
    PROVE  SaysCompleted(n, r)
<1>1. Len(n) \in Nat /\ Len(n) > 0 /\ DOMAIN n = 1..Len(n)
  BY RecentHistory
<1>2. n[Len(n)] = e
  <2>1. PICK d \in Nat : EndOf(n, h, e, d)
    BY RecentHistory
  <2>2. Len(n) \in 1..Len(n)
    BY <1>1
  <2> QED
    BY <2>1, <2>2 DEF EndOf
<1>3. Len(n) \in {i \in DOMAIN n : n[i].task = r} /\ \A j \in DOMAIN n : j <= Len(n)
  BY <1>1, <1>2
<1> QED
  BY <1>2, <1>3 DEF SaysCompleted

\* and an entry about another request leaves what is said, or pushes it out.
LEMMA StillCompleted ==
    ASSUME NEW h \in Seq(Event), NEW e \in Event, NEW n, n = Longer(h, e),
           NEW r, e.task # r, SaysCompleted(h, r)
    PROVE  SaysCompleted(n, r)
<1>1. /\ n \in Seq(Event) /\ Len(n) \in Nat /\ Len(h) \in Nat /\ Len(n) <= MirrorLimit
  BY RecentHistory
<1>10. DOMAIN n = 1..Len(n) /\ DOMAIN h = 1..Len(h)
  BY RecentHistory
<1>2. PICK d \in Nat : EndOf(n, h, e, d)
  BY RecentHistory
<1>9. Len(n) + d = Len(h) + 1 /\ (d > 0 => Len(n) = MirrorLimit)
  BY <1>2 DEF EndOf
<1>3. \A i \in 1..Len(n) : n[i] = IF i = Len(n) THEN e ELSE h[i + d]
  BY <1>2 DEF EndOf
<1>8. /\ \A i \in 1..Len(n) : i # Len(n) => i + d \in 1..Len(h)
      /\ \A j \in 1..Len(h) :
             j - d >= 1 => j - d \in 1..Len(n) /\ j - d # Len(n) /\ (j - d) + d = j
      /\ \A i \in 1..Len(n), j \in 1..Len(h) : i + d <= j => i <= j - d /\ j - d >= 1
      /\ d = 0 => Len(n) = Len(h) + 1
  <2> PICK x \in Nat, y \in Nat : x = Len(n) /\ y = Len(h)
    BY <1>1
  <2>1. x + d = y + 1
    BY <1>9
  <2> QED
    BY <2>1, Shifted
<1> DEFINE mine == {i \in DOMAIN h : h[i].task = r}
           ours == {i \in DOMAIN n : n[i].task = r}
<1>4. ASSUME NEW i \in ours
      PROVE  i \in 1..Len(n) /\ i + d \in mine
  <2>1. i \in 1..Len(n) /\ n[i].task = r
    BY <1>10
  <2>2. i # Len(n) /\ n[i] = h[i + d]
    BY <1>3, <2>1
  <2>3. i + d \in 1..Len(h)
    BY <1>8, <2>1, <2>2
  <2> QED
    BY <1>10, <2>1, <2>2, <2>3
<1>5. ASSUME NEW j \in mine, j - d >= 1
      PROVE  j - d \in ours /\ n[j - d] = h[j]
  <2>1. j \in 1..Len(h) /\ h[j].task = r
    BY <1>10
  <2>2. j - d \in 1..Len(n) /\ j - d # Len(n) /\ (j - d) + d = j
    BY <1>8, <1>5, <2>1
  <2>3. n[j - d] = h[j]
    BY <1>3, <2>2
  <2> QED
    BY <1>10, <2>1, <2>2, <2>3
<1>6. CASE ours = {}
  <2>1. CASE d > 0
    BY <1>9, <1>6, <2>1 DEF SaysCompleted
  <2>2. CASE d = 0
    <3>1. ASSUME NEW j \in mine PROVE FALSE
      <4>1. j \in 1..Len(h) /\ j - d >= 1
        BY <1>10, <2>2
      <4> QED
        BY <1>5, <1>6, <4>1
    <3>2. Len(h) = MirrorLimit
      BY <3>1 DEF SaysCompleted
    <3> QED
      <4>1. Len(n) = Len(h) + 1
        BY <1>8, <2>2
      <4> QED
        BY <1>1, <3>2, <4>1
  <2> QED
    BY <2>1, <2>2
<1>7. CASE ours # {}
  <2>1. PICK k \in ours : TRUE
    BY <1>7
  <2>2. k + d \in mine /\ k \in 1..Len(n)
    BY <1>4, <2>1
  <2>3. PICK i \in mine : h[i].status = "completed" /\ \A j \in mine : j <= i
    BY <2>2 DEF SaysCompleted
  <2>4. i \in 1..Len(h) /\ k + d <= i
    BY <1>10, <2>2, <2>3
  <2>5. i - d >= 1
    BY <1>8, <2>2, <2>4
  <2>6. i - d \in ours /\ n[i - d].status = "completed"
    BY <1>5, <2>3, <2>5
  <2>7. ASSUME NEW j \in ours PROVE j <= i - d
    <3>1. j + d <= i /\ j \in 1..Len(n)
      BY <1>4, <2>3
    <3> QED
      BY <1>8, <2>4, <3>1
  <2> QED
    BY <1>7, <2>6, <2>7 DEF SaysCompleted
<1> QED
  BY <1>6, <1>7

\* Nothing but the worker of one app changes.
LEMMA OneFits ==
    ASSUME TypeInvariant, NEW a \in Apps, NEW w, Fit(w),
           worker' = [worker EXCEPT ![a] = w]
    PROVE  worker' \in [Apps -> Worker] /\ PlacesFit'
  BY DEF TypeInvariant, TypeOK, Fit, PlacesFit

\* A worker that goes on leaves its process well typed.
LEMMA GoFits ==
    ASSUME TypeInvariant, NEW a \in Apps, NEW w, Fit(w), Go(a, w)
    PROVE  ProcessFits'
BY OneFits DEF TypeInvariant, TypeOK, Go, ProcessFits

LEMMA ReleasedTyped ==
    ASSUME TypeInvariant, NEW a \in Apps
    PROVE  Released(a) \in [Brains -> Apps \cup {NoApp}]
BY DEF TypeInvariant, TypeOK, Released

\* So does one that ends.
LEMMA EndsFits ==
    ASSUME TypeInvariant, NEW a \in Apps, NEW how \in {"none", "alive", "dead"}, Ends(a, how)
    PROVE  ProcessFits'
<1>1. lines' \in [Apps -> Seq(Requests)]
  BY DEF TypeInvariant, TypeOK, Ends
<1>2. child' \in [Apps -> {"none", "alive", "dead"}]
  BY DEF TypeInvariant, TypeOK, Ends
<1> QED
  BY <1>1, <1>2, OneFits, ReleasedTyped, RecordsTyped DEF Ends, ProcessFits

LEMMA FailingFits ==
    ASSUME NEW w, Fit(w), w.part # "none"
    PROVE  Fit(Failing(w))
<1> DEFINE place == IF w.context THEN "publish" ELSE "respond"
<1>1. place \in {"publish", "respond"}
  OBVIOUS
<1>2. NoMirror \in Mirror
  BY RecordsTyped
<1>3. Failing(w) = [w EXCEPT !.part = "except", !.at = place, !.says = "failed",
                             !.next = "respond", !.read = NoMirror]
  BY DEF Failing
<1>4. w \in Worker /\ w.serves \in Requests
  BY DEF Fit, PlaceFits
<1> HIDE DEF place
<1>5. Failing(w) \in Worker
  BY <1>1, <1>2, <1>3, <1>4 DEF Worker, Places, Parts, Statuses
<1>6. PlaceFits(Failing(w))
  BY <1>1, <1>3, <1>4 DEF Worker, PlaceFits, Publishing
<1> QED
  BY <1>5, <1>6 DEF Fit

\* The worker in the except clause of a build.
GivingUp(w) == [w EXCEPT !.part = "giveup", !.at = "abandon", !.read = NoMirror]

LEMMA GivingUpFits ==
    ASSUME NEW w, Fit(w), w.part # "none"
    PROVE  Fit(GivingUp(w))
<1>1. NoMirror \in Mirror
  BY RecordsTyped
<1>2. w \in Worker /\ w.serves \in Requests
  BY DEF Fit, PlaceFits
<1>3. GivingUp(w) \in Worker
  BY <1>1, <1>2 DEF GivingUp, Worker, Places, Parts
<1>4. PlaceFits(GivingUp(w))
  BY <1>2 DEF GivingUp, Worker, PlaceFits, Publishing
<1> QED
  BY <1>3, <1>4 DEF Fit

\* So does one in which an exception is raised.
LEMMA RaiseFits ==
    ASSUME TypeInvariant, NEW a \in Apps, NEW w, Fit(w), Raise(a, w)
    PROVE  ProcessFits'
<1>1. CASE Ends(a, "dead")
  BY <1>1, EndsFits
<1>2. CASE w.part = "build" /\ Go(a, GivingUp(w))
  BY <1>2, GivingUpFits, GoFits
<1>3. CASE /\ w.part # "none"
           /\ worker' = [worker EXCEPT ![a] = Failing(w)]
           /\ lock' = Released(a)
           /\ UNCHANGED <<child, lines>>
  BY <1>3, FailingFits, OneFits, ReleasedTyped DEF TypeInvariant, TypeOK, ProcessFits
<1> QED
  BY <1>1, <1>2, <1>3 DEF Raise, GivingUp

LEMMA WorkerFits ==
    ASSUME TypeInvariant, NEW a \in Apps
    PROVE  Fit(worker[a])
BY DEF TypeInvariant, TypeOK, PlacesFit, Fit

\* The worker that has returned from its handler.
Returned(w) == [Announcing(w, "completed", "respond") EXCEPT !.part = "finish"]

LEMMA ReturnsFits ==
    ASSUME TypeInvariant, NEW a \in Apps, worker[a].part # "none", Returns(a)
    PROVE  ProcessFits'
<1>1. worker[a] \in Worker /\ worker[a].serves \in Requests
  BY WorkerFits DEF Fit, PlaceFits
<1>2. Returned(worker[a]) \in Worker
  BY <1>1 DEF Returned, Announcing, Worker, Places, Parts, Statuses
<1>3. PlaceFits(Returned(worker[a]))
  BY <1>1 DEF Returned, Announcing, Worker, PlaceFits, Publishing
<1>4. worker' = [worker EXCEPT ![a] = Returned(worker[a])]
  BY DEF Returns, Returned
<1>5. Fit(Returned(worker[a]))
  BY <1>2, <1>3 DEF Fit
<1> QED
  BY <1>4, <1>5, OneFits, ReleasedTyped DEF TypeInvariant, TypeOK, Returns, ProcessFits

\* So does an update of the pipeline, from each of its callers.
LEMMA UpdateFits ==
    ASSUME TypeInvariant, NEW a \in Apps, NEW status \in Statuses, NEW next \in Places,
           \/ worker[a].part = "build" /\ next \in {"capture", "return"}
           \/ worker[a].part = "giveup" /\ next = "idle",
           UpdatePipeline(a, status, next)
    PROVE  /\ ProcessFits'
           /\ pipeline' \in [Brains -> [task : Requests \cup {NoRequest}, status : Statuses]]
<1>1. worker[a] \in Worker /\ worker[a].serves \in Requests
  BY WorkerFits DEF Fit, PlaceFits
<1>2. CASE Raise(a, worker[a]) /\ UNCHANGED pipeline
  BY <1>2, WorkerFits, RaiseFits DEF TypeInvariant, TypeOK
<1>3. CASE /\ pipeline' = [pipeline EXCEPT ![BrainOf[worker[a].serves]].status = status]
           /\ Go(a, Announcing(worker[a], status, next))
  <2>1. Announcing(worker[a], status, next) \in Worker
    BY <1>1 DEF Announcing, Worker, Places
  <2>2. PlaceFits(Announcing(worker[a], status, next))
    BY <1>1 DEF Announcing, Worker, PlaceFits, Publishing
  <2>3. pipeline' \in [Brains -> [task : Requests \cup {NoRequest}, status : Statuses]]
    BY <1>3 DEF TypeInvariant, TypeOK
  <2> QED
    BY <1>3, <2>1, <2>2, <2>3, GoFits DEF Fit
<1> QED
  BY <1>2, <1>3 DEF UpdatePipeline

-----------------------------------------------------------------------------
\* The counters of the bounds, and the states a request moves to.
LEMMA FailuresTyped ==
    ASSUME TypeInvariant, \/ Fault
                          \/ failures' = [failures EXCEPT !.crash = @ + 1]
    PROVE  failures' \in [fault : Nat, crash : Nat]
<1>1. failures \in [fault : Nat, crash : Nat]
  BY DEF TypeInvariant, TypeOK
<1>2. /\ failures.fault + 1 \in Nat
      /\ failures.crash + 1 \in Nat
  BY <1>1
<1> QED
  BY <1>1, <1>2 DEF Fault

Requested == [at : {"new", "waiting", "sent", "ok", "error", "lost"}, attempt : {0, 1}]

LEMMA MovesTyped ==
    ASSUME TypeInvariant, NEW r, Moves(r, "waiting") \/ Moves(r, "sent")
                                 \/ Moves(r, "ok") \/ Moves(r, "error")
    PROVE  request' \in [Requests -> Requested]
<1>1. request \in [Requests -> Requested]
  BY DEF TypeInvariant, TypeOK, Requested
<1>2. PICK at \in {"waiting", "sent", "ok", "error"} :
          request' = [request EXCEPT ![r].at = at]
  BY DEF Moves
<1> QED
  BY <1>1, <1>2 DEF Requested

\* The steps of the app keep the types and the places.
LEMMA AppTypes ==
    ASSUME TypeInvariant, NEW r \in Requests,
           Send(r) \/ Enter(r) \/ SpawnFails(r) \/ StreamCloses(r) \/ StreamBreaks(r)
    PROVE  TypeInvariant'
<1>1. AppOf[r] \in Apps
  BY TaskAssumption
<1>2. request' \in [Requests -> Requested] =>
        request' \in [Requests -> [at : {"new", "waiting", "sent", "ok", "error", "lost"},
                                  attempt : {0, 1}]]
  BY DEF Requested
<1>3. CASE Send(r)
  BY <1>3, MovesTyped, <1>2 DEF Send, TypeInvariant, PlacesFit, process, TypeOK, files
<1>4. CASE Enter(r)
  <2>1. Append(lines[AppOf[r]], r) \in Seq(Requests)
    BY <1>1 DEF TypeInvariant, TypeOK
  <2>2. lines' \in [Apps -> Seq(Requests)]
    BY <1>1, <1>4, <2>1 DEF TypeInvariant, TypeOK, Enter
  <2>3. child' \in [Apps -> {"none", "alive", "dead"}]
    BY <1>1, <1>4 DEF TypeInvariant, TypeOK, Enter
  <2>4. request' \in [Requests -> Requested]
    BY <1>4, MovesTyped DEF Enter
  <2>5. UNCHANGED <<open, lock, worker, files, effects, failures>>
    BY <1>4 DEF Enter
  <2>6. TypeOK'
    BY <1>2, <2>2, <2>3, <2>4, <2>5 DEF TypeInvariant, TypeOK, files
  <2>7. PlacesFit'
    BY <2>5 DEF TypeInvariant, PlacesFit
  <2> QED
    BY <2>6, <2>7 DEF TypeInvariant
<1>5. CASE SpawnFails(r)
  BY <1>5, MovesTyped, FailuresTyped, <1>2 DEF SpawnFails, TypeInvariant, TypeOK, process,
     files, PlacesFit
<1>6. CASE StreamCloses(r) \/ StreamBreaks(r)
  <2>1. TryAgain(r) /\ UNCHANGED <<open, files, effects>>
    BY <1>6 DEF StreamCloses, StreamBreaks
  <2>2. failures' \in [fault : Nat, crash : Nat]
    BY <1>6, FailuresTyped DEF TypeInvariant, TypeOK, StreamCloses, StreamBreaks
  <2>3. ProcessFits'
    BY <1>1, EndsFits, <2>1 DEF TypeInvariant, PlacesFit, process, TypeOK, ProcessFits,
       TryAgain
  <2>4. request' \in [Requests -> Requested]
    <3>1. CASE Moves(r, "error")
      BY <3>1, MovesTyped
    <3>2. CASE request' = [request EXCEPT ![r] = [at |-> "waiting", attempt |-> 1]]
      BY <3>2 DEF TypeInvariant, TypeOK, Requested
    <3> QED
      BY <2>1, <3>1, <3>2 DEF TryAgain
  <2> QED
    BY <1>2, <2>1, <2>2, <2>3, <2>4 DEF TypeInvariant, TypeOK, ProcessFits, files
<1> QED
  BY <1>3, <1>4, <1>5, <1>6

\* So do the steps of a worker up to the lock of its brain,
LEMMA TaskTypes ==
    ASSUME TypeInvariant, NEW a \in Apps,
           Read(a) \/ EndOfInput(a) \/ Start(a) \/ Publish(a) \/ Copy(a) \/ Write(a) \/ Acquire(a)
    PROVE  TypeInvariant'
<1> DEFINE w == worker[a]
<1>1. w \in Worker /\ PlaceFits(w) /\ Fit(w)
  BY WorkerFits DEF Fit
<1>2. ASSUME ProcessFits', UNCHANGED <<app, effects, failures>>,
             event' \in Event, mirror' \in [Brains -> Mirror], UNCHANGED pipeline
      PROVE  TypeInvariant'
  BY <1>2 DEF TypeInvariant, TypeOK, ProcessFits, app
<1>3. CASE Read(a)
  <2> DEFINE v == [Idle EXCEPT !.at = "start", !.part = "start", !.serves = Head(lines[a])]
  <2>1. Head(lines[a]) \in Requests /\ Tail(lines[a]) \in Seq(Requests)
    BY <1>3 DEF TypeInvariant, TypeOK, Read
  <2>2. Idle \in Worker
    BY RecordsTyped DEF Fit
  <2>3. v \in Worker
    BY <2>1, <2>2 DEF Worker, Places, Parts
  <2>4. v.at = "start" /\ v.part = "start" /\ v.serves \in Requests
    BY <2>1, <2>2 DEF Worker
  <2>5. worker' = [worker EXCEPT ![a] = v]
    BY <1>3 DEF Read
  <2> HIDE DEF v
  <2>6. Fit(v)
    BY <2>3, <2>4 DEF Fit, PlaceFits, Publishing
  <2>7. worker' \in [Apps -> Worker] /\ PlacesFit'
    BY <2>5, <2>6, OneFits
  <2> QED
    BY <1>2, <1>3, <2>1, <2>7 DEF TypeInvariant, TypeOK, ProcessFits, Read, files
<1>4. CASE EndOfInput(a)
  BY <1>2, <1>4, EndsFits DEF TypeInvariant, TypeOK, EndOfInput, files
<1>5. CASE Start(a)
  <2> DEFINE v == [w EXCEPT !.at = "copy", !.next = "acquire"]
  <2>1. w.at = "start" /\ w.part = "start" /\ w.serves \in Requests
    BY <1>1, <1>5 DEF Start, At, PlaceFits
  <2>2. v \in Worker /\ PlaceFits(v)
    BY <1>1, <2>1 DEF Worker, Places, PlaceFits, Publishing
  <2>3. ProcessFits'
    BY <1>5, <2>2, GoFits DEF Start, Fit
  <2>4. event' \in Event
    BY <1>5, <2>1 DEF Start, Event, Statuses
  <2> QED
    BY <1>2, <1>5, <2>3, <2>4 DEF TypeInvariant, TypeOK, Start
<1>6. CASE Publish(a)
  <2> DEFINE v == [w EXCEPT !.at = "copy"]
  <2>1. v \in Worker /\ PlaceFits(v)
    BY <1>1, <1>6 DEF Publish, At, Worker, Places, PlaceFits, Publishing
  <2>2. CASE Raise(a, w) /\ UNCHANGED event
    BY <1>1, <1>2, <1>6, <2>2, RaiseFits DEF TypeInvariant, TypeOK, Publish
  <2>3. CASE Go(a, v) /\ event' \in Event
    BY <1>2, <1>6, <2>1, <2>3, GoFits DEF TypeInvariant, TypeOK, Publish, Fit
  <2>4. ASSUME NEW receipt \in {"none", "own", "earlier"}
        PROVE  [event EXCEPT !.status = w.says, !.receipt = receipt] \in Event
    BY <1>1 DEF TypeInvariant, TypeOK, Event, Worker
  <2>5. event.receipt \in {"none", "own", "earlier"}
    BY DEF TypeInvariant, TypeOK, Event
  <2>6. \/ Raise(a, w) /\ UNCHANGED event
        \/ /\ Go(a, v)
           /\ \E receipt \in {"none", "own", "earlier"} :
                  event' = [event EXCEPT !.status = w.says, !.receipt = receipt]
    BY <1>6, <2>5 DEF Publish
  <2> QED
    BY <2>2, <2>3, <2>4, <2>6
<1>7. CASE Copy(a)
  <2> DEFINE read == [event |-> event, history |-> mirror[BrainOf[w.serves]].history]
             v == [w EXCEPT !.at = "write", !.read = read]
  <2>1. BrainOf[w.serves] \in Brains
    BY <1>1, <1>7, TaskAssumption DEF Copy, At, PlaceFits
  <2>2. read \in Mirror
    BY <2>1 DEF TypeInvariant, TypeOK, Mirror
  <2>3. Go(a, v)
    BY <1>7 DEF Copy
  <2> HIDE DEF read
  <2>4. v \in Worker
    BY <1>1, <2>2 DEF Worker, Places
  <2>5. PlaceFits(v)
    BY <1>1, <1>7 DEF Copy, At, Worker, PlaceFits, Publishing
  <2>6. ProcessFits'
    BY <2>3, <2>4, <2>5, GoFits DEF Fit
  <2> QED
    BY <1>2, <1>7, <2>6 DEF TypeInvariant, TypeOK, Copy, files
<1>8. CASE Write(a)
  <2>1. w.at = "write" /\ w.serves \in Requests /\ BrainOf[w.serves] \in Brains
    BY <1>1, <1>8, TaskAssumption DEF Write, At, PlaceFits
  <2>2. mirror' \in [Brains -> Mirror]
    <3>1. w.read.event \in Event /\ w.read.history \in Seq(Event) /\ w.read \in Mirror
      BY <1>1 DEF Worker, Mirror
    <3>2. Longer(w.read.history, w.read.event) \in Seq(Event)
      BY <3>1, RecentHistory
    <3> PICK kept \in Seq(Event) : kept = Longer(w.read.history, w.read.event)
      BY <3>2
    <3>3. mirror' = [mirror EXCEPT ![BrainOf[w.serves]] = [w.read EXCEPT !.history = kept]]
      BY <1>8 DEF Write, Longer
    <3>4. [w.read EXCEPT !.history = kept] \in Mirror
      BY <3>1 DEF Mirror
    <3> QED
      BY <2>1, <3>3, <3>4 DEF TypeInvariant, TypeOK
  <2>3. CASE Raise(a, [w EXCEPT !.context = TRUE])
    BY <1>1, <2>1, <2>3, RaiseFits, <1>2, <1>8, <2>2 DEF Worker, PlaceFits, Publishing,
       Fit, TypeInvariant, TypeOK, Write
  <2>4. CASE ~(a \notin open \/ w.part = "giveup")
    <3> DEFINE part == IF w.next = "stages" THEN "build" ELSE w.part
               v == [w EXCEPT !.context = TRUE, !.read = NoMirror, !.at = w.next,
                              !.part = part]
    <3>1. Go(a, v)
      BY <1>8, <2>4 DEF Write
    <3>2. NoMirror \in Mirror
      BY RecordsTyped
    <3>3. part \in Parts /\ (w.next = "stages" => part = "build")
                         /\ (w.next # "stages" => part = w.part)
      BY <1>1 DEF Worker, Parts
    <3> HIDE DEF part
    <3>4. v \in Worker
      BY <1>1, <3>2, <3>3 DEF Worker
    <3>5. PlaceFits(v)
      BY <1>1, <2>1, <2>4, <3>3 DEF Worker, PlaceFits, Publishing
    <3>6. ProcessFits'
      BY <3>1, <3>4, <3>5, GoFits DEF Fit
    <3> QED
      BY <1>2, <1>8, <2>2, <3>6 DEF TypeInvariant, TypeOK, Write
  <2> QED
    BY <1>8, <2>3, <2>4 DEF Write
<1>9. CASE Acquire(a)
  <2> DEFINE v == [w EXCEPT !.at = "command", !.part = "command"]
  <2>1. v \in Worker /\ PlaceFits(v)
    BY <1>1, <1>9 DEF Acquire, At, Worker, Places, Parts, PlaceFits, Publishing
  <2>2. CASE Raise(a, w)
    BY <1>1, <1>2, <1>9, <2>2, RaiseFits DEF TypeInvariant, TypeOK, Acquire, files
  <2>3. CASE /\ worker' = [worker EXCEPT ![a] = v]
             /\ lock' = [lock EXCEPT ![BrainOf[w.serves]] = a]
             /\ UNCHANGED <<child, lines>>
    BY <2>1, <2>3, OneFits, <1>2, <1>9 DEF Fit, TypeInvariant, TypeOK, ProcessFits,
       Acquire, files
  <2> QED
    BY <1>9, <2>2, <2>3 DEF Acquire
<1> QED
  BY <1>3, <1>4, <1>5, <1>6, <1>7, <1>8, <1>9

\* and those from the command to the answer,
LEMMA CommandTypes ==
    ASSUME TypeInvariant, NEW a \in Apps,
           \/ Command(a) \/ HandlerRaises(a) \/ StartPipeline(a) \/ Stage(a) \/ Capture(a)
           \/ Complete(a) \/ Return(a) \/ Abandon(a) \/ Respond(a)
    PROVE  TypeInvariant'
<1> DEFINE w == worker[a]
<1>1. w \in Worker /\ PlaceFits(w) /\ Fit(w)
  BY WorkerFits DEF Fit
<1>2. ASSUME ProcessFits', UNCHANGED <<app, event, mirror, failures>>,
             effects' \in [Requests -> Nat],
             pipeline' \in [Brains -> [task : Requests \cup {NoRequest}, status : Statuses]]
      PROVE  TypeInvariant'
  BY <1>2 DEF TypeInvariant, TypeOK, ProcessFits, app
<1>3. ASSUME NEW r \in Requests, TakesEffect(r)
      PROVE  effects' \in [Requests -> Nat]
  BY <1>3 DEF TypeInvariant, TypeOK, TakesEffect
<1>4. CASE Command(a)
  BY <1>1, <1>4, RaiseFits, ReturnsFits, <1>3, <1>2 DEF Command, At, PlaceFits,
     TypeInvariant, TypeOK, files
<1>5. CASE HandlerRaises(a)
  BY <1>1, <1>5, RaiseFits, <1>2 DEF HandlerRaises, TypeInvariant, TypeOK, files
<1>6. CASE StartPipeline(a)
  <2> DEFINE v == Announcing(w, "running", "stages")
  <2>1. w.part = "command" /\ w.serves \in Requests /\ BrainOf[w.serves] \in Brains
    BY <1>1, <1>6, TaskAssumption DEF StartPipeline, At, PlaceFits
  <2>2. v \in Worker /\ PlaceFits(v)
    BY <1>1, <2>1 DEF Announcing, Worker, Places, Statuses, PlaceFits, Publishing
  <2>3. ProcessFits'
    BY <1>6, <2>2, GoFits DEF StartPipeline, Fit
  <2>4. [task |-> w.serves, status |-> "running"]
            \in [task : Requests \cup {NoRequest}, status : Statuses]
    BY <2>1 DEF Statuses
  <2>5. pipeline' \in [Brains -> [task : Requests \cup {NoRequest}, status : Statuses]]
    BY <1>6, <2>4 DEF TypeInvariant, TypeOK, StartPipeline
  <2> QED
    BY <1>2, <1>6, <2>3, <2>5 DEF TypeInvariant, TypeOK, StartPipeline
<1>7. CASE Stage(a) \/ Complete(a) \/ Abandon(a)
  BY <1>1, <1>2, UpdateFits, <1>7 DEF Statuses, Places, Stage, At, PlaceFits,
     TypeInvariant, TypeOK, Complete, Abandon
<1>8. CASE Capture(a)
  <2> DEFINE v == [w EXCEPT !.at = "complete"]
  <2>1. w.part = "build" /\ w.serves \in Requests
    BY <1>1, <1>8 DEF Capture, At, PlaceFits
  <2>2. v \in Worker /\ PlaceFits(v)
    BY <1>1, <2>1 DEF Worker, Places, PlaceFits, Publishing
  <2>3. ProcessFits'
    BY <1>8, <2>2, GoFits DEF Capture, Fit
  <2>4. effects' \in [Requests -> Nat]
    BY <1>3, <1>8, <2>1 DEF Capture
  <2> QED
    BY <1>2, <1>8, <2>3, <2>4 DEF TypeInvariant, TypeOK, Capture, files
<1>9. CASE Return(a)
  BY <1>1, <1>9, ReturnsFits, <1>2 DEF Return, At, PlaceFits, TypeInvariant, TypeOK, files
<1>10. CASE Respond(a)
  BY <1>1, <1>10, RaiseFits, GoFits, RecordsTyped, MovesTyped DEF Respond, TypeInvariant,
     TypeOK, Requested, ProcessFits, files
<1> QED
  BY <1>4, <1>5, <1>6, <1>7, <1>8, <1>9, <1>10

\* and failing files, deaths and the closing of an app.
LEMMA FailureTypes ==
    ASSUME TypeInvariant, NEW a \in Apps, FileFails(a) \/ Crash(a) \/ CloseApp(a)
    PROVE  TypeInvariant'
<1>1. CASE FileFails(a)
  BY <1>1, WorkerFits, RaiseFits, FailuresTyped DEF FileFails, TypeInvariant, TypeOK,
     ProcessFits, app, files
<1>2. CASE Crash(a)
  BY <1>2, EndsFits, FailuresTyped DEF Crash, TypeInvariant, TypeOK, ProcessFits, app,
     files
<1>3. CASE CloseApp(a)
  <2>1. request' \in [Requests -> [at : {"new", "waiting", "sent", "ok", "error", "lost"},
                                   attempt : {0, 1}]]
    BY ZenonT(60), <1>3 DEF TypeInvariant, TypeOK, CloseApp
  <2>2. UNCHANGED <<process, files, effects, failures>> /\ open' \subseteq Apps
    BY <1>3 DEF TypeInvariant, TypeOK, CloseApp
  <2>3. PlacesFit'
    BY <2>2 DEF TypeInvariant, PlacesFit, process
  <2> QED
    BY <2>1, <2>2, <2>3 DEF TypeInvariant, TypeOK, process, files
<1> QED
  BY <1>1, <1>2, <1>3

LEMMA InitTypes == Init => TypeInvariant
<1> SUFFICES ASSUME Init PROVE TypeInvariant
  OBVIOUS
<1>1. lines \in [Apps -> Seq(Requests)]
  BY DEF Init
<1>2. TypeOK
  BY <1>1, RecordsTyped DEF Init, TypeOK, Fit, Statuses
<1>3. PlacesFit
  BY RecordsTyped DEF Init, PlacesFit, Fit
<1> QED
  BY <1>2, <1>3 DEF TypeInvariant

LEMMA NextTypes == TypeInvariant /\ [Next]_vars => TypeInvariant'
<1> SUFFICES ASSUME TypeInvariant, [Next]_vars PROVE TypeInvariant'
  OBVIOUS
<1>1. CASE Next
  BY <1>1, AppTypes, TaskTypes, CommandTypes, FailureTypes DEF Next, Serve
<1>2. CASE UNCHANGED vars
  BY <1>2 DEF TypeInvariant, PlacesFit, vars, process, TypeOK, app, files
<1> QED
  BY <1>1, <1>2

\* Every variable keeps its type, for any apps, brains, requests and bounds.
THEOREM TypeCorrect == Spec => []TypeOK
<1>1. Spec => []TypeInvariant
  BY InitTypes, NextTypes, PTL DEF Spec
<1>2. TypeInvariant => TypeOK
  BY DEF TypeInvariant
<1> QED
  BY <1>1, <1>2, PTL

-----------------------------------------------------------------------------
\* What a step leaves in the stdin of a worker it may end.
Keeps(a) == lines' = lines \/ lines' = [lines EXCEPT ![a] = <<>>]

LEMMA KeptLines ==
    ASSUME TypeInvariant, NEW a \in Apps, Keeps(a), NEW b \in Apps
    PROVE  lines'[b] = lines[b] \/ lines'[b] = <<>>
BY DEF TypeInvariant, TypeOK, Keeps

\* An exception leaves a worker that is not before the effect of a command.
LEMMA RaiseLeaves ==
    ASSUME TypeInvariant, NEW a \in Apps, NEW w, Fit(w), Raise(a, w)
    PROVE  /\ Keeps(a)
           /\ \E v : /\ worker' = [worker EXCEPT ![a] = v]
                     /\ v.serves \in {w.serves, NoRequest}
                     /\ ~Before(v)
<1>1. CASE Ends(a, "dead")
  <2>1. Idle.serves = NoRequest /\ ~Before(Idle)
    BY DEF Idle, Before
  <2> QED
    BY <1>1, <2>1 DEF Ends, Keeps
<1>2. CASE Go(a, GivingUp(w))
  <2>1. GivingUp(w).serves = w.serves /\ ~Before(GivingUp(w))
    BY DEF Fit, Worker, GivingUp, Before
  <2> QED
    BY <1>2, <2>1 DEF Go, Keeps
<1>3. CASE worker' = [worker EXCEPT ![a] = Failing(w)] /\ UNCHANGED lines
  <2>1. Failing(w).serves = w.serves /\ ~Before(Failing(w))
    BY DEF Fit, Worker, Failing, Before
  <2> QED
    BY <1>3, <2>1 DEF Keeps
<1> QED
  BY <1>1, <1>2, <1>3 DEF Raise, GivingUp

\* So does the return of the handler.
LEMMA ReturnsLeaves ==
    ASSUME TypeInvariant, NEW a \in Apps, Returns(a)
    PROVE  /\ Keeps(a)
           /\ \E v : /\ worker' = [worker EXCEPT ![a] = v]
                     /\ v.serves \in {worker[a].serves, NoRequest}
                     /\ ~Before(v)
<1>1. worker[a] \in Worker
  BY WorkerFits DEF Fit
<1>2. Returned(worker[a]).serves = worker[a].serves /\ ~Before(Returned(worker[a]))
  BY <1>1 DEF Worker, Returned, Announcing, Before
<1> QED
  BY <1>2 DEF Returns, Returned, Keeps

\* A worker that does not take a request, nor its effect, disturbs nothing.
LEMMA CalmStep ==
    ASSUME TypeInvariant, DeliveryInvariant, NEW a \in Apps, NEW v,
           worker' = [worker EXCEPT ![a] = v],
           v.serves \in {worker[a].serves, NoRequest},
           Before(v) => Before(worker[a]),
           Keeps(a), UNCHANGED <<request, effects>>
    PROVE  DeliveryInvariant'
<1>1. ASSUME NEW b \in Apps, NEW r \in Requests
      PROVE  /\ InLines(b, r)' => InLines(b, r)
             /\ worker'[b].serves = r => worker[b].serves = r
             /\ worker'[b].serves = r /\ Before(worker'[b]) => Before(worker[b])
  <2>1. InLines(b, r)' => InLines(b, r)
    BY KeptLines DEF InLines
  <2>2. CASE b = a
    BY <2>1, <2>2, TaskAssumption DEF TypeInvariant, TypeOK
  <2>3. CASE b # a
    BY <2>1, <2>3 DEF TypeInvariant, TypeOK
  <2> QED
    BY <2>2, <2>3
<1>2. \A r \in Requests : Written(r)' = Written(r) /\ effects'[r] = effects[r]
  BY DEF Written
<1>3. \A r \in Requests : effects'[r] <= Written(r)'
  BY <1>2 DEF DeliveryInvariant
<1>4. ASSUME NEW b \in Apps, NEW r \in Requests
      PROVE  /\ Has(b, r)' => AppOf[r] = b /\ request'[r].at \notin {"new", "waiting", "ok"}
             /\ InLines(b, r)' => worker'[b].serves # r
             /\ InLines(b, r)' \/ (worker'[b].serves = r /\ Before(worker'[b])) =>
                    effects'[r] < Written(r)'
  BY <1>1, <1>2 DEF Has, DeliveryInvariant
<1>5. \A b \in Apps : \A i, j \in DOMAIN lines'[b] : lines'[b][i] = lines'[b][j] => i = j
  BY KeptLines DEF DeliveryInvariant
<1> QED
  BY <1>3, <1>4, <1>5 DEF DeliveryInvariant

LEMMA WrittenTyped ==
    ASSUME TypeInvariant, NEW r \in Requests
    PROVE  Written(r) \in Nat /\ Written(r) <= 2
<1>1. request[r].attempt \in {0, 1}
  BY DEF TypeInvariant, TypeOK
<1> QED
  BY <1>1 DEF Written

\* The effect of a command uses up the one line its request still had.
LEMMA EffectStep ==
    ASSUME TypeInvariant, DeliveryInvariant, NEW a \in Apps, NEW v,
           worker' = [worker EXCEPT ![a] = v],
           v.serves \in {worker[a].serves, NoRequest},
           worker[a].serves \in Requests, Before(worker[a]), ~Before(v),
           Keeps(a), UNCHANGED request, TakesEffect(worker[a].serves)
    PROVE  DeliveryInvariant'
<1> DEFINE s == worker[a].serves
<1>1. ASSUME NEW b \in Apps, NEW r \in Requests
      PROVE  /\ InLines(b, r)' => InLines(b, r)
             /\ worker'[b].serves = r => worker[b].serves = r
             /\ worker'[b].serves = r /\ Before(worker'[b]) => Before(worker[b]) /\ b # a
  <2>1. InLines(b, r)' => InLines(b, r)
    BY KeptLines DEF InLines
  <2>2. CASE b = a
    BY <2>1, <2>2, TaskAssumption DEF TypeInvariant, TypeOK
  <2>3. CASE b # a
    BY <2>1, <2>3 DEF TypeInvariant, TypeOK
  <2> QED
    BY <2>2, <2>3
<1>2. \A r \in Requests : Written(r)' = Written(r) /\ request'[r] = request[r]
  BY DEF Written
<1>3. Has(a, s) /\ AppOf[s] = a /\ ~InLines(a, s) /\ effects[s] < Written(s)
  BY DEF DeliveryInvariant, Has
<1>4. \A r \in Requests : r # s => effects'[r] = effects[r]
  BY DEF TypeInvariant, TypeOK, TakesEffect
<1>5. effects'[s] = effects[s] + 1 /\ effects[s] \in Nat /\ Written(s) \in Nat
  BY WrittenTyped DEF TypeInvariant, TypeOK, TakesEffect
<1>6. \A r \in Requests : effects'[r] <= Written(r)'
  BY <1>2, <1>3, <1>4, <1>5 DEF DeliveryInvariant
<1>7. ASSUME NEW b \in Apps, NEW r \in Requests
      PROVE  /\ Has(b, r)' => AppOf[r] = b /\ request'[r].at \notin {"new", "waiting", "ok"}
             /\ InLines(b, r)' => worker'[b].serves # r
             /\ InLines(b, r)' \/ (worker'[b].serves = r /\ Before(worker'[b])) =>
                    effects'[r] < Written(r)'
  BY <1>1, <1>2, <1>3, <1>4 DEF Has, DeliveryInvariant
<1>8. \A b \in Apps : \A i, j \in DOMAIN lines'[b] : lines'[b][i] = lines'[b][j] => i = j
  BY KeptLines DEF DeliveryInvariant
<1> QED
  BY <1>6, <1>7, <1>8 DEF DeliveryInvariant

\* A request that no worker has may move on, and others with it, as long as it
\* does not lose the count of its lines.
LEMMA RequestsMove ==
    ASSUME TypeInvariant, DeliveryInvariant,
           \A b \in Apps : lines'[b] = lines[b] \/ lines'[b] = <<>>,
           \A b \in Apps : worker'[b] = worker[b] \/ worker'[b] = Idle,
           UNCHANGED effects,
           \A r \in Requests : Written(r)' \in Nat /\ Written(r) <= Written(r)',
           \A r \in Requests : \/ request'[r].at \notin {"new", "waiting", "ok"}
                               \/ request'[r].at = request[r].at
                               \/ \A b \in Apps : ~Has(b, r)'
    PROVE  DeliveryInvariant'
<1>1. Idle.serves = NoRequest /\ ~Before(Idle)
  BY DEF Idle, Before
<1>2. ASSUME NEW b \in Apps, NEW r \in Requests
      PROVE  /\ InLines(b, r)' => InLines(b, r)
             /\ worker'[b].serves = r => worker[b].serves = r
             /\ worker'[b].serves = r /\ Before(worker'[b]) => Before(worker[b])
  BY <1>1, TaskAssumption DEF InLines
<1>3. ASSUME NEW r \in Requests
      PROVE  /\ effects'[r] <= Written(r)'
             /\ effects[r] < Written(r) => effects'[r] < Written(r)'
  BY WrittenTyped DEF TypeInvariant, TypeOK, DeliveryInvariant
<1>4. ASSUME NEW b \in Apps, NEW r \in Requests
      PROVE  /\ Has(b, r)' => AppOf[r] = b /\ request'[r].at \notin {"new", "waiting", "ok"}
             /\ InLines(b, r)' => worker'[b].serves # r
             /\ InLines(b, r)' \/ (worker'[b].serves = r /\ Before(worker'[b])) =>
                    effects'[r] < Written(r)'
  BY <1>2, <1>3 DEF Has, DeliveryInvariant
<1>5. \A b \in Apps : \A i, j \in DOMAIN lines'[b] : lines'[b][i] = lines'[b][j] => i = j
  BY DEF DeliveryInvariant
<1> QED
  BY <1>3, <1>4, <1>5 DEF DeliveryInvariant

\* Writing a line: the request that waits has no line that is not used up.
LEMMA EnterStep ==
    ASSUME TypeInvariant, DeliveryInvariant, NEW r \in Requests, Enter(r)
    PROVE  DeliveryInvariant'
<1> DEFINE a == AppOf[r]
<1>1. a \in Apps
  BY TaskAssumption
<1>2. \A b \in Apps : ~Has(b, r)
  BY <1>1 DEF DeliveryInvariant, Enter
<1>3. UNCHANGED <<worker, effects>>
  BY DEF Enter
<1>4. \A q \in Requests : q # r => request'[q] = request[q] /\ Written(q)' = Written(q)
  BY DEF Enter, Moves, TypeInvariant, TypeOK, Written
<1>5. effects[r] < Written(r)' /\ request'[r].at = "sent"
  <2>1. request[r].at = "waiting" /\ request[r].attempt \in {0, 1}
    BY DEF Enter, TypeInvariant, TypeOK
  <2>2. request'[r].at = "sent" /\ request'[r].attempt = request[r].attempt
    BY DEF Enter, Moves, TypeInvariant, TypeOK
  <2>3. Written(r) = request[r].attempt /\ Written(r)' = request[r].attempt + 1
    BY <2>1, <2>2 DEF Written
  <2>4. effects[r] \in Nat /\ effects[r] <= Written(r)
    BY DEF DeliveryInvariant, TypeInvariant, TypeOK
  <2> QED
    BY <2>1, <2>2, <2>3, <2>4
<1>6. ASSUME NEW b \in Apps
      PROVE  \/ lines'[b] = lines[b]
             \/ b = a /\ lines'[b] = Append(lines[b], r)
  BY <1>1 DEF Enter, TypeInvariant, TypeOK
<1>7. ASSUME NEW b \in Apps, NEW q \in Requests, InLines(b, q)'
      PROVE  InLines(b, q) \/ (b = a /\ q = r)
  <2>1. CASE lines'[b] = lines[b]
    BY <1>7, <2>1 DEF InLines
  <2>2. CASE b = a /\ lines'[b] = Append(lines[b], r)
    BY <1>7, <2>2 DEF InLines, TypeInvariant, TypeOK
  <2> QED
    BY <1>6, <2>1, <2>2
<1>8. \A q \in Requests : effects'[q] <= Written(q)'
  <2>1. effects[r] \in Nat /\ Written(r)' \in Nat
    <3>1. request'[r].attempt \in {0, 1}
      BY DEF Enter, Moves, TypeInvariant, TypeOK
    <3>2. Written(r)' = request'[r].attempt + 1
      BY <1>5 DEF Written
    <3> QED
      BY <3>1, <3>2 DEF TypeInvariant, TypeOK
  <2>2. effects[r] <= Written(r)'
    BY <1>5, <2>1
  <2> QED
    BY <1>3, <1>4, <2>2 DEF DeliveryInvariant
<1>9. ASSUME NEW b \in Apps, NEW q \in Requests
      PROVE  /\ Has(b, q)' => AppOf[q] = b /\ request'[q].at \notin {"new", "waiting", "ok"}
             /\ InLines(b, q)' => worker'[b].serves # q
             /\ InLines(b, q)' \/ (worker'[b].serves = q /\ Before(worker'[b])) =>
                    effects'[q] < Written(q)'
  BY <1>2, <1>3, <1>7, <1>5, <1>4 DEF Has, DeliveryInvariant
<1>10. \A b \in Apps : \A i, j \in DOMAIN lines'[b] : lines'[b][i] = lines'[b][j] => i = j
  <2> SUFFICES ASSUME NEW b \in Apps, NEW i \in DOMAIN lines'[b], NEW j \in DOMAIN lines'[b],
                      lines'[b][i] = lines'[b][j]
               PROVE  i = j
    OBVIOUS
  <2>1. CASE lines'[b] = lines[b]
    BY <2>1 DEF DeliveryInvariant
  <2>2. CASE b = a /\ lines'[b] = Append(lines[b], r)
    <3>1. lines[b] \in Seq(Requests)
      BY DEF TypeInvariant, TypeOK
    <3>2. \A k \in DOMAIN lines[b] : lines[b][k] # r /\ lines'[b][k] = lines[b][k]
      BY <1>2, <2>2, <3>1 DEF Has, InLines
    <3>3. \A k \in DOMAIN lines'[b] :
              k \in DOMAIN lines[b] \/ (k = Len(lines[b]) + 1 /\ lines'[b][k] = r)
      BY <2>2, <3>1
    <3> QED
      BY <3>2, <3>3 DEF DeliveryInvariant
  <2> QED
    BY <1>6, <2>1, <2>2
<1> QED
  BY <1>8, <1>9, <1>10 DEF DeliveryInvariant

\* Reading a line: the worker has the request, and no other line of it.
LEMMA ReadStep ==
    ASSUME TypeInvariant, DeliveryInvariant, NEW a \in Apps, Read(a)
    PROVE  DeliveryInvariant'
<1> PICK s \in Requests : s = Head(lines[a])
  BY DEF Read, TypeInvariant, TypeOK
<1>1. /\ lines[a] \in Seq(Requests) /\ lines[a] # <<>>
      /\ s = lines[a][1] /\ 1 \in DOMAIN lines[a]
  BY DEF Read, TypeInvariant, TypeOK
<1>2. /\ InLines(a, s) /\ AppOf[s] = a /\ effects[s] < Written(s)
      /\ request[s].at \notin {"new", "waiting", "ok"}
  BY <1>1 DEF InLines, DeliveryInvariant, Has
<1>3. /\ \A b \in Apps : b # a => lines'[b] = lines[b] /\ worker'[b] = worker[b]
      /\ lines'[a] = Tail(lines[a]) /\ worker'[a].serves = s
  <2>1. Idle \in Worker
    BY RecordsTyped DEF Fit
  <2> QED
    BY <2>1 DEF Read, TypeInvariant, TypeOK, Worker
<1>4. UNCHANGED <<request, effects>> /\ \A r \in Requests : Written(r)' = Written(r)
  BY DEF Read, app, Written
<1>5. \A i \in DOMAIN lines'[a] : /\ i + 1 \in DOMAIN lines[a]
                                  /\ lines'[a][i] = lines[a][i + 1]
  BY <1>1, <1>3
<1>6. DOMAIN lines[a] \subseteq Nat /\ DOMAIN lines'[a] \subseteq Nat \ {0}
  BY <1>1, <1>3
<1>7. ~InLines(a, s)'
  BY <1>1, <1>5, <1>6 DEF InLines, DeliveryInvariant
<1>8. ASSUME NEW b \in Apps, NEW r \in Requests, InLines(b, r)'
      PROVE  InLines(b, r)
  <2>1. PICK i \in DOMAIN lines'[b] : lines'[b][i] = r
    BY <1>8 DEF InLines
  <2>2. CASE b = a
    BY <1>5, <2>1, <2>2 DEF InLines
  <2>3. CASE b # a
    <3>1. lines'[b] = lines[b]
      BY <1>3, <2>3
    <3> QED
      BY <2>1, <3>1 DEF InLines
  <2> QED
    BY <2>2, <2>3
<1>9. \A r \in Requests : effects'[r] <= Written(r)'
  BY <1>4 DEF DeliveryInvariant
<1>10. ASSUME NEW b \in Apps, NEW r \in Requests
       PROVE  /\ Has(b, r)' => AppOf[r] = b /\ request'[r].at \notin {"new", "waiting", "ok"}
              /\ InLines(b, r)' => worker'[b].serves # r
              /\ InLines(b, r)' \/ (worker'[b].serves = r /\ Before(worker'[b])) =>
                     effects'[r] < Written(r)'
  BY <1>4, <1>2, <1>7, <1>3, <1>8 DEF Has, DeliveryInvariant
<1>11. \A b \in Apps : \A i, j \in DOMAIN lines'[b] : lines'[b][i] = lines'[b][j] => i = j
  <2> SUFFICES ASSUME NEW b \in Apps, NEW i \in DOMAIN lines'[b], NEW j \in DOMAIN lines'[b],
                      lines'[b][i] = lines'[b][j]
               PROVE  i = j
    OBVIOUS
  <2>1. CASE b = a
    <3>1. i + 1 = j + 1
      BY <1>5, <2>1 DEF DeliveryInvariant
    <3> QED
      BY <1>6, <2>1, <3>1
  <2>2. CASE b # a
    BY <1>3, <2>2 DEF DeliveryInvariant
  <2> QED
    BY <2>1, <2>2
<1> QED
  BY <1>9, <1>10, <1>11 DEF DeliveryInvariant

\* How the steps of an app move a request.
LEMMA MovedTo ==
    ASSUME TypeInvariant, NEW r \in Requests,
           NEW new \in Requested, request' = [request EXCEPT ![r] = new]
    PROVE  /\ request'[r] = new
           /\ \A q \in Requests : q # r => request'[q] = request[q] /\ Written(q)' = Written(q)
           /\ new.at = "waiting" => Written(r)' = new.attempt
           /\ new.at \in {"ok", "error", "lost"} => Written(r)' = 2
BY DEF TypeInvariant, TypeOK, Written, Requested

LEMMA MovesIs ==
    ASSUME TypeInvariant, NEW r \in Requests,
           NEW at \in {"waiting", "sent", "ok", "error"}, Moves(r, at)
    PROVE  /\ request' = [request EXCEPT ![r] = [at |-> at, attempt |-> request[r].attempt]]
           /\ [at |-> at, attempt |-> request[r].attempt] \in Requested
<1>1. request[r] \in Requested /\ request[r].attempt \in {0, 1}
  BY DEF TypeInvariant, TypeOK, Requested
<1>2. [request[r] EXCEPT !.at = at] = [at |-> at, attempt |-> request[r].attempt]
  BY <1>1 DEF Requested
<1>3. request' = [request EXCEPT ![r] = [request[r] EXCEPT !.at = at]]
  BY DEF Moves
<1>4. [at |-> at, attempt |-> request[r].attempt] \in Requested
  BY <1>1 DEF Requested
<1> QED
  BY <1>2, <1>3, <1>4

\* One request moves, and a worker may have ended.
LEMMA OneMoves ==
    ASSUME TypeInvariant, DeliveryInvariant, NEW r \in Requests,
           NEW new \in Requested, request' = [request EXCEPT ![r] = new],
           \/ new.at = "waiting" /\ Written(r) <= new.attempt /\ \A b \in Apps : ~Has(b, r)'
           \/ new.at = "ok" /\ \A b \in Apps : ~Has(b, r)'
           \/ new.at = "error",
           \A b \in Apps : lines'[b] = lines[b] \/ lines'[b] = <<>>,
           \A b \in Apps : worker'[b] = worker[b] \/ worker'[b] = Idle,
           UNCHANGED effects
    PROVE  DeliveryInvariant'
<1>1. \A q \in Requests : Written(q) \in Nat /\ Written(q) <= 2
  BY WrittenTyped
<1>2. new.attempt \in Nat
  BY DEF Requested
<1>3. \A q \in Requests : Written(q)' \in Nat /\ Written(q) <= Written(q)'
  <2>1. ASSUME NEW q \in Requests, q # r
        PROVE  Written(q)' \in Nat /\ Written(q) <= Written(q)'
    <3>1. Written(q)' = Written(q)
      BY <2>1, MovedTo
    <3> QED
      BY <1>1, <3>1
  <2>2. Written(r)' \in Nat /\ Written(r) <= Written(r)'
    <3>1. \/ Written(r)' = new.attempt /\ Written(r) <= new.attempt
          \/ Written(r)' = 2
      BY MovedTo
    <3> QED
      BY <1>1, <1>2, <3>1
  <2> QED
    BY <2>1, <2>2
<1>4. \A q \in Requests : \/ request'[q].at \notin {"new", "waiting", "ok"}
                          \/ request'[q].at = request[q].at
                          \/ \A b \in Apps : ~Has(b, q)'
  BY MovedTo
<1> QED
  BY <1>3, <1>4, RequestsMove

\* Sending a request again: the worker that had its line is gone.
LEMMA TryAgainStep ==
    ASSUME TypeInvariant, DeliveryInvariant, NEW r \in Requests, request[r].at = "sent",
           TryAgain(r), UNCHANGED effects
    PROVE  DeliveryInvariant'
<1> DEFINE a == AppOf[r]
<1>1. a \in Apps
  BY TaskAssumption
<1>2. CASE /\ request[r].attempt = 0
           /\ request' = [request EXCEPT ![r] = [at |-> "waiting", attempt |-> 1]]
           /\ Ends(a, "none")
  <2> DEFINE new == [at |-> "waiting", attempt |-> 1]
  <2>1. new \in Requested /\ new.at = "waiting" /\ new.attempt = 1
    BY DEF Requested
  <2>5. Written(r) = 1
    BY <1>2 DEF Written
  <2>6. request' = [request EXCEPT ![r] = new] /\ Written(r) <= new.attempt
    BY <1>2, <2>1, <2>5
  <2>2. \A b \in Apps : lines'[b] = lines[b] \/ lines'[b] = <<>>
    BY <1>1, <1>2 DEF Ends, TypeInvariant, TypeOK
  <2>3. \A b \in Apps : worker'[b] = worker[b] \/ worker'[b] = Idle
    BY <1>1, <1>2 DEF Ends, TypeInvariant, TypeOK
  <2>4. ASSUME NEW b \in Apps
        PROVE  ~Has(b, r)'
    BY <1>1, <1>2, TaskAssumption DEF Ends, TypeInvariant, TypeOK, Idle, Has, InLines,
       DeliveryInvariant
  <2> QED
    <3> HIDE DEF new
    <3> QED
      BY <2>1, <2>2, <2>3, <2>4, <2>6, OneMoves
<1>3. CASE Moves(r, "error") /\ UNCHANGED process
  BY <1>3, MovesIs, OneMoves DEF process
<1> QED
  BY <1>2, <1>3 DEF TryAgain

\* The steps of the app keep the count of lines and effects,
LEMMA AppDelivery ==
    ASSUME TypeInvariant, DeliveryInvariant, NEW r \in Requests,
           Send(r) \/ Enter(r) \/ SpawnFails(r) \/ StreamCloses(r) \/ StreamBreaks(r)
    PROVE  DeliveryInvariant'
<1>1. CASE Send(r)
  <2>1. UNCHANGED process /\ UNCHANGED effects /\ request[r].at = "new"
    BY <1>1 DEF Send
  <2>2. \A b \in Apps : ~Has(b, r)'
    BY <2>1 DEF DeliveryInvariant, Has, InLines, process
  <2> DEFINE new == [at |-> "waiting", attempt |-> request[r].attempt]
  <2>3. new.at = "waiting" /\ new \in Requested /\ request' = [request EXCEPT ![r] = new]
    BY <1>1, MovesIs DEF Send
  <2>4. Written(r) <= new.attempt
    BY <2>1, <2>3 DEF Written, Requested
  <2> HIDE DEF new
  <2> QED
    BY <2>1, <2>2, <2>3, <2>4, OneMoves DEF process
<1>2. CASE Enter(r)
  BY <1>2, EnterStep
<1>3. CASE SpawnFails(r)
  BY <1>3, MovesIs, OneMoves DEF SpawnFails, process
<1>4. CASE StreamCloses(r) \/ StreamBreaks(r)
  BY <1>4, TryAgainStep DEF StreamCloses, StreamBreaks
<1> QED
  BY <1>1, <1>2, <1>3, <1>4

\* an exception at any place of a worker does,
LEMMA RaiseDelivery ==
    ASSUME TypeInvariant, DeliveryInvariant, NEW a \in Apps,
           NEW w, Fit(w), w.serves = worker[a].serves,
           Raise(a, w), UNCHANGED <<request, effects>>
    PROVE  DeliveryInvariant'
  BY RaiseLeaves, CalmStep

\* a worker that goes on without an effect does,
LEMMA GoDelivery ==
    ASSUME TypeInvariant, DeliveryInvariant, NEW a \in Apps,
           NEW v, v.serves = worker[a].serves, Before(v) => Before(worker[a]),
           Go(a, v), UNCHANGED <<request, effects>>
    PROVE  DeliveryInvariant'
BY CalmStep DEF Go, Keeps

\* and an update of the pipeline,
LEMMA UpdateDelivery ==
    ASSUME TypeInvariant, DeliveryInvariant, NEW a \in Apps,
           NEW status, NEW next, worker[a].at # "idle",
           worker[a].part = "build" /\ next = "capture" => Before(worker[a]),
           worker[a].part \in {"build", "giveup"},
           UpdatePipeline(a, status, next), UNCHANGED <<request, effects>>
    PROVE  DeliveryInvariant'
<1> DEFINE w == worker[a]
<1>1. CASE Raise(a, w)
  BY <1>1, WorkerFits, RaiseDelivery
<1>2. CASE Go(a, Announcing(w, status, next))
  BY WorkerFits, <1>2, GoDelivery DEF Fit, Announcing, Worker, Before, Publishing
<1> QED
  BY <1>1, <1>2 DEF UpdatePipeline

\* as do the steps of a worker up to the lock of its brain,
LEMMA TaskDelivery ==
    ASSUME TypeInvariant, DeliveryInvariant, NEW a \in Apps,
           Read(a) \/ EndOfInput(a) \/ Start(a) \/ Publish(a) \/ Copy(a) \/ Write(a) \/ Acquire(a)
    PROVE  DeliveryInvariant'
<1> DEFINE w == worker[a]
<1>1. w \in Worker /\ PlaceFits(w) /\ Fit(w)
  BY WorkerFits DEF Fit
<1>2. CASE Read(a)
  BY <1>2, ReadStep
<1>3. CASE EndOfInput(a)
  BY <1>3, CalmStep DEF Idle, Before, EndOfInput, Ends, Keeps, app
<1>4. CASE Start(a)
  <2> DEFINE v == [w EXCEPT !.at = "copy", !.next = "acquire"]
  <2>1. v.serves = w.serves /\ Before(w)
    BY <1>1, <1>4 DEF Worker, Start, At, PlaceFits, Before
  <2> QED
    BY <1>4, <2>1, GoDelivery DEF Start, app
<1>5. CASE Publish(a)
  <2> DEFINE v == [w EXCEPT !.at = "copy"]
  <2>1. v.serves = w.serves /\ (Before(v) => Before(w))
    BY <1>1, <1>5 DEF Worker, Publish, At, Before, Publishing
  <2>2. CASE Raise(a, w)
    BY <1>1, <1>5, <2>2, RaiseDelivery DEF Publish, app
  <2>3. CASE Go(a, v)
    BY <1>5, <2>1, <2>3, GoDelivery DEF Publish, app
  <2> QED
    BY <1>5, <2>2, <2>3 DEF Publish
<1>6. CASE Copy(a)
  <2> DEFINE read == [event |-> event, history |-> mirror[BrainOf[w.serves]].history]
             v == [w EXCEPT !.at = "write", !.read = read]
  <2>1. Go(a, v) /\ UNCHANGED <<request, effects>>
    BY <1>6 DEF Copy, app
  <2> HIDE DEF read
  <2>2. v.serves = w.serves /\ (Before(v) => Before(w))
    BY <1>1, <1>6 DEF Worker, Copy, At, Before, Publishing
  <2> QED
    BY <2>1, <2>2, GoDelivery
<1>7. CASE Write(a)
  <2>1. w.at = "write" /\ UNCHANGED <<request, effects>>
    BY <1>7 DEF Write, At, app
  <2>2. CASE Raise(a, [w EXCEPT !.context = TRUE])
    <3> DEFINE v == [w EXCEPT !.context = TRUE]
    <3>1. v \in Worker /\ PlaceFits(v) /\ v.serves = w.serves
      BY <1>1 DEF Worker, PlaceFits, Publishing
    <3> QED
      BY <2>1, <2>2, <3>1, RaiseDelivery DEF Fit
  <2>3. CASE ~(a \notin open \/ w.part = "giveup")
    <3> DEFINE part == IF w.next = "stages" THEN "build" ELSE w.part
               v == [w EXCEPT !.context = TRUE, !.read = NoMirror, !.at = w.next,
                              !.part = part]
    <3>1. Go(a, v)
      BY <1>7, <2>3 DEF Write
    <3>2. \/ w.next = "stages" /\ part = "build"
          \/ w.next # "stages" /\ part = w.part
      OBVIOUS
    <3> HIDE DEF part
    <3>3. v.serves = w.serves /\ (Before(v) => Before(w))
      BY <1>1, <2>1, <2>3, <3>2 DEF Worker, PlaceFits, Before, Publishing
    <3> QED
      BY <2>1, <3>1, <3>3, GoDelivery
  <2> QED
    BY <1>7, <2>2, <2>3 DEF Write
<1>8. CASE Acquire(a)
  <2> DEFINE v == [w EXCEPT !.at = "command", !.part = "command"]
  <2>1. CASE Raise(a, w)
    BY <1>1, <1>8, <2>1, RaiseDelivery DEF Acquire, app
  <2>2. CASE worker' = [worker EXCEPT ![a] = v] /\ UNCHANGED lines
    BY <1>1, <1>8, <2>2, CalmStep DEF Worker, Acquire, At, PlaceFits, Before, app, Keeps
  <2> QED
    BY <1>8, <2>1, <2>2 DEF Acquire
<1> QED
  BY <1>2, <1>3, <1>4, <1>5, <1>6, <1>7, <1>8

\* and those from the command to the answer,
LEMMA CommandDelivery ==
    ASSUME TypeInvariant, DeliveryInvariant, NEW a \in Apps,
           \/ Command(a) \/ HandlerRaises(a) \/ StartPipeline(a) \/ Stage(a) \/ Capture(a)
           \/ Complete(a) \/ Return(a) \/ Abandon(a) \/ Respond(a)
    PROVE  DeliveryInvariant'
<1> DEFINE w == worker[a]
<1>1. w \in Worker /\ PlaceFits(w) /\ Fit(w)
  BY WorkerFits DEF Fit
<1>2. CASE Command(a)
  BY <1>1, <1>2, RaiseLeaves, ReturnsLeaves, EffectStep DEF Command, At, PlaceFits, Before,
     app
<1>3. CASE HandlerRaises(a)
  BY <1>1, <1>3, RaiseDelivery DEF HandlerRaises, app
<1>4. CASE StartPipeline(a)
  <2> DEFINE v == Announcing(w, "running", "stages")
  <2>1. v.serves = w.serves /\ Before(w)
    BY <1>1, <1>4 DEF Worker, Announcing, StartPipeline, At, PlaceFits, Before
  <2> QED
    BY <1>4, <2>1, GoDelivery DEF StartPipeline, app
<1>5. CASE Stage(a)
  BY <1>1, <1>5, UpdateDelivery DEF Stage, At, PlaceFits, Before, app
<1>6. CASE Complete(a)
  BY <1>1, <1>6, UpdateDelivery DEF Complete, At, PlaceFits, app
<1>7. CASE Abandon(a)
  BY <1>1, <1>7, UpdateDelivery DEF Abandon, At, PlaceFits, app
<1>8. CASE Capture(a)
  <2> DEFINE v == [w EXCEPT !.at = "complete"]
  <2>1. w.serves \in Requests /\ Before(w)
    BY <1>1, <1>8 DEF Capture, At, PlaceFits, Before
  <2>2. v.serves = w.serves /\ ~Before(v)
    BY <1>1, <1>8 DEF Worker, Capture, At, PlaceFits, Before, Publishing
  <2>3. worker' = [worker EXCEPT ![a] = v] /\ Keeps(a)
    BY <1>8 DEF Capture, Go, Keeps
  <2> QED
    BY <1>8, <2>1, <2>2, <2>3, EffectStep DEF Capture, app
<1>9. CASE Return(a)
  BY <1>9, ReturnsLeaves, CalmStep DEF Return, app
<1>10. CASE Respond(a)
  <2>1. w.serves \in Requests /\ Idle.serves = NoRequest /\ ~Before(Idle)
    BY <1>1, <1>10 DEF Respond, At, PlaceFits, Idle, Before
  <2>2. CASE Raise(a, w) /\ UNCHANGED request
    BY <1>1, <1>10, <2>2, RaiseDelivery DEF Respond
  <2>3. CASE Go(a, Idle) /\ UNCHANGED request
    BY <1>10, <2>3, <2>1, CalmStep DEF Respond, Go, Keeps
  <2>4. CASE Go(a, Idle) /\ (Moves(w.serves, "ok") \/ Moves(w.serves, "error"))
    <3> PICK r \in Requests : r = w.serves
      BY <2>1
    <3>1. /\ UNCHANGED <<lines, effects>>
          /\ \A b \in Apps : worker'[b] = worker[b] \/ worker'[b] = Idle
          /\ worker'[a] = Idle
      BY <1>10, <2>4 DEF Respond, Go, TypeInvariant, TypeOK
    <3>2. AppOf[r] = a /\ ~InLines(a, r)
      BY DEF DeliveryInvariant, Has
    <3>3. ASSUME NEW b \in Apps
          PROVE  ~Has(b, r)'
      BY <3>1, <2>1, <3>2, TaskAssumption DEF InLines, Has, DeliveryInvariant
    <3>4. PICK at \in {"ok", "error"} : Moves(r, at)
      BY <2>4
    <3> DEFINE new == [at |-> at, attempt |-> request[r].attempt]
    <3>5. new.at = at /\ new \in Requested /\ request' = [request EXCEPT ![r] = new]
      BY <3>4, MovesIs
    <3> HIDE DEF new
    <3> QED
      BY <3>1, <3>3, <3>5, OneMoves
  <2> QED
    BY <1>10, <2>2, <2>3, <2>4 DEF Respond
<1> QED
  BY <1>2, <1>3, <1>4, <1>5, <1>6, <1>7, <1>8, <1>9, <1>10

\* and failing files, deaths and the closing of an app.
LEMMA FailureDelivery ==
    ASSUME TypeInvariant, DeliveryInvariant, NEW a \in Apps,
           FileFails(a) \/ Crash(a) \/ CloseApp(a)
    PROVE  DeliveryInvariant'
<1>1. CASE FileFails(a)
  BY <1>1, WorkerFits, RaiseDelivery DEF FileFails, app
<1>2. CASE Crash(a)
  BY <1>2, CalmStep DEF Idle, Before, Crash, Ends, Keeps, app
<1>3. CASE CloseApp(a)
  BY <1>3, WrittenTyped, RequestsMove DEF CloseApp, TypeInvariant, TypeOK, Written, process
<1> QED
  BY <1>1, <1>2, <1>3

LEMMA InitDelivery == Init => DeliveryInvariant
<1> SUFFICES ASSUME Init PROVE DeliveryInvariant
  OBVIOUS
<1>1. \A r \in Requests : effects[r] = 0 /\ Written(r) = 0 /\ request[r].at = "new"
  BY DEF Init, Written
<1>2. \A b \in Apps : lines[b] = <<>> /\ worker[b].serves = NoRequest
  BY DEF Init, Idle
<1>3. \A b \in Apps, r \in Requests : ~Has(b, r) /\ ~InLines(b, r) /\ worker[b].serves # r
  BY <1>2, TaskAssumption DEF Has, InLines
<1> QED
  BY <1>1, <1>2, <1>3 DEF DeliveryInvariant

LEMMA NextDelivery == TypeInvariant /\ DeliveryInvariant /\ [Next]_vars => DeliveryInvariant'
<1> SUFFICES ASSUME TypeInvariant, DeliveryInvariant, [Next]_vars PROVE DeliveryInvariant'
  OBVIOUS
<1>1. CASE Next
  BY <1>1, AppDelivery, TaskDelivery, CommandDelivery, FailureDelivery DEF Next, Serve
<1>2. CASE UNCHANGED vars
  BY <1>2, WrittenTyped, RequestsMove DEF vars, app, process, Written
<1> QED
  BY <1>1, <1>2

\* No command takes effect more than twice, for any apps and requests, however
\* often workers die, streams break, files fail and apps are closed: a request is
\* written to a worker twice at most, and each line gives one effect at most.
THEOREM AtMostTwiceCorrect == Spec => []AtMostTwice
<1>1. Spec => [](TypeInvariant /\ DeliveryInvariant)
  BY InitTypes, NextTypes, InitDelivery, NextDelivery, PTL DEF Spec
<1>2. TypeInvariant /\ DeliveryInvariant => AtMostTwice
  BY WrittenTyped DEF AtMostTwice, DeliveryInvariant, TypeInvariant, TypeOK
<1> QED
  BY <1>1, <1>2, PTL

-----------------------------------------------------------------------------
(* What the files say, where there is one app.                             *)

OneAppOnly == \A a, b \in Apps : a = b

\* WorkerTruthful of a worker that is reached by a step.
WillBeTruthful(v) ==
    /\ TaskStarted(v) => event'.task = v.serves
    /\ v.at = "publish" => TaskStarted(v)
    /\ PipelineStarted(v) => pipeline'[BrainOf[v.serves]].task = v.serves
    /\ After(v) => effects'[v.serves] > 0
    /\ v.at = "write" =>
           /\ v.read.event = event'
           /\ v.read.history = mirror'[BrainOf[v.serves]].history

LEMMA OneIsTruthful ==
    ASSUME OneAppOnly, TypeInvariant, NEW a \in Apps, NEW v,
           worker' = [worker EXCEPT ![a] = v], WillBeTruthful(v), FilesTruthful'
    PROVE  TruthInvariant'
<1>1. worker'[a] = v
  BY DEF TypeInvariant, TypeOK
<1>2. WorkerTruthful(worker[a])'
  BY <1>1 DEF WillBeTruthful, WorkerTruthful
<1>3. \A b \in Apps : b = a
  BY DEF OneAppOnly
<1> QED
  BY <1>2, <1>3 DEF TruthInvariant

\* A worker that has ended says nothing.
LEMMA IdleTruthful == WillBeTruthful(Idle)
BY DEF Idle, WillBeTruthful, TaskStarted, PipelineStarted, After, Publishing

\* What is true stays true, as effects are not undone.
LEMMA EffectsGrow ==
    ASSUME TypeInvariant, UNCHANGED effects \/ \E r \in Requests : TakesEffect(r)
    PROVE  \A q \in Requests : effects[q] > 0 => effects'[q] > 0
<1>1. CASE UNCHANGED effects
  BY <1>1
<1>2. ASSUME NEW r \in Requests, TakesEffect(r)
      PROVE  \A q \in Requests : effects[q] > 0 => effects'[q] > 0
  BY <1>2 DEF TypeInvariant, TypeOK, TakesEffect
<1> QED
  BY <1>1, <1>2

LEMMA FilesKept ==
    ASSUME TypeInvariant, FilesTruthful, UNCHANGED files,
           UNCHANGED effects \/ \E r \in Requests : TakesEffect(r)
    PROVE  FilesTruthful'
BY EffectsGrow DEF FilesTruthful, Truthful, Records, Entries, files

\* An exception leaves the request with the files it is about.
LEMMA RaiseTruth ==
    ASSUME OneAppOnly, TypeInvariant, NEW a \in Apps, NEW w, Fit(w),
           TaskStarted(w) => event.task = w.serves,
           PipelineStarted(w) => pipeline[BrainOf[w.serves]].task = w.serves,
           Raise(a, w), UNCHANGED <<event, pipeline>>, FilesTruthful'
    PROVE  TruthInvariant'
<1>1. w \in Worker
  BY DEF Fit
<1>2. CASE Ends(a, "dead")
  BY <1>2, IdleTruthful, OneIsTruthful DEF Ends
<1>3. CASE w.part = "build" /\ Go(a, GivingUp(w))
  BY <1>1, <1>3, OneIsTruthful DEF GivingUp, Worker, TaskStarted, PipelineStarted,
     WillBeTruthful, After, Publishing, Go
<1>4. CASE worker' = [worker EXCEPT ![a] = Failing(w)]
  <2> PICK v : v = Failing(w)
    OBVIOUS
  <2> DEFINE place == IF w.context THEN "publish" ELSE "respond"
  <2>1. /\ v.serves = w.serves /\ v.part = "except" /\ v.context = w.context
        /\ v.says = "failed" /\ v.next = "respond" /\ v.at = place
    BY <1>1 DEF Failing, Worker
  <2>2. (v.at = "publish" /\ w.context) \/ v.at = "respond"
    BY <2>1
  <2> HIDE DEF place
  <2>3. /\ TaskStarted(v) => TaskStarted(w)
        /\ v.at = "publish" => TaskStarted(v)
    BY <2>1, <2>2 DEF TaskStarted
  <2>4. ~PipelineStarted(v) /\ ~After(v)
    BY <2>1, <2>2 DEF PipelineStarted, After
  <2>5. WillBeTruthful(v)
    BY <2>1, <2>2, <2>3, <2>4 DEF WillBeTruthful
  <2> QED
    BY <1>4, <2>5, OneIsTruthful
<1> QED
  BY <1>2, <1>3, <1>4 DEF Raise, GivingUp

\* The return of a handler that took effect keeps the files about its request.
LEMMA ReturnsTruth ==
    ASSUME OneAppOnly, TypeInvariant, NEW a \in Apps, NEW w \in Worker, w = worker[a],
           event.task = w.serves, effects'[w.serves] > 0,
           Returns(a), UNCHANGED <<event, pipeline>>, FilesTruthful'
    PROVE  TruthInvariant'
<1> PICK v : v = Returned(w)
  OBVIOUS
<1>1. v.serves = w.serves /\ v.part = "finish" /\ v.at = "publish"
  BY DEF Returned, Announcing, Worker
<1>2. WillBeTruthful(v)
  BY <1>1 DEF WillBeTruthful, TaskStarted, PipelineStarted
<1>3. worker' = [worker EXCEPT ![a] = v]
  BY DEF Returns, Returned
<1> QED
  BY <1>2, <1>3, OneIsTruthful

\* The pipeline is told of the request it is about, and of its end after its effect.
LEMMA UpdateTruth ==
    ASSUME OneAppOnly, TypeInvariant, TruthInvariant, NEW a \in Apps,
           NEW status \in Statuses, NEW next \in Places,
           \/ worker[a].part = "build" /\ status = "running" /\ next = "capture"
           \/ worker[a].part = "build" /\ status = "completed" /\ next = "return" /\ After(worker[a])
           \/ worker[a].part = "giveup" /\ status = "failed" /\ next = "idle",
           UpdatePipeline(a, status, next), UNCHANGED <<event, mirror, effects>>
    PROVE  TruthInvariant'
<1> PICK w : w = worker[a]
  OBVIOUS
<1> PICK b : b = BrainOf[w.serves]
  OBVIOUS
<1>1. w \in Worker /\ Fit(w) /\ w.serves \in Requests /\ b \in Brains
  BY WorkerFits, TaskAssumption DEF Fit, PlaceFits
<1>2. TaskStarted(w) /\ PipelineStarted(w) /\ WorkerTruthful(w) /\ FilesTruthful
  BY DEF TaskStarted, PipelineStarted, TruthInvariant
<1>3. CASE Raise(a, w) /\ UNCHANGED pipeline
  BY <1>1, <1>2, <1>3, FilesKept, RaiseTruth DEF WorkerTruthful, files
<1>4. CASE /\ pipeline' = [pipeline EXCEPT ![b].status = status]
           /\ Go(a, Announcing(w, status, next))
  <2>1. pipeline[b].task = w.serves
    BY <1>2 DEF WorkerTruthful
  <2>2. /\ pipeline'[b].task = w.serves /\ pipeline'[b].status = status
        /\ \A c \in Brains : c # b => pipeline'[c] = pipeline[c]
    BY <1>1, <1>4, <2>1 DEF TypeInvariant, TypeOK
  <2>3. status = "completed" => effects[w.serves] > 0
    BY <1>2 DEF WorkerTruthful
  <2>4. \A c \in Brains : Truthful(pipeline[c])'
    BY <1>1, <1>2, <2>2, <2>3 DEF FilesTruthful, Truthful
  <2>5. FilesTruthful'
    BY <1>2, <2>4 DEF FilesTruthful, Truthful, Records, Entries
  <2> PICK v : v = Announcing(w, status, next)
    OBVIOUS
  <2>6. /\ v.serves = w.serves /\ v.part = w.part /\ v.at = "publish"
        /\ v.says = status /\ v.next = next
    BY <1>1 DEF Announcing, Worker
  <2>7. TaskStarted(v) /\ PipelineStarted(v)
    BY <2>6 DEF TaskStarted, PipelineStarted
  <2>8. After(v) => status = "completed"
    BY <2>6 DEF After
  <2>9. WillBeTruthful(v)
    BY <1>2, <2>2, <2>3, <2>6, <2>7, <2>8 DEF WillBeTruthful, WorkerTruthful
  <2> QED
    BY <1>4, <2>5, <2>9, OneIsTruthful DEF Go
<1> QED
  BY <1>3, <1>4 DEF UpdatePipeline

\* A worker that goes on with the same request and the files as they are.
LEMMA GoTruth ==
    ASSUME OneAppOnly, TypeInvariant, TruthInvariant, NEW a \in Apps, NEW v,
           v.serves = worker[a].serves,
           TaskStarted(v) => TaskStarted(worker[a]),
           PipelineStarted(v) => PipelineStarted(worker[a]),
           After(v) => After(worker[a]),
           v.at \notin {"publish", "write"},
           worker' = [worker EXCEPT ![a] = v], UNCHANGED <<event, pipeline, effects>>,
           FilesTruthful'
    PROVE  TruthInvariant'
  BY OneIsTruthful DEF TruthInvariant, WorkerTruthful, WillBeTruthful

\* Starting a task and publishing its status keep the files truthful,
LEMMA EventTruth ==
    ASSUME OneAppOnly, TypeInvariant, TruthInvariant, NEW a \in Apps, Start(a) \/ Publish(a)
    PROVE  TruthInvariant'
<1> PICK w : w = worker[a]
  OBVIOUS
<1>1. w \in Worker /\ PlaceFits(w) /\ Fit(w) /\ w.serves \in Requests
  BY WorkerFits DEF Fit, PlaceFits, Start, Publish, At
<1>2. WorkerTruthful(w) /\ FilesTruthful
  BY DEF TruthInvariant
<1>3. CASE Start(a)
  <2> PICK v : v = [w EXCEPT !.at = "copy", !.next = "acquire"]
    OBVIOUS
  <2>1. w.part = "start"
    BY <1>1, <1>3 DEF Start, At, PlaceFits
  <2>2. v.serves = w.serves /\ v.part = "start" /\ v.at = "copy" /\ v.next = "acquire"
    BY <1>1, <2>1 DEF Worker
  <2>3. event'.task = w.serves /\ event'.status = "running"
    BY <1>3 DEF Start
  <2>4. WillBeTruthful(v)
    BY <2>2, <2>3 DEF WillBeTruthful, PipelineStarted, After
  <2>5. UNCHANGED <<mirror, pipeline, effects>>
    BY <1>3 DEF Start
  <2>6. FilesTruthful'
    BY <1>2, <2>3, <2>5 DEF FilesTruthful, Truthful, Records, Entries
  <2> QED
    BY <1>3, <2>4, <2>6, OneIsTruthful DEF Start, Go
<1>4. CASE Publish(a)
  <2>1. w.at = "publish" /\ UNCHANGED <<mirror, pipeline, effects>>
    BY <1>4 DEF Publish, At
  <2>2. TaskStarted(w) /\ event.task = w.serves
    BY <1>2, <2>1 DEF WorkerTruthful
  <2>3. CASE Raise(a, w) /\ UNCHANGED event
    BY <1>1, <1>2, <2>1, <2>3, FilesKept, RaiseTruth DEF WorkerTruthful, files
  <2>4. CASE /\ Go(a, [w EXCEPT !.at = "copy"])
             /\ event'.task = event.task /\ event'.status = w.says
    <3> PICK v : v = [w EXCEPT !.at = "copy"]
      OBVIOUS
    <3>1. v.serves = w.serves /\ v.part = w.part /\ v.at = "copy" /\ v.next = w.next
      BY <1>1 DEF Worker
    <3>2. w.says = "completed" => effects[w.serves] > 0
      BY <1>2, <2>1 DEF WorkerTruthful, After
    <3>3. /\ After(v) => After(w)
          /\ PipelineStarted(v) => PipelineStarted(w)
      BY <2>1, <3>1 DEF After, PipelineStarted, Publishing
    <3>4. WillBeTruthful(v)
      BY <1>2, <2>1, <2>2, <2>4, <3>1, <3>3 DEF WillBeTruthful, WorkerTruthful
    <3>5. FilesTruthful'
      BY <1>1, <1>2, <2>1, <2>2, <2>4, <3>2 DEF FilesTruthful, Truthful, Records, Entries
    <3> QED
      BY <2>4, <3>4, <3>5, OneIsTruthful DEF Go
  <2>5. \/ Raise(a, w) /\ UNCHANGED event
        \/ /\ Go(a, [w EXCEPT !.at = "copy"])
           /\ \E receipt : event' = [event EXCEPT !.status = w.says, !.receipt = receipt]
    BY <1>4 DEF Publish
  <2>6. ASSUME NEW receipt, event' = [event EXCEPT !.status = w.says, !.receipt = receipt]
        PROVE  event'.task = event.task /\ event'.status = w.says
    BY <2>6 DEF TypeInvariant, TypeOK, Event
  <2> QED
    BY <2>3, <2>4, <2>5, <2>6
<1> QED
  BY <1>3, <1>4

\* What a worker that has read its files writes.
LEMMA MirrorWritten ==
    ASSUME TypeInvariant, NEW a \in Apps, Write(a), worker[a].serves \in Requests,
           NEW b \in Brains, b = BrainOf[worker[a].serves],
           worker[a].read.event = event, worker[a].read.history = mirror[b].history
    PROVE  /\ mirror'[b].event = event
           /\ mirror'[b].history = Longer(mirror[b].history, event)
           /\ \A c \in Brains : c # b => mirror'[c] = mirror[c]
           /\ mirror[b].history \in Seq(Event) /\ event \in Event
<1>1. worker[a].read \in Mirror /\ mirror \in [Brains -> Mirror] /\ event \in Event
  BY WorkerFits DEF Fit, Worker, TypeInvariant, TypeOK
<1> PICK kept : kept = Longer(mirror[b].history, event)
  OBVIOUS
<1>2. mirror' = [mirror EXCEPT ![b] = [worker[a].read EXCEPT !.history = kept]]
  BY DEF Write, Longer
<1> QED
  BY <1>1, <1>2 DEF Mirror

\* so does the mirror of the brain,
LEMMA MirrorTruth ==
    ASSUME OneAppOnly, TypeInvariant, TruthInvariant, NEW a \in Apps, Copy(a) \/ Write(a)
    PROVE  TruthInvariant'
<1> PICK w : w = worker[a]
  OBVIOUS
<1>1. w \in Worker /\ PlaceFits(w) /\ Fit(w) /\ w.serves \in Requests
  BY WorkerFits DEF Fit, PlaceFits, Copy, Write, At
<1>2. WorkerTruthful(w) /\ FilesTruthful
  BY DEF TruthInvariant
<1> PICK b \in Brains : b = BrainOf[w.serves]
  BY <1>1, TaskAssumption
<1>3. CASE Copy(a)
  <2> PICK read : read = [event |-> event, history |-> mirror[b].history]
    OBVIOUS
  <2> PICK v : v = [w EXCEPT !.at = "write", !.read = read]
    OBVIOUS
  <2>1. w.at = "copy" /\ UNCHANGED <<files, effects>> /\ worker' = [worker EXCEPT ![a] = v]
    BY <1>3 DEF Copy, At, Go
  <2>2. /\ v.serves = w.serves /\ v.part = w.part /\ v.at = "write" /\ v.next = w.next
        /\ v.read = read
    BY <1>1 DEF Worker
  <2>3. /\ After(v) => After(w)
        /\ PipelineStarted(v) => PipelineStarted(w)
        /\ TaskStarted(w)
    BY <2>1, <2>2 DEF After, PipelineStarted, TaskStarted, Publishing
  <2>4. WillBeTruthful(v)
    BY <1>2, <2>1, <2>2, <2>3 DEF WillBeTruthful, WorkerTruthful, files
  <2> QED
    BY <1>2, <2>1, <2>4, FilesKept, OneIsTruthful
<1>4. CASE Write(a)
  <2>1. w.at = "write" /\ UNCHANGED <<event, pipeline, effects>>
    BY <1>4 DEF Write, At
  <2>2. TaskStarted(w) /\ event.task = w.serves
        /\ w.read.event = event /\ w.read.history = mirror[b].history
    BY <1>2, <2>1 DEF WorkerTruthful, TaskStarted
  <2>3. /\ mirror'[b].event = event
        /\ mirror'[b].history = Longer(mirror[b].history, event)
        /\ \A c \in Brains : c # b => mirror'[c] = mirror[c]
        /\ mirror[b].history \in Seq(Event) /\ event \in Event
    BY <1>4, <1>1, <2>2, MirrorWritten
  <2>7. Entries(b)' \subseteq Entries(b) \cup {event}
    <3>1. /\ Entries(b) = Values(mirror[b].history)
          /\ Entries(b)' = Values(mirror'[b].history)
      BY DEF Entries, Values
    <3>2. Values(Longer(mirror[b].history, event)) \subseteq Values(mirror[b].history) \cup {event}
      BY <2>3, KeptValues
    <3>3. mirror'[b].history = Longer(mirror[b].history, event)
      BY <2>3
    <3> QED
      BY <3>1, <3>2, <3>3, Zenon
  <2>8. \A c \in Brains : c # b => Entries(c)' = Entries(c)
    BY <2>3 DEF Entries
  <2>9. \A e : Truthful(e) => Truthful(e)'
    BY <2>1 DEF Truthful
  <2>10. \A e \in Entries(b) \cup {event} :
            Truthful(e) /\ e.task \in Requests /\ BrainOf[e.task] = b
    BY <1>1, <1>2, <2>2 DEF FilesTruthful, Records
  <2>11. \A c \in Brains : \A e \in Entries(c)' :
            Truthful(e)' /\ e.task \in Requests /\ BrainOf[e.task] = c
    <3>1. \A e \in Entries(b)' :
             Truthful(e)' /\ e.task \in Requests /\ BrainOf[e.task] = b
      BY <2>7, <2>9, <2>10
    <3>2. ASSUME NEW c \in Brains, c # b
          PROVE  \A e \in Entries(c)' :
                    Truthful(e)' /\ e.task \in Requests /\ BrainOf[e.task] = c
      BY <1>2, <2>8, <2>9, <3>2 DEF FilesTruthful, Records
    <3> QED
      BY <3>1, <3>2
  <2>12. \A c \in Brains : Truthful(mirror[c].event)' /\ Truthful(pipeline[c])'
    BY <1>2, <2>1, <2>3, <2>9, <2>10 DEF FilesTruthful, Records
  <2>4. FilesTruthful'
    BY <1>2, <2>1, <2>9, <2>11, <2>12 DEF FilesTruthful, Records
  <2>5. CASE Raise(a, [w EXCEPT !.context = TRUE])
    BY <1>1, <1>2, <2>1, <2>2, <2>4, <2>5, RaiseTruth DEF Worker, PlaceFits, Publishing,
       PipelineStarted, Fit, WorkerTruthful
  <2>6. CASE ~(a \notin open \/ w.part = "giveup")
    <3> PICK part : part = IF w.next = "stages" THEN "build" ELSE w.part
      OBVIOUS
    <3> PICK v : v = [w EXCEPT !.context = TRUE, !.read = NoMirror, !.at = w.next,
                               !.part = part]
      OBVIOUS
    <3>1. worker' = [worker EXCEPT ![a] = v]
      BY <1>4, <2>6 DEF Write, Go
    <3>2. v.serves = w.serves /\ v.part = part /\ v.at = w.next /\ v.next = w.next
      BY <1>1 DEF Worker
    <3>3. \/ part = "build" /\ w.next = "stages"
          \/ part = w.part /\ w.next # "stages"
      OBVIOUS
    <3>4. /\ PipelineStarted(v) => PipelineStarted(w)
          /\ After(v) => After(w)
          /\ v.at \notin {"publish", "write"}
      BY <1>1, <2>1, <2>6, <3>2, <3>3 DEF PlaceFits, PipelineStarted, After, Publishing
    <3> QED
      BY <2>1, <2>2, <2>4, <3>1, <3>2, <3>4, GoTruth
  <2> QED
    BY <1>4, <2>5, <2>6 DEF Write
<1> QED
  BY <1>3, <1>4

\* and what the worker does between its reports.
LEMMA WorkTruth ==
    ASSUME OneAppOnly, TypeInvariant, TruthInvariant, NEW a \in Apps,
           \/ Read(a) \/ EndOfInput(a) \/ Acquire(a) \/ Command(a) \/ HandlerRaises(a)
           \/ StartPipeline(a) \/ Stage(a) \/ Capture(a) \/ Complete(a) \/ Return(a)
           \/ Abandon(a) \/ Respond(a) \/ FileFails(a) \/ Crash(a)
    PROVE  TruthInvariant'
<1> PICK w : w = worker[a]
  OBVIOUS
<1>1. w \in Worker /\ PlaceFits(w) /\ Fit(w) /\ (w.at # "idle" => w.serves \in Requests)
  BY WorkerFits DEF Fit, PlaceFits
<1>2. WorkerTruthful(w) /\ FilesTruthful
  BY DEF TruthInvariant
<1>3. ASSUME Raise(a, w), UNCHANGED <<files, effects>>
      PROVE  TruthInvariant'
  BY <1>1, <1>2, <1>3, FilesKept, RaiseTruth DEF WorkerTruthful, files
<1>4. ASSUME NEW how, Ends(a, how), UNCHANGED <<files, effects>>
      PROVE  TruthInvariant'
  BY <1>2, <1>4, FilesKept, IdleTruthful, OneIsTruthful DEF Ends
<1>5. CASE Read(a)
  BY <1>2, <1>5, FilesKept, OneIsTruthful DEF Idle, WillBeTruthful, TaskStarted,
     PipelineStarted, After, Publishing, Read
<1>6. CASE EndOfInput(a) \/ Crash(a)
  BY <1>4, <1>6 DEF EndOfInput, Crash
<1>7. CASE HandlerRaises(a) \/ FileFails(a)
  BY <1>3, <1>7 DEF HandlerRaises, FileFails
<1>8. CASE Acquire(a)
  BY <1>8, <1>3, <1>1, <1>2, FilesKept, GoTruth DEF Acquire, At, Worker, TaskStarted,
     PipelineStarted, After, Publishing, files
<1>9. CASE Command(a)
  <2>1. w.serves \in Requests /\ w.part = "command" /\ TakesEffect(w.serves) /\ UNCHANGED files
    BY <1>1, <1>9 DEF Command, At, PlaceFits
  <2>2. FilesTruthful'
    BY <1>2, <2>1, FilesKept
  <2>3. event.task = w.serves
    BY <1>2, <2>1 DEF WorkerTruthful, TaskStarted
  <2>4. effects'[w.serves] > 0
    BY <2>1 DEF TypeInvariant, TypeOK, TakesEffect
  <2>5. CASE Returns(a)
    BY <1>1, <2>1, <2>2, <2>3, <2>4, <2>5, ReturnsTruth DEF files
  <2>6. CASE Raise(a, w)
    BY <1>1, <1>2, <2>1, <2>2, <2>6, RaiseTruth DEF files, WorkerTruthful
  <2> QED
    BY <1>9, <2>5, <2>6 DEF Command
<1>10. CASE StartPipeline(a)
  <2> PICK b \in Brains : b = BrainOf[w.serves]
    BY <1>1, <1>10, TaskAssumption DEF StartPipeline, At
  <2> PICK v : v = Announcing(w, "running", "stages")
    OBVIOUS
  <2>1. w.part = "command" /\ TaskStarted(w)
    BY <1>1, <1>10 DEF StartPipeline, At, PlaceFits, TaskStarted
  <2>2. /\ v.serves = w.serves /\ v.part = w.part /\ v.at = "publish"
        /\ v.says = "running" /\ v.next = "stages"
    BY <1>1 DEF Announcing, Worker
  <2>3. TaskStarted(v) /\ ~After(v)
    BY <2>1, <2>2 DEF TaskStarted, After
  <2>4. /\ pipeline'[b].task = w.serves /\ pipeline'[b].status = "running"
        /\ \A c \in Brains : c # b => pipeline'[c] = pipeline[c]
        /\ UNCHANGED <<event, mirror, effects>>
    BY <1>10 DEF StartPipeline, TypeInvariant, TypeOK
  <2>5. WillBeTruthful(v)
    BY <1>2, <2>1, <2>2, <2>3, <2>4 DEF WillBeTruthful, WorkerTruthful
  <2>6. \A c \in Brains : Truthful(pipeline[c])'
    BY <1>2, <2>4 DEF FilesTruthful, Truthful
  <2>7. FilesTruthful'
    BY <1>2, <2>4, <2>6 DEF FilesTruthful, Truthful, Records, Entries
  <2> QED
    BY <1>10, <2>5, <2>7, OneIsTruthful DEF StartPipeline, Go
<1>11. CASE Stage(a) \/ Complete(a) \/ Abandon(a)
  BY <1>1, UpdateTruth, <1>11 DEF Statuses, Places, Stage, At, PlaceFits, Complete, After,
     Abandon
<1>12. CASE Capture(a)
  <2> PICK v : v = [w EXCEPT !.at = "complete"]
    OBVIOUS
  <2>1. w.part = "build" /\ w.serves \in Requests /\ TakesEffect(w.serves) /\ UNCHANGED files
    BY <1>1, <1>12 DEF Capture, At, PlaceFits
  <2>2. v.serves = w.serves /\ v.part = "build" /\ v.at = "complete"
    BY <1>1, <2>1 DEF Worker
  <2>3. effects'[w.serves] > 0
    BY <2>1 DEF TypeInvariant, TypeOK, TakesEffect
  <2>4. TaskStarted(w) /\ PipelineStarted(w)
    BY <2>1 DEF TaskStarted, PipelineStarted
  <2>5. WillBeTruthful(v)
    BY <1>2, <2>1, <2>2, <2>3, <2>4 DEF WillBeTruthful, WorkerTruthful, files
  <2>6. FilesTruthful'
    BY <1>2, <2>1, FilesKept
  <2> QED
    BY <1>12, <2>5, <2>6, OneIsTruthful DEF Capture, Go
<1>13. CASE Return(a)
  BY <1>1, <1>13, <1>2, FilesKept, ReturnsTruth DEF Return, At, PlaceFits, TaskStarted,
     After, WorkerTruthful, files
<1>14. CASE Respond(a)
  BY <1>14, <1>3, <1>2, FilesKept, IdleTruthful, OneIsTruthful DEF Respond, Go
<1> QED
  BY <1>5, <1>6, <1>7, <1>8, <1>9, <1>10, <1>11, <1>12, <1>13, <1>14

\* The steps of an app write no file; one may end the worker.
LEMMA AppTruth ==
    ASSUME OneAppOnly, TypeInvariant, TruthInvariant, NEW r \in Requests,
           Send(r) \/ Enter(r) \/ SpawnFails(r) \/ StreamCloses(r) \/ StreamBreaks(r)
    PROVE  TruthInvariant'
<1>1. UNCHANGED files /\ UNCHANGED effects
  BY DEF Send, Enter, SpawnFails, StreamCloses, StreamBreaks
<1>2. FilesTruthful'
  BY <1>1, FilesKept DEF TruthInvariant
<1>3. CASE Ends(AppOf[r], "none")
  BY <1>2, <1>3, IdleTruthful, OneIsTruthful, TaskAssumption DEF Ends
<1>4. CASE UNCHANGED worker
  BY <1>1, <1>2, <1>4 DEF TruthInvariant, WorkerTruthful, files
<1> QED
  BY <1>3, <1>4
     DEF Send, Enter, SpawnFails, StreamCloses, StreamBreaks, TryAgain, process

LEMMA InitTruth == Init => TruthInvariant
<1> SUFFICES ASSUME Init PROVE TruthInvariant
  OBVIOUS
<1>1. FilesTruthful
  BY DEF Init, FilesTruthful, Truthful, Records, Entries, NoMirror, NoEvent
<1>2. \A a \in Apps : WorkerTruthful(worker[a])
  BY DEF Init, Idle, WorkerTruthful, TaskStarted, PipelineStarted, After, Publishing
<1> QED
  BY <1>1, <1>2 DEF TruthInvariant

LEMMA NextTruth ==
    ASSUME OneAppOnly
    PROVE  TypeInvariant /\ TruthInvariant /\ [Next]_vars => TruthInvariant'
<1> SUFFICES ASSUME TypeInvariant, TruthInvariant, [Next]_vars PROVE TruthInvariant'
  OBVIOUS
<1>1. ASSUME NEW a \in Apps, CloseApp(a)
      PROVE  TruthInvariant'
  BY <1>1, FilesKept DEF CloseApp, process, TruthInvariant, WorkerTruthful, files
<1>2. CASE Next
  BY <1>1, <1>2, AppTruth, EventTruth, MirrorTruth, WorkTruth DEF Next, Serve
<1>3. CASE UNCHANGED vars
  BY <1>3, FilesKept DEF vars, process, TruthInvariant, WorkerTruthful, files
<1> QED
  BY <1>2, <1>3

\* No file says that a command is completed that has not taken effect, for any
\* brains and requests of one app, whatever fails and dies.
THEOREM CompletedCorrect == OneAppOnly => (Spec => []CompletedTookEffect)
<1> SUFFICES ASSUME OneAppOnly PROVE Spec => []CompletedTookEffect
  OBVIOUS
<1>1. Spec => [](TypeInvariant /\ TruthInvariant)
  BY InitTypes, NextTypes, InitTruth, NextTruth, PTL DEF Spec
<1>2. TypeInvariant /\ TruthInvariant => CompletedTookEffect
  BY DEF CompletedTookEffect, TruthInvariant, FilesTruthful, Truthful
<1> QED
  BY <1>1, <1>2, PTL

\* The record of a brain never holds another brain's task, for any brains and
\* requests of one app (with two it may, as the run task_mirror shows).
THEOREM MirrorCorrect == OneAppOnly => (Spec => []MirrorKeepsItsBrain)
<1> SUFFICES ASSUME OneAppOnly PROVE Spec => []MirrorKeepsItsBrain
  OBVIOUS
<1>1. Spec => [](TypeInvariant /\ TruthInvariant)
  BY InitTypes, NextTypes, InitTruth, NextTruth, PTL DEF Spec
<1>2. TruthInvariant => MirrorKeepsItsBrain
  BY DEF TruthInvariant, FilesTruthful, MirrorKeepsItsBrain
<1> QED
  BY <1>1, <1>2, PTL

-----------------------------------------------------------------------------
(* What an answer leaves in the files, where there is one app.             *)

\* The three inductive invariants of one app.
OneAppInvariant == TypeInvariant /\ DeliveryInvariant /\ TruthInvariant

\* EndRecorded of a worker that is reached by a step.
WillBeRecorded(v) ==
    /\ HasResult(v) /\ pipeline'[BrainOf[v.serves]].task = v.serves =>
           pipeline'[BrainOf[v.serves]].status = "completed"
    /\ v.part = "finish" =>
           /\ v.at = "publish" => v.says = "completed"
           /\ v.at \in {"copy", "write"} => event'.status = "completed"
           /\ v.at = "respond" => SaysCompleted(mirror'[BrainOf[v.serves]].history, v.serves)

LEMMA OneIsRecorded ==
    ASSUME OneAppOnly, TypeInvariant, NEW a \in Apps, NEW v,
           worker' = [worker EXCEPT ![a] = v], WillBeRecorded(v),
           AnswersRecorded', PipelinesOfBuilds'
    PROVE  RecordInvariant'
<1>1. worker'[a] = v
  BY DEF TypeInvariant, TypeOK
<1>2. EndRecorded(worker[a])'
  BY <1>1 DEF WillBeRecorded, EndRecorded, HasResult, PipelineDone, Recorded, Publishing
<1>3. \A b \in Apps : b = a
  BY DEF OneAppOnly
<1> QED
  BY <1>2, <1>3 DEF RecordInvariant

LEMMA IdleRecorded == WillBeRecorded(Idle)
BY DEF Idle, WillBeRecorded, HasResult, Publishing

\* Answers stay recorded while what the mirrors say of them stays, effects grow
\* and no pipeline of an answered request is changed.
LEMMA AnswersKept ==
    ASSUME TypeInvariant, AnswersRecorded,
           \A r \in Requests : request'[r].at = "ok" => request[r].at = "ok",
           UNCHANGED effects \/ \E r \in Requests : TakesEffect(r),
           \A r \in Requests : request[r].at = "ok" /\ Recorded(r) => Recorded(r)',
           \A r \in Requests : request[r].at = "ok" =>
               pipeline'[BrainOf[r]] = pipeline[BrainOf[r]] \/ pipeline'[BrainOf[r]].task # r
    PROVE  AnswersRecorded'
<1> SUFFICES ASSUME NEW r \in Requests, request'[r].at = "ok"
             PROVE  effects'[r] > 0 /\ Recorded(r)' /\ PipelineDone(r)'
  BY DEF AnswersRecorded
<1>1. /\ effects[r] > 0 /\ Recorded(r) /\ PipelineDone(r) /\ BrainOf[r] \in Brains
      /\ request[r].at = "ok"
  BY TaskAssumption DEF AnswersRecorded
<1>2. effects'[r] > 0
  BY <1>1, EffectsGrow
<1>3. Recorded(r)'
  BY <1>1
<1>4. PipelineDone(r)'
  BY <1>1 DEF PipelineDone
<1> QED
  BY <1>2, <1>3, <1>4

\* A step that leaves requests and files alone.
LEMMA AnswersStay ==
    ASSUME TypeInvariant, RecordInvariant, UNCHANGED <<request, files>>,
           UNCHANGED effects \/ \E r \in Requests : TakesEffect(r)
    PROVE  AnswersRecorded' /\ PipelinesOfBuilds'
  BY AnswersKept DEF RecordInvariant, files, PipelinesOfBuilds, Recorded

\* An exception gives no result.
LEMMA RaiseRecord ==
    ASSUME OneAppOnly, TypeInvariant, NEW a \in Apps, NEW w, Fit(w),
           Raise(a, w), AnswersRecorded', PipelinesOfBuilds'
    PROVE  RecordInvariant'
<1>1. w \in Worker
  BY DEF Fit
<1>2. CASE Ends(a, "dead")
  BY <1>2, IdleRecorded, OneIsRecorded DEF Ends
<1>3. CASE w.part = "build" /\ Go(a, GivingUp(w))
  BY <1>1, <1>3, OneIsRecorded DEF GivingUp, Worker, WillBeRecorded, HasResult, Publishing,
     Go
<1>4. CASE worker' = [worker EXCEPT ![a] = Failing(w)]
  <2> PICK v : v = Failing(w)
    OBVIOUS
  <2> DEFINE place == IF w.context THEN "publish" ELSE "respond"
  <2>1. v.part = "except" /\ v.next = "respond" /\ v.at = place
    BY <1>1 DEF Failing, Worker
  <2>2. v.at # "return"
    BY <2>1
  <2> HIDE DEF place
  <2>3. WillBeRecorded(v)
    BY <2>1, <2>2 DEF WillBeRecorded, HasResult
  <2> QED
    BY <1>4, <2>3, OneIsRecorded
<1> QED
  BY <1>2, <1>3, <1>4 DEF Raise, GivingUp

\* The return of a handler whose pipeline is at its end.
LEMMA ReturnsRecord ==
    ASSUME OneAppOnly, TypeInvariant, NEW a \in Apps, NEW w \in Worker, w = worker[a],
           pipeline'[BrainOf[w.serves]].task = w.serves =>
               pipeline'[BrainOf[w.serves]].status = "completed",
           Returns(a), AnswersRecorded', PipelinesOfBuilds'
    PROVE  RecordInvariant'
<1> PICK v : v = Returned(w)
  OBVIOUS
<1>1. v.serves = w.serves /\ v.part = "finish" /\ v.at = "publish" /\ v.says = "completed"
  BY DEF Returned, Announcing, Worker
<1>2. WillBeRecorded(v)
  BY <1>1 DEF WillBeRecorded
<1>3. worker' = [worker EXCEPT ![a] = v]
  BY DEF Returns, Returned
<1> QED
  BY <1>2, <1>3, OneIsRecorded

\* A request that a worker serves has not been answered with its result.
LEMMA ServedIsNotOk ==
    ASSUME DeliveryInvariant, NEW a \in Apps, NEW r \in Requests, request[r].at = "ok"
    PROVE  worker[a].serves # r
BY DEF DeliveryInvariant, Has

\* The pipeline of the request that is served, and of no other, is changed.
LEMMA UpdateRecord ==
    ASSUME OneAppOnly, OneAppInvariant, RecordInvariant, NEW a \in Apps,
           NEW status \in Statuses, NEW next \in Places,
           worker[a].part \in {"build", "giveup"}, next = "return" => status = "completed",
           UpdatePipeline(a, status, next), UNCHANGED <<event, mirror, effects, request>>
    PROVE  RecordInvariant'
<1> PICK w : w = worker[a]
  OBVIOUS
<1> PICK b : b = BrainOf[w.serves]
  OBVIOUS
<1>1. w \in Worker /\ Fit(w) /\ w.serves \in Requests /\ b \in Brains /\ TypeInvariant
  BY WorkerFits, TaskAssumption DEF OneAppInvariant, Fit, PlaceFits
<1>2. pipeline[b].task = w.serves
  BY DEF OneAppInvariant, TruthInvariant, WorkerTruthful, PipelineStarted
<1>3. CASE Raise(a, w) /\ UNCHANGED pipeline
  BY <1>1, <1>3, AnswersStay, RaiseRecord DEF files
<1>4. CASE /\ pipeline' = [pipeline EXCEPT ![b].status = status]
           /\ Go(a, Announcing(w, status, next))
  <2>1. /\ pipeline'[b].task = w.serves /\ pipeline'[b].status = status
        /\ \A c \in Brains : c # b => pipeline'[c] = pipeline[c]
        /\ \A c \in Brains : pipeline'[c].task = pipeline[c].task
    BY <1>1, <1>2, <1>4 DEF TypeInvariant, TypeOK
  <2>2. \A r \in Requests : request[r].at = "ok" =>
            pipeline'[BrainOf[r]] = pipeline[BrainOf[r]] \/ pipeline'[BrainOf[r]].task # r
    BY <2>1, ServedIsNotOk, TaskAssumption DEF OneAppInvariant
  <2>3. AnswersRecorded'
    BY <1>1, <2>2, AnswersKept DEF RecordInvariant, Recorded
  <2>4. PipelinesOfBuilds'
    BY <2>1 DEF RecordInvariant, PipelinesOfBuilds
  <2> PICK v : v = Announcing(w, status, next)
    OBVIOUS
  <2>5. /\ v.serves = w.serves /\ v.part = w.part /\ v.at = "publish"
        /\ v.says = status /\ v.next = next
    BY <1>1 DEF Announcing, Worker
  <2>6. HasResult(v) => status = "completed"
    BY <2>5 DEF HasResult
  <2>7. WillBeRecorded(v)
    BY <2>1, <2>5, <2>6 DEF WillBeRecorded
  <2> QED
    BY <1>1, <1>4, <2>3, <2>4, <2>7, OneIsRecorded DEF Go
<1> QED
  BY <1>3, <1>4 DEF UpdatePipeline

\* Publishing the end and mirroring it record the answer before it is given,
LEMMA EventRecord ==
    ASSUME OneAppOnly, OneAppInvariant, RecordInvariant, NEW a \in Apps,
           Start(a) \/ Publish(a) \/ Copy(a)
    PROVE  RecordInvariant'
<1> PICK w : w = worker[a]
  OBVIOUS
<1>1. /\ w \in Worker /\ PlaceFits(w) /\ Fit(w) /\ w.serves \in Requests /\ TypeInvariant
      /\ EndRecorded(w)
  BY WorkerFits
     DEF OneAppInvariant, RecordInvariant, Fit, PlaceFits, Start, Publish, Copy, At
<1>2. UNCHANGED <<request, mirror, pipeline, effects>>
  BY DEF Start, Publish, Copy, app, files
<1>3. AnswersRecorded' /\ PipelinesOfBuilds'
  BY <1>1, <1>2, AnswersKept DEF RecordInvariant, PipelinesOfBuilds, Recorded
<1>4. ASSUME NEW v, worker' = [worker EXCEPT ![a] = v], v.serves = w.serves,
             HasResult(v) => HasResult(w),
             v.at \in {"copy", "write"},
             v.part = "finish" => event'.status = "completed"
      PROVE  RecordInvariant'
  BY <1>1, <1>2, <1>4, <1>3, OneIsRecorded DEF WillBeRecorded, EndRecorded, PipelineDone
<1>5. CASE Start(a)
  BY <1>1, <1>5, <1>4 DEF Worker, Start, At, PlaceFits, Go, HasResult
<1>6. CASE Publish(a)
  <2> PICK v : v = [w EXCEPT !.at = "copy"]
    OBVIOUS
  <2>1. w.at = "publish"
    BY <1>6 DEF Publish, At
  <2>2. v.serves = w.serves /\ v.at = "copy" /\ v.next = w.next /\ v.part = w.part
    BY <1>1 DEF Worker
  <2>3. HasResult(v) => HasResult(w)
    BY <2>1, <2>2 DEF HasResult, Publishing
  <2>4. CASE Raise(a, w)
    BY <1>1, <1>3, <2>4, RaiseRecord
  <2>5. CASE Go(a, v) /\ event'.status = w.says
    BY <1>1, <2>1, <2>2, <2>5, <1>4, <2>3 DEF EndRecorded, Go
  <2>6. \/ Raise(a, w)
        \/ /\ Go(a, v)
           /\ \E receipt : event' = [event EXCEPT !.status = w.says, !.receipt = receipt]
    BY <1>6 DEF Publish
  <2>7. ASSUME NEW receipt, event' = [event EXCEPT !.status = w.says, !.receipt = receipt]
        PROVE  event'.status = w.says
    BY <1>1, <2>7 DEF TypeInvariant, TypeOK, Event
  <2> QED
    BY <2>4, <2>5, <2>6, <2>7
<1>7. CASE Copy(a)
  <2> PICK read : read = [event |-> event, history |-> mirror[BrainOf[w.serves]].history]
    OBVIOUS
  <2> PICK v : v = [w EXCEPT !.at = "write", !.read = read]
    OBVIOUS
  <2>1. w.at = "copy" /\ UNCHANGED event /\ worker' = [worker EXCEPT ![a] = v]
    BY <1>7 DEF Copy, At, Go, files
  <2>2. v.serves = w.serves /\ v.at = "write" /\ v.next = w.next /\ v.part = w.part
    BY <1>1 DEF Worker
  <2>3. HasResult(v) => HasResult(w)
    BY <2>1, <2>2 DEF HasResult, Publishing
  <2>4. v.part = "finish" => event'.status = "completed"
    BY <1>1, <2>1, <2>2 DEF EndRecorded
  <2> QED
    BY <1>4, <2>1, <2>2, <2>3, <2>4
<1> QED
  BY <1>5, <1>6, <1>7

LEMMA MirrorRecord ==
    ASSUME OneAppOnly, OneAppInvariant, RecordInvariant, NEW a \in Apps, Write(a)
    PROVE  RecordInvariant'
<1> PICK w : w = worker[a]
  OBVIOUS
<1>1. /\ w \in Worker /\ PlaceFits(w) /\ Fit(w) /\ w.serves \in Requests /\ TypeInvariant
      /\ EndRecorded(w) /\ WorkerTruthful(w) /\ w.at = "write"
  BY WorkerFits
     DEF OneAppInvariant, TruthInvariant, RecordInvariant, Fit, PlaceFits, Write, At
<1> PICK b \in Brains : b = BrainOf[w.serves]
  BY <1>1, TaskAssumption
<1>2. UNCHANGED <<request, event, pipeline, effects>>
  BY DEF Write, app
<1>3. event.task = w.serves /\ w.read.event = event /\ w.read.history = mirror[b].history
  BY <1>1 DEF WorkerTruthful, TaskStarted
<1>4. /\ mirror'[b].history = Longer(mirror[b].history, event)
      /\ \A c \in Brains : c # b => mirror'[c] = mirror[c]
      /\ mirror[b].history \in Seq(Event) /\ event \in Event
  BY <1>1, <1>3, MirrorWritten
<1>8. ASSUME NEW r \in Requests, request[r].at = "ok", Recorded(r)
      PROVE  Recorded(r)'
  <2>1. r # w.serves
    BY <1>8 DEF OneAppInvariant, DeliveryInvariant, Has
  <2>2. CASE BrainOf[r] = b
    BY <1>3, <1>4, <1>8, <2>1, <2>2, StillCompleted DEF Recorded
  <2>3. CASE BrainOf[r] # b
    BY <1>4, <1>8, <2>3, TaskAssumption DEF Recorded
  <2> QED
    BY <2>2, <2>3
<1>5. AnswersRecorded' /\ PipelinesOfBuilds'
  BY <1>8, <1>1, <1>2, AnswersKept DEF RecordInvariant, PipelinesOfBuilds, Recorded
<1>6. CASE Raise(a, [w EXCEPT !.context = TRUE])
  BY <1>1, <1>5, <1>6, RaiseRecord DEF Worker, PlaceFits, Publishing, Fit
<1>7. CASE ~(a \notin open \/ w.part = "giveup")
  <2> PICK part : part = IF w.next = "stages" THEN "build" ELSE w.part
    OBVIOUS
  <2> PICK v : v = [w EXCEPT !.context = TRUE, !.read = NoMirror, !.at = w.next,
                             !.part = part]
    OBVIOUS
  <2>1. worker' = [worker EXCEPT ![a] = v]
    BY <1>7 DEF Write, Go
  <2>2. v.serves = w.serves /\ v.part = part /\ v.at = w.next /\ v.next = w.next
    BY <1>1 DEF Worker
  <2>3. \/ part = "build" /\ w.next = "stages"
        \/ part = w.part /\ w.next # "stages"
    OBVIOUS
  <2>4. /\ HasResult(v) => HasResult(w)
        /\ v.at \notin Publishing
        /\ v.part = "finish" => w.part = "finish"
    BY <1>1, <1>7, <2>2, <2>3 DEF PlaceFits, HasResult, Publishing
  <2>5. w.part = "finish" => SaysCompleted(mirror'[b].history, w.serves)
    BY <1>1, <1>3, <1>4, NowCompleted DEF EndRecorded
  <2>6. WillBeRecorded(v)
    BY <1>1, <1>2, <1>3, <2>2, <2>4, <2>5
       DEF WillBeRecorded, EndRecorded, PipelineDone, Publishing
  <2> QED
    BY <1>1, <1>5, <2>1, <2>6, OneIsRecorded
<1> QED
  BY <1>6, <1>7 DEF Write

\* as does what the worker does between its reports,
LEMMA WorkRecord ==
    ASSUME OneAppOnly, OneAppInvariant, RecordInvariant, NEW a \in Apps,
           \/ Read(a) \/ EndOfInput(a) \/ Acquire(a) \/ Command(a) \/ HandlerRaises(a)
           \/ Capture(a) \/ Return(a) \/ FileFails(a) \/ Crash(a)
    PROVE  RecordInvariant'
<1> PICK w : w = worker[a]
  OBVIOUS
<1>1. /\ w \in Worker /\ PlaceFits(w) /\ Fit(w) /\ (w.at # "idle" => w.serves \in Requests)
      /\ TypeInvariant /\ EndRecorded(w)
  BY WorkerFits DEF OneAppInvariant, RecordInvariant, Fit, PlaceFits
<1>2. /\ UNCHANGED <<request, files>>
      /\ UNCHANGED effects \/ \E r \in Requests : TakesEffect(r)
  BY <1>1 DEF Read, EndOfInput, Acquire, Command, HandlerRaises, Capture, Return,
              FileFails, Crash, At, app
<1>3. AnswersRecorded' /\ PipelinesOfBuilds'
  BY <1>1, <1>2, AnswersStay
<1>4. CASE Raise(a, w)
  BY <1>1, <1>3, <1>4, RaiseRecord
<1>5. ASSUME NEW how, Ends(a, how)
      PROVE  RecordInvariant'
  BY <1>1, <1>3, <1>5, IdleRecorded, OneIsRecorded DEF Ends
<1>6. ASSUME NEW v, worker' = [worker EXCEPT ![a] = v], ~HasResult(v)
      PROVE  RecordInvariant'
  <2>1. WillBeRecorded(v)
    BY <1>6 DEF WillBeRecorded, HasResult
  <2> QED
    BY <1>1, <1>3, <1>6, <2>1, OneIsRecorded
<1>7. CASE Read(a)
  <2> PICK v : v = [Idle EXCEPT !.at = "start", !.part = "start", !.serves = Head(lines[a])]
    OBVIOUS
  <2>1. v.part = "start" /\ v.at = "start"
    BY DEF Idle
  <2> QED
    BY <1>6, <1>7, <2>1 DEF Read, HasResult, Publishing
<1>8. CASE EndOfInput(a) \/ Crash(a)
  BY <1>5, <1>8 DEF EndOfInput, Crash
<1>9. CASE HandlerRaises(a) \/ FileFails(a)
  BY <1>4, <1>9 DEF HandlerRaises, FileFails
<1>10. CASE Acquire(a)
  <2> PICK v : v = [w EXCEPT !.at = "command", !.part = "command"]
    OBVIOUS
  <2>1. v.part = "command" /\ v.at = "command"
    BY <1>1 DEF Worker
  <2>2. CASE worker' = [worker EXCEPT ![a] = v]
    BY <1>6, <2>1, <2>2 DEF HasResult, Publishing
  <2> QED
    BY <1>4, <1>10, <2>2 DEF Acquire
<1>11. CASE Command(a)
  BY <1>1, <1>11, TaskAssumption, <1>3, ReturnsRecord, <1>4 DEF Command, At,
     PipelinesOfBuilds
<1>12. CASE Capture(a)
  <2> PICK v : v = [w EXCEPT !.at = "complete"]
    OBVIOUS
  <2>1. v.part = "build" /\ v.at = "complete"
    BY <1>1, <1>12 DEF Worker, Capture, At, PlaceFits
  <2> QED
    BY <1>6, <1>12, <2>1 DEF Capture, Go, HasResult, Publishing
<1>13. CASE Return(a)
  BY <1>13, <1>1, <1>2, <1>3, ReturnsRecord DEF Return, At, HasResult, EndRecorded,
     PipelineDone, files
<1> QED
  BY <1>7, <1>8, <1>9, <1>10, <1>11, <1>12, <1>13

\* what the pipeline is told,
LEMMA PipelineRecord ==
    ASSUME OneAppOnly, OneAppInvariant, RecordInvariant, NEW a \in Apps,
           StartPipeline(a) \/ Stage(a) \/ Complete(a) \/ Abandon(a)
    PROVE  RecordInvariant'
<1> PICK w : w = worker[a]
  OBVIOUS
<1>1. w \in Worker /\ PlaceFits(w) /\ w.serves \in Requests /\ TypeInvariant
  BY WorkerFits
     DEF OneAppInvariant, Fit, PlaceFits, StartPipeline, Stage, Complete, Abandon, At
<1>2. CASE StartPipeline(a)
  <2> PICK b \in Brains : b = BrainOf[w.serves]
    BY <1>1, TaskAssumption
  <2> PICK v : v = Announcing(w, "running", "stages")
    OBVIOUS
  <2>1. v.part = "command" /\ v.at = "publish" /\ v.next = "stages"
    BY <1>1, <1>2 DEF Announcing, Worker, StartPipeline, At, PlaceFits
  <2>2. WillBeRecorded(v)
    BY <2>1 DEF WillBeRecorded, HasResult
  <2>3. /\ pipeline'[b].task = w.serves
        /\ \A c \in Brains : c # b => pipeline'[c] = pipeline[c]
        /\ UNCHANGED <<request, mirror, effects>>
    BY <1>1, <1>2 DEF StartPipeline, TypeInvariant, TypeOK, app
  <2>4. \A r \in Requests : request[r].at = "ok" =>
            pipeline'[BrainOf[r]] = pipeline[BrainOf[r]] \/ pipeline'[BrainOf[r]].task # r
    BY <2>3, ServedIsNotOk, TaskAssumption DEF OneAppInvariant
  <2>5. AnswersRecorded'
    BY <1>1, <2>3, <2>4, AnswersKept DEF RecordInvariant, Recorded
  <2>6. PipelinesOfBuilds'
    BY <1>2, <2>3 DEF RecordInvariant, PipelinesOfBuilds, StartPipeline
  <2> QED
    BY <1>1, <1>2, <2>2, <2>5, <2>6, OneIsRecorded DEF StartPipeline, Go
<1>3. /\ "running" \in Statuses /\ "completed" \in Statuses /\ "failed" \in Statuses
      /\ "capture" \in Places /\ "return" \in Places /\ "idle" \in Places
  BY DEF Statuses, Places
<1>4. CASE Stage(a)
  BY <1>1, <1>3, <1>4, UpdateRecord DEF Stage, At, PlaceFits, app
<1>5. CASE Complete(a)
  BY <1>1, <1>3, <1>5, UpdateRecord DEF Complete, At, PlaceFits, app
<1>6. CASE Abandon(a)
  BY <1>1, <1>3, <1>6, UpdateRecord DEF Abandon, At, PlaceFits, app
<1> QED
  BY <1>2, <1>4, <1>5, <1>6

\* and the answer itself.
LEMMA RespondRecord ==
    ASSUME OneAppOnly, OneAppInvariant, RecordInvariant, NEW a \in Apps, Respond(a)
    PROVE  RecordInvariant'
<1> PICK w : w = worker[a]
  OBVIOUS
<1>1. /\ w \in Worker /\ PlaceFits(w) /\ Fit(w) /\ w.serves \in Requests /\ w.at = "respond"
      /\ TypeInvariant /\ EndRecorded(w) /\ WorkerTruthful(w)
  BY WorkerFits
     DEF OneAppInvariant, TruthInvariant, RecordInvariant, Fit, PlaceFits, Respond, At
<1>2. UNCHANGED <<files, effects>>
  BY DEF Respond
<1>3. PipelinesOfBuilds'
  BY <1>2 DEF RecordInvariant, PipelinesOfBuilds, files
<1>4. ASSUME NEW r \in Requests, request'[r].at = "ok"
      PROVE  effects[r] > 0 /\ Recorded(r) /\ PipelineDone(r)
  <2>1. CASE request[r].at = "ok"
    BY <2>1 DEF RecordInvariant, AnswersRecorded
  <2>2. CASE request[r].at # "ok"
    <3>1. r = w.serves /\ w.part = "finish"
      BY <1>4, <2>2 DEF Respond, Moves, OneAppInvariant, TypeInvariant, TypeOK
    <3>2. effects[r] > 0
      BY <1>1, <3>1 DEF WorkerTruthful, After
    <3>3. Recorded(r) /\ PipelineDone(r)
      BY <1>1, <3>1 DEF EndRecorded, HasResult
    <3> QED
      BY <3>2, <3>3
  <2> QED
    BY <2>1, <2>2
<1>5. AnswersRecorded'
  BY <1>2, <1>4 DEF AnswersRecorded, Recorded, PipelineDone, files
<1>6. CASE Raise(a, w)
  BY <1>1, <1>3, <1>5, <1>6, RaiseRecord
<1>7. CASE Go(a, Idle)
  BY <1>1, <1>3, <1>5, <1>7, IdleRecorded, OneIsRecorded DEF Go
<1> QED
  BY <1>6, <1>7 DEF Respond

\* The steps of an app answer nothing with a result.
LEMMA AppRecord ==
    ASSUME OneAppOnly, OneAppInvariant, RecordInvariant,
           \/ \E r \in Requests : Send(r) \/ Enter(r) \/ SpawnFails(r)
                                  \/ StreamCloses(r) \/ StreamBreaks(r)
           \/ \E a \in Apps : CloseApp(a)
    PROVE  RecordInvariant'
<1>1. TypeInvariant /\ UNCHANGED <<files, effects>>
  BY DEF OneAppInvariant, Send, Enter, SpawnFails, StreamCloses, StreamBreaks, CloseApp
<1>2. \A q \in Requests : request'[q].at = "ok" => request[q].at = "ok"
  <2>1. ASSUME NEW a \in Apps, CloseApp(a)
        PROVE  \A q \in Requests : request'[q].at = "ok" => request[q].at = "ok"
    BY <1>1, <2>1 DEF CloseApp, TypeInvariant, TypeOK
  <2>2. ASSUME NEW r \in Requests, NEW at \in {"waiting", "sent", "error"}, Moves(r, at)
        PROVE  \A q \in Requests : request'[q].at = "ok" => request[q].at = "ok"
    <3>1. at # "ok" /\ at \in {"waiting", "sent", "ok", "error"}
      OBVIOUS
    <3> PICK new \in Requested : /\ new = [at |-> at, attempt |-> request[r].attempt]
                                 /\ request' = [request EXCEPT ![r] = new]
      BY ZenonT(60), <1>1, <2>2, <3>1, MovesIs
    <3>2. new.at = at
      OBVIOUS
    <3>3. request'[r] = new /\ \A q \in Requests : q # r => request'[q] = request[q]
      BY <1>1, MovedTo
    <3> QED
      BY <3>1, <3>2, <3>3
  <2>3. ASSUME NEW r \in Requests,
               request' = [request EXCEPT ![r] = [at |-> "waiting", attempt |-> 1]]
        PROVE  \A q \in Requests : request'[q].at = "ok" => request[q].at = "ok"
    BY <1>1, <2>3 DEF TypeInvariant, TypeOK
  <2>4. \/ \E r \in Requests :
               \/ \E at \in {"waiting", "sent", "error"} : Moves(r, at)
               \/ request' = [request EXCEPT ![r] = [at |-> "waiting", attempt |-> 1]]
        \/ \E a \in Apps : CloseApp(a)
    BY DEF Send, Enter, SpawnFails, StreamCloses, StreamBreaks, TryAgain
  <2> QED
    BY <2>1, <2>2, <2>3, <2>4
<1>3. AnswersRecorded' /\ PipelinesOfBuilds'
  BY <1>1, <1>2, AnswersKept DEF RecordInvariant, files, PipelinesOfBuilds, Recorded
<1>4. ASSUME NEW r \in Requests, Ends(AppOf[r], "none")
      PROVE  RecordInvariant'
  BY <1>1, <1>3, <1>4, IdleRecorded, OneIsRecorded, TaskAssumption DEF Ends
<1>5. CASE UNCHANGED worker
  BY <1>1, <1>3, <1>5 DEF RecordInvariant, EndRecorded, PipelineDone, Recorded, files
<1> QED
  BY <1>4, <1>5
     DEF Send, Enter, SpawnFails, StreamCloses, StreamBreaks, TryAgain, CloseApp, process

LEMMA InitRecord == Init => RecordInvariant
<1> SUFFICES ASSUME Init PROVE RecordInvariant
  OBVIOUS
<1>1. AnswersRecorded /\ PipelinesOfBuilds
  BY DEF Init, AnswersRecorded, PipelinesOfBuilds
<1>2. \A a \in Apps : EndRecorded(worker[a])
  BY DEF Init, Idle, EndRecorded, HasResult, Publishing
<1> QED
  BY <1>1, <1>2 DEF RecordInvariant

LEMMA NextRecord ==
    ASSUME OneAppOnly
    PROVE  OneAppInvariant /\ RecordInvariant /\ [Next]_vars => RecordInvariant'
<1> SUFFICES ASSUME OneAppInvariant, RecordInvariant, [Next]_vars PROVE RecordInvariant'
  OBVIOUS
<1>1. CASE Next
  BY <1>1, EventRecord, MirrorRecord, WorkRecord, PipelineRecord, RespondRecord, AppRecord
     DEF Next, Serve
<1>2. CASE UNCHANGED vars
  BY <1>2, AnswersStay DEF vars, app, process, OneAppInvariant, RecordInvariant,
     EndRecorded, PipelineDone, Recorded, files
<1> QED
  BY <1>1, <1>2

\* A request that was answered with its result took effect, and its completion is
\* the last that the history of its brain says of it until MirrorLimit later entries
\* have pushed that out, for any brains and requests of one app, whatever fails and
\* dies.
THEOREM OkRecordedCorrect == OneAppOnly => (Spec => []OkIsRecorded)
<1> SUFFICES ASSUME OneAppOnly PROVE Spec => []OkIsRecorded
  OBVIOUS
<1>1. Init => OneAppInvariant /\ RecordInvariant
  BY InitTypes, InitDelivery, InitTruth, InitRecord DEF OneAppInvariant
<1>2. OneAppInvariant /\ RecordInvariant /\ [Next]_vars => OneAppInvariant' /\ RecordInvariant'
  BY NextTypes, NextDelivery, NextTruth, NextRecord DEF OneAppInvariant
<1>3. OneAppInvariant /\ RecordInvariant => OkIsRecorded
  BY DEF RecordInvariant, AnswersRecorded, OkIsRecorded, PipelineDone
<1> QED
  BY <1>1, <1>2, <1>3, PTL DEF Spec

-----------------------------------------------------------------------------
(* When an answer is the last word.                                        *)

\* What a step may do to the workers other than start or read: one worker changes
\* and keeps its request or gives it up, and only for a reason does it die.
WorkerMoves(a, v) ==
    /\ child[a] = "alive"
    /\ worker' = [worker EXCEPT ![a] = v]
    /\ v.serves \in {worker[a].serves, NoRequest}
    /\ Keeps(a)
    /\ \/ child' = child
       \/ Ends(a, "dead") /\ (a \notin open \/ Troubles' >= 1)
    /\ EventThere(v) => event'.task # NoRequest

LEMMA TroublesTyped ==
    ASSUME TypeInvariant, TypeInvariant',
           Fault \/ UNCHANGED failures \/ failures' = [failures EXCEPT !.crash = @ + 1]
    PROVE  /\ Troubles \in Nat /\ Troubles' \in Nat /\ Troubles' >= Troubles
           /\ ~UNCHANGED failures => Troubles' = Troubles + 1
<1>1. failures \in [fault : Nat, crash : Nat] /\ failures' \in [fault : Nat, crash : Nat]
  BY DEF TypeInvariant, TypeOK
<1> QED
  BY <1>1 DEF Troubles, Fault

\* No request comes to a worker by the step of another one, nor to its own.
LEMMA HasNoMore ==
    ASSUME TypeInvariant, NEW a \in Apps, NEW v, WorkerMoves(a, v)
    PROVE  \A b \in Apps, r \in Requests : Has(b, r)' => Has(b, r)
<1> SUFFICES ASSUME NEW b \in Apps, NEW r \in Requests, Has(b, r)' PROVE Has(b, r)
  OBVIOUS
<1>1. lines'[b] = lines[b] \/ lines'[b] = <<>>
  BY KeptLines DEF WorkerMoves
<1>2. InLines(b, r)' => InLines(b, r)
  BY <1>1 DEF InLines
<1>3. worker'[b].serves = r => worker[b].serves = r
  BY TaskAssumption DEF WorkerMoves, TypeInvariant, TypeOK
<1> QED
  BY <1>2, <1>3 DEF Has

LEMMA LastIs ==
    AnswerIsLast <=> (Troubles <= 1 =>
        \A r \in Requests : request[r].at \in {"ok", "error"} => \A a \in Apps : ~Has(a, r))
BY DEF AnswerIsLast, Troubles, Has, InLines

LEMMA LastWill ==
    ASSUME Troubles' <= 1 => \A r \in Requests : request'[r].at \in {"ok", "error"} =>
                                 \A a \in Apps : ~Has(a, r)'
    PROVE  AnswerIsLast'
BY DEF AnswerIsLast, Troubles, Has, InLines

\* An answer stays the last word while no worker gets a request, and none is
\* answered but one that no worker has.
LEMMA LastStays ==
    ASSUME TypeInvariant, TypeInvariant', AnswerIsLast, Troubles' >= Troubles,
           \A b \in Apps, r \in Requests : Has(b, r)' => Has(b, r),
           \A r \in Requests : request'[r].at \in {"ok", "error"} =>
               \/ request[r].at \in {"ok", "error"}
               \/ Troubles' >= 2
               \/ \A b \in Apps : ~Has(b, r)'
    PROVE  AnswerIsLast'
<1>1. Troubles \in Nat /\ Troubles' \in Nat
  BY DEF TypeInvariant, TypeOK, Troubles
<1>2. ASSUME Troubles' <= 1, NEW r \in Requests, request'[r].at \in {"ok", "error"},
             NEW b \in Apps
      PROVE  ~Has(b, r)'
  BY <1>1, <1>2, LastIs
<1> QED
  BY <1>2, LastWill

\* What holds of the workers and the event after such a step.
LEMMA MovedWorkers ==
    ASSUME TypeInvariant, TypeInvariant', AnswerInvariant, NEW a \in Apps, NEW v,
           WorkerMoves(a, v), Troubles' >= Troubles,
           open' = open, event' = event \/ event'.task # NoRequest
    PROVE  /\ \A b \in Apps : child'[b] # "alive" =>
                  lines'[b] = <<>> /\ worker'[b].serves = NoRequest
           /\ \A b \in open : child'[b] = "dead" => Troubles' >= 1
           /\ \A b \in Apps : EventThere(worker'[b]) => event'.task # NoRequest
<1>1. /\ \A b \in Apps : b # a => worker'[b] = worker[b] /\ lines'[b] = lines[b]
      /\ \A b \in Apps : b # a => child'[b] = child[b]
      /\ worker'[a] = v
      /\ child'[a] = "alive" \/ (lines'[a] = <<>> /\ worker'[a] = Idle)
  BY DEF WorkerMoves, Keeps, Ends, TypeInvariant, TypeOK
<1>2. Idle.serves = NoRequest
  BY DEF Idle
<1>3. Troubles \in Nat /\ Troubles' \in Nat /\ open \subseteq Apps
  BY DEF TypeInvariant, TypeOK, Troubles
<1>4. ASSUME NEW b \in Apps, child'[b] # "alive"
      PROVE  lines'[b] = <<>> /\ worker'[b].serves = NoRequest
  BY <1>1, <1>2, <1>4 DEF AnswerInvariant
<1>5. ASSUME NEW b \in open, child'[b] = "dead"
      PROVE  Troubles' >= 1
  BY <1>5, <1>1, <1>3 DEF WorkerMoves, AnswerInvariant
<1>6. ASSUME NEW b \in Apps, EventThere(worker'[b])
      PROVE  event'.task # NoRequest
  BY <1>1, <1>6 DEF WorkerMoves, AnswerInvariant
<1> QED
  BY <1>4, <1>5, <1>6

\* A worker that goes on, or ends for a reason, while no request is answered.
LEMMA WorkerStepAnswer ==
    ASSUME TypeInvariant, TypeInvariant', AnswerInvariant, NEW a \in Apps, NEW v,
           WorkerMoves(a, v), Troubles' >= Troubles,
           UNCHANGED app, event' = event \/ event'.task # NoRequest
    PROVE  AnswerInvariant'
<1>1. /\ \A b \in Apps : child'[b] # "alive" =>
             lines'[b] = <<>> /\ worker'[b].serves = NoRequest
      /\ \A b \in open : child'[b] = "dead" => Troubles' >= 1
      /\ \A b \in Apps : EventThere(worker'[b]) => event'.task # NoRequest
  BY MovedWorkers DEF app
<1>2. AnswerIsLast'
  BY HasNoMore, LastStays DEF AnswerInvariant, app
<1>3. \A b \in Apps : EventThere(worker[b])' => event'.task # NoRequest
  BY <1>1 DEF EventThere
<1>4. Troubles \in Nat /\ Troubles' \in Nat
  BY DEF TypeInvariant, TypeOK, Troubles
<1>5. \A r \in Requests : /\ request'[r].at \in {"waiting", "sent"} => AppOf[r] \in open'
                          /\ request'[r].attempt = 1 => Troubles' >= 1
  BY <1>4 DEF AnswerInvariant, app
<1> QED
  BY <1>1, <1>2, <1>3, <1>5 DEF AnswerInvariant, app

\* An exception: in the except clause it ends the worker, which needs a reason.
LEMMA RaiseMoves ==
    ASSUME TypeInvariant, NEW a \in Apps, child[a] = "alive",
           NEW w, Fit(w), w.serves = worker[a].serves, Raise(a, w),
           w.part = "except" => a \notin open \/ Troubles' >= 1,
           w.context => event.task # NoRequest, event' = event
    PROVE  \E v : WorkerMoves(a, v)
<1>1. CASE w.part = "except" /\ Ends(a, "dead")
  <2>1. Idle.serves = NoRequest /\ ~EventThere(Idle) /\ worker' = [worker EXCEPT ![a] = Idle]
    BY <1>1 DEF Idle, EventThere, Ends
  <2>2. WorkerMoves(a, Idle)
    BY <1>1, <2>1 DEF WorkerMoves, Ends, Keeps
  <2> QED
    BY <2>2
<1>2. CASE Go(a, GivingUp(w))
  <2>1. GivingUp(w).serves = w.serves /\ (EventThere(GivingUp(w)) => w.context)
    BY DEF Fit, Worker, GivingUp, EventThere
  <2>2. WorkerMoves(a, GivingUp(w))
    BY <1>2, <2>1 DEF WorkerMoves, Go, Keeps
  <2> QED
    BY <2>2
<1>3. CASE worker' = [worker EXCEPT ![a] = Failing(w)] /\ UNCHANGED <<child, lines>>
  <2>1. Failing(w).serves = w.serves /\ (EventThere(Failing(w)) => w.context)
    BY DEF Fit, Worker, Failing, EventThere
  <2>2. WorkerMoves(a, Failing(w))
    BY <1>3, <2>1 DEF WorkerMoves, Keeps
  <2> QED
    BY <2>2
<1> QED
  BY <1>1, <1>2, <1>3 DEF Raise, GivingUp

LEMMA RaiseAnswer ==
    ASSUME TypeInvariant, TypeInvariant', AnswerInvariant, NEW a \in Apps, child[a] = "alive",
           NEW w, Fit(w), w.serves = worker[a].serves, Raise(a, w),
           w.part = "except" => a \notin open \/ Troubles' >= 1,
           w.context => event.task # NoRequest,
           Troubles' >= Troubles, UNCHANGED <<app, event>>
    PROVE  AnswerInvariant'
BY RaiseMoves, WorkerStepAnswer

\* A worker that goes on.
GoesOn(a, v) ==
    /\ worker' = [worker EXCEPT ![a] = v]
    /\ UNCHANGED <<child, lines>>
    /\ v.serves \in {worker[a].serves, NoRequest}
    /\ EventThere(v) => event'.task # NoRequest

LEMMA GoAnswer ==
    ASSUME TypeInvariant, TypeInvariant', AnswerInvariant, NEW a \in Apps, child[a] = "alive",
           NEW v, GoesOn(a, v),
           event' = event \/ event'.task # NoRequest,
           UNCHANGED app, UNCHANGED failures
    PROVE  AnswerInvariant'
  BY TroublesTyped, WorkerStepAnswer DEF WorkerMoves, Keeps, GoesOn

\* Reading a line takes it from the stdin of the worker.
LEMMA ReadHas ==
    ASSUME TypeInvariant, NEW a \in Apps, Read(a)
    PROVE  \A b \in Apps, r \in Requests : Has(b, r)' => Has(b, r)
<1>1. /\ lines[a] \in Seq(Requests) /\ lines[a] # <<>>
      /\ Head(lines[a]) = lines[a][1] /\ 1 \in DOMAIN lines[a]
  BY DEF Read, TypeInvariant, TypeOK
<1>2. /\ \A b \in Apps : b # a => lines'[b] = lines[b] /\ worker'[b] = worker[b]
      /\ lines'[a] = Tail(lines[a]) /\ worker'[a].serves = Head(lines[a])
  <2>1. Idle \in Worker
    BY RecordsTyped DEF Fit
  <2> QED
    BY <2>1 DEF Read, TypeInvariant, TypeOK, Worker
<1>3. \A i \in DOMAIN lines'[a] : /\ i + 1 \in DOMAIN lines[a]
                                  /\ lines'[a][i] = lines[a][i + 1]
  BY <1>1, <1>2
<1>4. ASSUME NEW b \in Apps, NEW r \in Requests, Has(b, r)' PROVE Has(b, r)
  <2>1. InLines(b, r)' => InLines(b, r)
    BY ZenonT(60), <1>2, <1>3 DEF InLines
  <2>2. worker'[b].serves = r => Has(b, r)
    BY <1>1, <1>2 DEF Has, InLines
  <2> QED
    BY <1>4, <2>1, <2>2 DEF Has
<1> QED
  BY <1>4

LEMMA ReadAnswer ==
    ASSUME TypeInvariant, TypeInvariant', AnswerInvariant, NEW a \in Apps, Read(a)
    PROVE  AnswerInvariant'
<1>1. /\ child[a] = "alive" /\ UNCHANGED <<app, child, files, failures>>
      /\ \A b \in Apps : b # a => lines'[b] = lines[b] /\ worker'[b] = worker[b]
      /\ worker' = [worker EXCEPT ![a] = [Idle EXCEPT !.at = "start", !.part = "start",
                                                      !.serves = Head(lines[a])]]
  BY DEF Read, At, TypeInvariant, TypeOK
<1>2. ~EventThere(worker[a])'
  BY RecordsTyped, <1>1 DEF Fit, Idle, TypeInvariant, TypeOK, Worker, EventThere
<1>3. Troubles' = Troubles
  BY <1>1 DEF Troubles
<1>4. AnswerIsLast'
  BY <1>1, TroublesTyped, ReadHas, LastStays DEF AnswerInvariant, app
<1>5. \A b \in Apps : EventThere(worker[b])' => event'.task # NoRequest
  BY <1>1, <1>2 DEF AnswerInvariant, EventThere, files
<1> QED
  BY <1>1, <1>3, <1>4, <1>5 DEF AnswerInvariant, app

\* An update of the pipeline, from each of its callers.
LEMMA UpdateAnswer ==
    ASSUME TypeInvariant, TypeInvariant', AnswerInvariant, NEW a \in Apps, child[a] = "alive",
           NEW status, NEW next, worker[a].part \in {"build", "giveup"},
           UpdatePipeline(a, status, next), UNCHANGED <<app, event, failures>>
    PROVE  AnswerInvariant'
<1> DEFINE w == worker[a]
<1>1. w \in Worker /\ Fit(w) /\ (w.context => event.task # NoRequest)
  BY WorkerFits DEF Fit, AnswerInvariant, EventThere
<1>2. CASE Raise(a, w)
  <2>1. Troubles' >= Troubles
    BY TroublesTyped
  <2> QED
    BY <1>1, <1>2, <2>1, RaiseAnswer
<1>3. CASE Go(a, Announcing(w, status, next))
  BY <1>1, <1>3, GoAnswer DEF Announcing, Worker, EventThere, Go, GoesOn
<1> QED
  BY <1>2, <1>3 DEF UpdatePipeline

\* The steps of a worker up to the lock of its brain,
LEMMA TaskAnswer ==
    ASSUME TypeInvariant, TypeInvariant', AnswerInvariant, NEW a \in Apps,
           Read(a) \/ EndOfInput(a) \/ Start(a) \/ Publish(a) \/ Copy(a) \/ Write(a) \/ Acquire(a)
    PROVE  AnswerInvariant'
<1> DEFINE w == worker[a]
<1>1. /\ w \in Worker /\ PlaceFits(w) /\ Fit(w)
      /\ EventThere(w) => event.task # NoRequest
  BY WorkerFits DEF Fit, AnswerInvariant
<1>2. CASE Read(a)
  BY <1>2, ReadAnswer
<1>3. CASE EndOfInput(a)
  BY <1>3, TroublesTyped, WorkerStepAnswer DEF Idle, EventThere, WorkerMoves, EndOfInput,
     At, Ends, Keeps, files
<1>4. CASE Start(a)
  <2> DEFINE v == [w EXCEPT !.at = "copy", !.next = "acquire"]
  <2>1. v.serves = w.serves /\ w.serves \in Requests /\ Go(a, v)
    BY <1>1, <1>4 DEF Worker, Start, At, PlaceFits
  <2>2. event'.task # NoRequest
    BY <1>4, <2>1, TaskAssumption DEF Start
  <2> HIDE DEF v
  <2>3. GoesOn(a, v) /\ child[a] = "alive" /\ UNCHANGED app /\ UNCHANGED failures
    BY <1>4, <2>1, <2>2 DEF Start, Go, At, GoesOn
  <2> QED
    BY <2>2, <2>3, GoAnswer
<1>5. CASE Publish(a)
  <2> DEFINE v == [w EXCEPT !.at = "copy"]
  <2>1. /\ child[a] = "alive" /\ w.at = "publish" /\ UNCHANGED <<app, failures>>
        /\ \/ /\ Raise(a, w) /\ event' = event
              /\ event.task = NoRequest \/ w.part \in {"command", "build", "giveup"}
           \/ /\ Go(a, v) /\ event.task # NoRequest
              /\ event' = [event EXCEPT
                     !.status = w.says,
                     !.receipt = IF @ # "none" THEN "earlier"
                                 ELSE IF w.says \in Terminal THEN "own" ELSE @]
    BY <1>5 DEF Publish, At
  <2>2. Troubles' >= Troubles
    BY <2>1, TroublesTyped
  <2>3. CASE /\ Raise(a, w) /\ event' = event
             /\ event.task = NoRequest \/ w.part \in {"command", "build", "giveup"}
    BY <1>1, <2>1, <2>3, <2>2, RaiseAnswer DEF EventThere
  <2>4. CASE /\ Go(a, v) /\ event.task # NoRequest
             /\ event' = [event EXCEPT
                     !.status = w.says,
                     !.receipt = IF @ # "none" THEN "earlier"
                                 ELSE IF w.says \in Terminal THEN "own" ELSE @]
    <3>1. v.serves = w.serves
      BY <1>1 DEF Worker
    <3>2. event'.task # NoRequest
      BY <2>4 DEF TypeInvariant, TypeOK, Event
    <3> HIDE DEF v
    <3>3. GoesOn(a, v)
      BY <2>4, <3>1, <3>2 DEF Go, GoesOn
    <3> QED
      BY <2>1, <3>2, <3>3, GoAnswer
  <2> QED
    BY <2>1, <2>3, <2>4
<1>6. CASE Copy(a)
  <2> DEFINE read == [event |-> event, history |-> mirror[BrainOf[w.serves]].history]
             v == [w EXCEPT !.at = "write", !.read = read]
  <2>1. /\ Go(a, v) /\ child[a] = "alive" /\ UNCHANGED <<app, event, failures>>
        /\ w.at = "copy"
    BY <1>6 DEF Copy, At, files
  <2> HIDE DEF read
  <2>2. v.serves = w.serves /\ event.task # NoRequest
    BY <1>1, <2>1 DEF Worker, EventThere
  <2> HIDE DEF v
  <2>3. GoesOn(a, v)
    BY <2>1, <2>2 DEF Go, GoesOn
  <2> QED
    BY <2>1, <2>3, GoAnswer
<1>7. CASE Write(a)
  <2>1. /\ w.at = "write" /\ child[a] = "alive" /\ UNCHANGED <<app, event, failures>>
        /\ event.task # NoRequest
    BY <1>1, <1>7 DEF Write, At, EventThere
  <2>2. CASE Raise(a, [w EXCEPT !.context = TRUE]) /\ (a \notin open \/ w.part = "giveup")
    <3> DEFINE v == [w EXCEPT !.context = TRUE]
    <3>1. v \in Worker /\ PlaceFits(v) /\ v.serves = w.serves /\ v.part = w.part
      BY <1>1 DEF Worker, PlaceFits, Publishing
    <3>2. v.part = "except" => a \notin open
      BY <2>2, <3>1
    <3>3. Troubles' >= Troubles /\ Fit(v)
      BY <2>1, <3>1, TroublesTyped DEF Fit
    <3>4. Raise(a, v)
      BY <2>2
    <3> HIDE DEF v
    <3> QED
      BY <2>1, <3>1, <3>2, <3>3, <3>4, RaiseAnswer
  <2>3. CASE ~(a \notin open \/ w.part = "giveup")
    <3> DEFINE part == IF w.next = "stages" THEN "build" ELSE w.part
               v == [w EXCEPT !.context = TRUE, !.read = NoMirror, !.at = w.next,
                              !.part = part]
    <3>1. Go(a, v)
      BY <1>7, <2>3 DEF Write
    <3> HIDE DEF part
    <3>2. v.serves = w.serves
      BY <1>1 DEF Worker
    <3> HIDE DEF v
    <3>3. GoesOn(a, v)
      BY <2>1, <3>1, <3>2 DEF Go, GoesOn
    <3> QED
      BY <2>1, <3>3, GoAnswer
  <2> QED
    BY <1>7, <2>2, <2>3 DEF Write
<1>8. CASE Acquire(a)
  <2> DEFINE v == [w EXCEPT !.at = "command", !.part = "command"]
  <2>1. /\ child[a] = "alive" /\ UNCHANGED <<app, event, failures>> /\ w.part = "start"
    BY <1>1, <1>8 DEF Acquire, At, files, PlaceFits
  <2>2. Troubles' >= Troubles
    BY <2>1, TroublesTyped
  <2>3. CASE Raise(a, w)
    BY <1>1, <2>1, <2>2, <2>3, RaiseAnswer DEF EventThere
  <2>4. CASE worker' = [worker EXCEPT ![a] = v] /\ UNCHANGED <<child, lines>>
    <3>1. v.serves = w.serves /\ (EventThere(v) => EventThere(w))
      BY <1>1 DEF Worker, EventThere
    <3> HIDE DEF v
    <3>2. GoesOn(a, v)
      BY <1>1, <2>1, <2>4, <3>1 DEF GoesOn
    <3> QED
      BY <2>1, <3>2, GoAnswer
  <2> QED
    BY <1>8, <2>3, <2>4 DEF Acquire
<1> QED
  BY <1>2, <1>3, <1>4, <1>5, <1>6, <1>7, <1>8

\* those from the command to its end,
LEMMA CommandAnswer ==
    ASSUME TypeInvariant, TypeInvariant', AnswerInvariant, NEW a \in Apps,
           \/ Command(a) \/ HandlerRaises(a) \/ StartPipeline(a) \/ Stage(a) \/ Capture(a)
           \/ Complete(a) \/ Return(a) \/ Abandon(a)
    PROVE  AnswerInvariant'
<1> DEFINE w == worker[a]
<1>1. /\ w \in Worker /\ PlaceFits(w) /\ Fit(w)
      /\ w.context => event.task # NoRequest
  BY WorkerFits DEF Fit, AnswerInvariant, EventThere
<1>2. /\ child[a] = "alive" /\ UNCHANGED <<app, event, failures>>
      /\ w.part \in {"command", "build", "giveup"}
  BY <1>1 DEF Command, HandlerRaises, StartPipeline, Stage, Capture, Complete, Return,
              Abandon, At, files, PlaceFits
<1>3. Troubles' >= Troubles
  BY <1>2, TroublesTyped
<1>4. CASE Raise(a, w)
  BY <1>1, <1>2, <1>3, <1>4, RaiseAnswer
<1>5. CASE Returns(a)
  BY <1>1, <1>5, <1>2, GoAnswer DEF Worker, Returned, Announcing, EventThere, Returns,
     GoesOn
<1>6. CASE StartPipeline(a)
  <2> DEFINE v == Announcing(w, "running", "stages")
  <2>1. v.serves = w.serves /\ (EventThere(v) => w.context)
    BY <1>1, <1>2 DEF Worker, Announcing, EventThere
  <2>2. Go(a, v)
    BY <1>6 DEF StartPipeline
  <2> HIDE DEF v
  <2>3. GoesOn(a, v)
    BY <1>1, <1>2, <2>1, <2>2 DEF Go, GoesOn
  <2> QED
    BY <1>2, <2>3, GoAnswer
<1>7. CASE Capture(a)
  <2> DEFINE v == [w EXCEPT !.at = "complete"]
  <2>1. v.serves = w.serves /\ (EventThere(v) => w.context)
    BY <1>1 DEF Worker, EventThere
  <2>2. Go(a, v)
    BY <1>7 DEF Capture
  <2> HIDE DEF v
  <2>3. GoesOn(a, v)
    BY <1>1, <1>2, <2>1, <2>2 DEF Go, GoesOn
  <2> QED
    BY <1>2, <2>3, GoAnswer
<1>8. CASE Stage(a) \/ Complete(a) \/ Abandon(a)
  BY <1>1, <1>8, <1>2, UpdateAnswer DEF Stage, Complete, Abandon, At, PlaceFits
<1> QED
  BY <1>4, <1>5, <1>6, <1>7, <1>8 DEF Command, HandlerRaises, Return

\* the answer, after which no worker has the request,
LEMMA RespondAnswer ==
    ASSUME TypeInvariant, TypeInvariant', DeliveryInvariant, AnswerInvariant,
           NEW a \in Apps, Respond(a)
    PROVE  AnswerInvariant'
<1> DEFINE w == worker[a]
<1>1. /\ w \in Worker /\ PlaceFits(w) /\ Fit(w)
      /\ w.context => event.task # NoRequest
  BY WorkerFits DEF Fit, AnswerInvariant, EventThere
<1>2. /\ child[a] = "alive" /\ UNCHANGED <<open, event, failures>> /\ w.serves \in Requests
  BY <1>1 DEF Respond, At, files, PlaceFits
<1>3. Troubles' >= Troubles
  BY <1>2, TroublesTyped
<1>4. CASE Raise(a, w) /\ UNCHANGED request /\ a \notin open
  BY <1>1, <1>2, <1>3, <1>4, RaiseAnswer DEF app
<1>5. Idle.serves = NoRequest /\ ~EventThere(Idle)
  BY DEF Idle, EventThere
<1>6. CASE Go(a, Idle) /\ UNCHANGED request
  BY <1>2, <1>5, <1>6, GoAnswer DEF Go, GoesOn, app
<1>7. CASE Go(a, Idle) /\ (Moves(w.serves, "ok") \/ Moves(w.serves, "error"))
  <2> PICK r \in Requests : r = w.serves
    BY <1>2
  <2>1. WorkerMoves(a, Idle)
    BY <1>2, <1>5, <1>7 DEF WorkerMoves, Go, Keeps
  <2>2. /\ \A b \in Apps : child'[b] # "alive" =>
             lines'[b] = <<>> /\ worker'[b].serves = NoRequest
        /\ \A b \in open : child'[b] = "dead" => Troubles' >= 1
        /\ \A b \in Apps : EventThere(worker'[b]) => event'.task # NoRequest
    BY <1>2, <1>3, <2>1, MovedWorkers
  <2>3. \A b \in Apps, q \in Requests : Has(b, q)' => Has(b, q)
    BY <2>1, HasNoMore
  <2>4. \A b \in Apps : ~Has(b, r)'
    <3>1. AppOf[r] = a /\ ~InLines(a, r) /\ \A b \in Apps : Has(b, r) => b = a
      BY DEF DeliveryInvariant, Has
    <3>2. ~Has(a, r)'
      BY <1>5, <1>7, <3>1, TaskAssumption DEF Go, TypeInvariant, TypeOK, Has, InLines
    <3> QED
      BY <2>3, <3>1, <3>2
  <2>5. PICK at \in {"ok", "error"} : Moves(r, at)
    BY <1>7
  <2>6. /\ request'[r].at = at /\ request'[r].attempt = request[r].attempt
        /\ \A q \in Requests : q # r => request'[q] = request[q]
    BY <2>5 DEF Moves, TypeInvariant, TypeOK
  <2>7. AnswerIsLast'
    BY <1>3, <2>3, <2>4, <2>6, LastStays DEF AnswerInvariant
  <2>8. Troubles' = Troubles
    BY <1>2 DEF Troubles
  <2>9. \A q \in Requests : /\ request'[q].at \in {"waiting", "sent"} => AppOf[q] \in open'
                            /\ request'[q].attempt = 1 => Troubles' >= 1
    BY <1>2, <2>6, <2>8 DEF AnswerInvariant
  <2>10. \A b \in Apps : EventThere(worker[b])' => event'.task # NoRequest
    BY <2>2 DEF EventThere
  <2> QED
    BY <1>2, <2>2, <2>7, <2>9, <2>10 DEF AnswerInvariant
<1> QED
  BY <1>4, <1>6, <1>7 DEF Respond

\* failing files, deaths and the closing of an app,
LEMMA FailureAnswer ==
    ASSUME TypeInvariant, TypeInvariant', AnswerInvariant, NEW a \in Apps,
           FileFails(a) \/ Crash(a) \/ CloseApp(a)
    PROVE  AnswerInvariant'
<1> DEFINE w == worker[a]
<1>1. /\ w \in Worker /\ PlaceFits(w) /\ Fit(w)
      /\ w.context => event.task # NoRequest
  BY WorkerFits DEF Fit, AnswerInvariant, EventThere
<1>2. CASE FileFails(a)
  <2>1. /\ child[a] = "alive" /\ Raise(a, w) /\ Fault /\ UNCHANGED <<app, event>>
    BY <1>2 DEF FileFails, At, files
  <2>2. Troubles' >= Troubles /\ Troubles' >= 1
    BY <2>1, TroublesTyped DEF Fault, TypeInvariant, TypeOK
  <2> QED
    BY <1>1, <2>1, <2>2, RaiseAnswer
<1>3. CASE Crash(a)
  <2>1. Troubles' >= Troubles /\ Troubles' >= 1
    BY <1>3, TroublesTyped DEF Crash, TypeInvariant, TypeOK
  <2>2. Idle.serves = NoRequest /\ ~EventThere(Idle)
    BY DEF Idle, EventThere
  <2>3. WorkerMoves(a, Idle)
    BY <1>3, <2>1, <2>2 DEF WorkerMoves, Crash, Ends, Keeps
  <2> QED
    BY <1>3, <2>1, <2>3, WorkerStepAnswer DEF Crash, files
<1>4. CASE CloseApp(a)
  BY <1>4, TroublesTyped, LastStays DEF CloseApp, process, files, TypeInvariant, TypeOK,
     Troubles, AnswerInvariant, Has, InLines, EventThere
<1> QED
  BY <1>2, <1>3, <1>4

\* and the steps of the app: sending again needs a dead worker or a broken stream.
LEMMA AppAnswer ==
    ASSUME TypeInvariant, TypeInvariant', DeliveryInvariant, AnswerInvariant,
           NEW r \in Requests,
           Send(r) \/ Enter(r) \/ SpawnFails(r) \/ StreamCloses(r) \/ StreamBreaks(r)
    PROVE  AnswerInvariant'
<1> DEFINE a == AppOf[r]
<1>1. a \in Apps
  BY TaskAssumption
<1>2. /\ UNCHANGED <<open, event>>
      /\ Fault \/ UNCHANGED failures
  BY DEF Send, Enter, SpawnFails, StreamCloses, StreamBreaks, files
<1>3. /\ Troubles \in Nat /\ Troubles' \in Nat /\ Troubles' >= Troubles
      /\ Fault => Troubles' = Troubles + 1
  <2>1. Fault => failures' # failures
    BY DEF Fault, TypeInvariant, TypeOK
  <2> QED
    BY <1>2, <2>1, TroublesTyped
<1>4. ASSUME NEW at \in {"waiting", "sent", "error"}, Moves(r, at)
      PROVE  /\ request'[r].at = at /\ request'[r].attempt = request[r].attempt
             /\ \A q \in Requests : q # r => request'[q] = request[q]
  BY <1>4 DEF Moves, TypeInvariant, TypeOK
<1>5. \A b \in Apps : EventThere(worker[b]) => event.task # NoRequest
  BY DEF AnswerInvariant
<1>6. CASE Send(r)
  BY <1>6, <1>3, <1>4, LastStays, <1>2 DEF Send, process, AnswerInvariant, Has, InLines,
     EventThere
<1>7. CASE Enter(r)
  <2>1. /\ UNCHANGED <<worker, failures>> /\ request[r].at = "waiting" /\ Moves(r, "sent")
        /\ child' = [child EXCEPT ![a] = IF child[a] = "none" THEN "alive" ELSE child[a]]
        /\ lines' = [lines EXCEPT ![a] = IF child[a] = "dead" THEN lines[a]
                                         ELSE Append(lines[a], r)]
    BY <1>7 DEF Enter
  <2>2. /\ \A b \in Apps : b # a => child'[b] = child[b] /\ lines'[b] = lines[b]
        /\ child'[a] # "alive" => child'[a] = child[a] /\ child[a] = "dead" /\ lines'[a] = lines[a]
        /\ lines'[a] = lines[a] \/ lines'[a] = Append(lines[a], r)
    BY <1>1, <2>1 DEF TypeInvariant, TypeOK
  <2>3. ASSUME NEW b \in Apps, NEW q \in Requests, q # r, Has(b, q)'
        PROVE  Has(b, q)
    <3>1. CASE lines'[b] = lines[b]
      BY <2>1, <2>3, <3>1 DEF Has, InLines
    <3>2. CASE lines'[b] = Append(lines[b], r)
      BY <3>2, <2>1, <2>3 DEF TypeInvariant, TypeOK, Has, InLines
    <3> QED
      BY <2>2, <3>1, <3>2
  <2>4. AnswerIsLast'
    BY <1>3, <1>4, <2>1, LastIs, <2>3, LastWill DEF AnswerInvariant
  <2>5. \A b \in Apps : child'[b] # "alive" =>
            lines'[b] = <<>> /\ worker'[b].serves = NoRequest
    BY <2>1, <2>2 DEF AnswerInvariant
  <2>6. \A b \in open' : child'[b] = "dead" => Troubles' >= 1
    BY <1>1, <1>2, <1>3, <2>2 DEF AnswerInvariant, TypeInvariant, TypeOK
  <2>7. \A q \in Requests : /\ request'[q].at \in {"waiting", "sent"} => AppOf[q] \in open'
                            /\ request'[q].attempt = 1 => Troubles' >= 1
    BY <1>2, <1>3, <1>4, <2>1 DEF AnswerInvariant
  <2> QED
    BY <1>2, <2>1, <2>4, <2>5, <2>6, <2>7 DEF AnswerInvariant, EventThere
<1>8. CASE SpawnFails(r)
  BY <1>8, <1>3, <1>4, LastStays, <1>2 DEF SpawnFails, process, Has, InLines,
     DeliveryInvariant, AnswerInvariant, EventThere
<1>9. CASE StreamCloses(r) \/ StreamBreaks(r)
  <2>1. /\ request[r].at = "sent" /\ TryAgain(r)
        /\ (child[a] = "dead" /\ UNCHANGED failures) \/ Fault
    BY <1>9 DEF StreamCloses, StreamBreaks
  <2>2. Troubles' >= 1
    BY <1>1, <1>3, <2>1 DEF AnswerInvariant
  <2>3. CASE /\ request' = [request EXCEPT ![r] = [at |-> "waiting", attempt |-> 1]]
             /\ Ends(a, "none")
    <3>1. /\ request'[r].at = "waiting"
          /\ \A q \in Requests : q # r => request'[q] = request[q]
      BY <2>3 DEF TypeInvariant, TypeOK
    <3>2. /\ \A b \in Apps : b # a => /\ child'[b] = child[b] /\ lines'[b] = lines[b]
                                      /\ worker'[b] = worker[b]
          /\ child'[a] = "none" /\ lines'[a] = <<>> /\ worker'[a] = Idle
      BY <1>1, <2>3 DEF Ends, TypeInvariant, TypeOK
    <3>3. Idle.serves = NoRequest /\ ~EventThere(Idle)
      BY DEF Idle, EventThere
    <3>4. \A b \in Apps, q \in Requests : Has(b, q)' => Has(b, q)
      BY <3>2, <3>3, TaskAssumption DEF Has, InLines
    <3>5. AnswerIsLast'
      BY <1>3, <3>1, <3>4, LastStays DEF AnswerInvariant
    <3>6. \A b \in Apps : EventThere(worker[b])' => event'.task # NoRequest
      BY <1>2, <1>5, <3>2, <3>3 DEF EventThere
    <3>7. \A b \in Apps : child'[b] # "alive" =>
              lines'[b] = <<>> /\ worker'[b].serves = NoRequest
      BY <3>2, <3>3 DEF AnswerInvariant
    <3>8. \A b \in open' : child'[b] = "dead" => Troubles' >= 1
      BY <2>2
    <3>9. \A q \in Requests : /\ request'[q].at \in {"waiting", "sent"} => AppOf[q] \in open'
                              /\ request'[q].attempt = 1 => Troubles' >= 1
      BY <1>2, <2>1, <2>2, <3>1 DEF AnswerInvariant
    <3> QED
      BY <3>5, <3>6, <3>7, <3>8, <3>9 DEF AnswerInvariant
  <2>4. CASE request[r].attempt # 0 /\ Moves(r, "error") /\ UNCHANGED process
    <3>1. UNCHANGED <<child, lines, worker>>
      BY <2>4 DEF process
    <3>2. \A b \in Apps, q \in Requests : Has(b, q)' <=> Has(b, q)
      BY <3>1 DEF Has, InLines
    <3>3. Troubles >= 1
      BY <2>4 DEF AnswerInvariant, TypeInvariant, TypeOK
    <3>4. Troubles' >= 2 \/ \A b \in Apps : ~Has(b, r)'
      BY <1>3, <3>3, <1>1, TaskAssumption, <3>2, <2>1 DEF AnswerInvariant, Has, InLines,
         DeliveryInvariant
    <3>5. AnswerIsLast'
      BY <1>3, <1>4, <2>4, <3>2, <3>4, LastStays DEF AnswerInvariant
    <3> QED
      BY <1>2, <1>3, <1>4, <2>2, <2>4, <3>1, <3>5 DEF AnswerInvariant, EventThere
  <2> QED
    BY <2>1, <2>3, <2>4 DEF TryAgain
<1> QED
  BY <1>6, <1>7, <1>8, <1>9

LEMMA InitAnswer == Init => AnswerInvariant
<1> SUFFICES ASSUME Init PROVE AnswerInvariant
  OBVIOUS
<1>1. \A a \in Apps : ~EventThere(worker[a]) /\ worker[a].serves = NoRequest
  BY DEF Init, Idle, EventThere
<1>2. AnswerIsLast
  BY DEF Init, AnswerIsLast
<1> QED
  BY <1>1, <1>2 DEF Init, AnswerInvariant

LEMMA NextAnswer ==
    TypeInvariant /\ TypeInvariant' /\ DeliveryInvariant /\ AnswerInvariant /\ [Next]_vars
        => AnswerInvariant'
<1> SUFFICES ASSUME TypeInvariant, TypeInvariant', DeliveryInvariant, AnswerInvariant, [Next]_vars
             PROVE  AnswerInvariant'
  OBVIOUS
<1>1. CASE Next
  BY <1>1, AppAnswer, TaskAnswer, CommandAnswer, RespondAnswer, FailureAnswer DEF Next, Serve
<1>2. CASE UNCHANGED vars
  BY <1>2 DEF vars, app, process, files, AnswerInvariant, AnswerIsLast, EventThere, Troubles
<1> QED
  BY <1>1, <1>2

\* An answer is the last word for any apps and requests, as long as one thing goes
\* wrong: a worker that died, a stream that broke or a file that failed.
THEOREM AnswerIsLastCorrect == Spec => []AnswerIsLast
<1>1. Spec => [](TypeInvariant /\ DeliveryInvariant)
  BY InitTypes, NextTypes, InitDelivery, NextDelivery, PTL DEF Spec
<1>2. AnswerInvariant => AnswerIsLast
  BY DEF AnswerInvariant
<1> QED
  BY <1>1, <1>2, InitAnswer, NextAnswer, PTL DEF Spec

=============================================================================
