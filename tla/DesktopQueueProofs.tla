------------------------- MODULE DesktopQueueProofs -------------------------
(***************************************************************************)
(* Theorems about DesktopQueue, for any number of slots, jobs, files and   *)
(* retries.  Every handler that frees a slot or queues a job ends in Pump, *)
(* so the heart of the matter is what Pump leaves behind (PumpFills,       *)
(* PumpInOrder).                                                           *)
(***************************************************************************)
EXTENDS DesktopQueue, FiniteSetTheorems, TLAPS

\* The ids that importPaths has not given out belong to no job.
FreshIds == \A j \in Id : j >= nextId => status[j] = "absent"

IInv == TypeOK /\ FreshIds /\ AnswerFindsJobRunning /\ NoIdleSlot

-----------------------------------------------------------------------------
(* Finite sets of ids.                                                     *)

\* A set of ids is finite, and so is each part of it.
LEMMA IdsAreFinite ==
  ASSUME NEW Q \in SUBSET Id
  PROVE  /\ IsFiniteSet(Q)
         /\ Cardinality(Q) \in Nat
         /\ \A R \in SUBSET Q :
              IsFiniteSet(R) /\ Cardinality(R) \in Nat /\ Cardinality(R) <= Cardinality(Q)
<1>1. IsFiniteSet(Id)
  BY BoundsAssumption, FS_Interval DEF Id
<1>2. IsFiniteSet(Q) /\ Cardinality(Q) \in Nat
  BY <1>1, FS_Subset, FS_CardinalityType
<1>3. ASSUME NEW R \in SUBSET Q
      PROVE  IsFiniteSet(R) /\ Cardinality(R) \in Nat /\ Cardinality(R) <= Cardinality(Q)
  BY <1>2, FS_Subset, FS_CardinalityType
<1> QED
  BY <1>2, <1>3

\* A set of ids that is not empty has a least one.
LEMMA LeastId ==
  ASSUME NEW Q \in SUBSET Id, Q # {}
  PROVE  \E q \in Q : \A r \in Q : q <= r
<1> DEFINE Less == {x \in Nat \X Nat : x[1] < x[2]}
<1>1. IsWellFoundedOn(Less, Nat)
  BY NatLessThanWellFounded DEF OpToRel
<1>2. Q \subseteq Nat
  BY DEF Id
<1>3. PICK q \in Q : \A r \in Q : ~ (<<r, q>> \in Less)
  <2> HIDE DEF Less
  <2> QED
    BY <1>1, <1>2, WFMin
<1>4. ASSUME NEW r \in Q PROVE q <= r
  <2>1. r < q => <<r, q>> \in Less
    BY <1>2
  <2> QED
    BY <1>2, <1>3, <2>1
<1> QED
  BY <1>4

-----------------------------------------------------------------------------
(* The jobs that pumpQueue starts.                                         *)

\* Only queued jobs are started, and only unless the queue is paused.
LEMMA StartedAreQueued ==
  ASSUME NEW st, NEW isPaused \in BOOLEAN
  PROVE  /\ Started(st, isPaused) \subseteq In(st, "queued")
         /\ isPaused => Started(st, isPaused) = {}
BY DEF Started, SliceFromEnd

\* slice(-k) takes k jobs of Q, or all of them: if one is left, all before the first
\* one left are taken.
LEMMA SliceTakesEnough ==
  ASSUME NEW Q \in SUBSET Id, NEW k \in Nat
  PROVE  \/ SliceFromEnd(Q, k) = Q
         \/ Cardinality(SliceFromEnd(Q, k)) >= k
<1> DEFINE S == SliceFromEnd(Q, k)
           Before(q) == {r \in Q : r < q}
<1>1. S \subseteq Q
  BY DEF SliceFromEnd
<1>2. SUFFICES ASSUME k # 0, Q \ S # {}
               PROVE  Cardinality(S) >= k
  BY <1>1 DEF SliceFromEnd
<1>3. PICK q \in Q \ S : \A r \in Q \ S : q <= r
  BY <1>2, LeastId
<1>4. ASSUME NEW r \in Q, r < q PROVE r \in S
  BY <1>1, <1>3, <1>4 DEF Id
<1>5. Cardinality(Before(q)) \in Nat /\ Cardinality(Before(q)) >= k
  BY <1>2, <1>3, IdsAreFinite DEF SliceFromEnd
<1> QED
  BY <1>1, <1>4, <1>5, IdsAreFinite

\* A started job is older than every job that stays queued.
LEMMA SliceTakesOldest ==
  ASSUME NEW Q \in SUBSET Id, NEW k \in Nat,
         NEW j \in SliceFromEnd(Q, k), NEW q \in Q \ SliceFromEnd(Q, k)
  PROVE  j < q
<1> DEFINE Before(x) == {r \in Q : r < x}
<1>1. k # 0 /\ j \in Q /\ Cardinality(Before(j)) < k /\ ~(Cardinality(Before(q)) < k)
  BY DEF SliceFromEnd
<1>2. SUFFICES ASSUME q <= j PROVE FALSE
  BY <1>1, BoundsAssumption DEF Id
<1>3. Before(q) \subseteq Before(j) /\ Before(j) \in SUBSET Id
  <2>1. ASSUME NEW r \in Q, r < q PROVE r < j
    BY <1>1, <1>2, <2>1 DEF Id
  <2> QED
    BY <2>1
<1>4. /\ Cardinality(Before(q)) \in Nat /\ Cardinality(Before(j)) \in Nat
      /\ Cardinality(Before(q)) <= Cardinality(Before(j))
  BY <1>3, IdsAreFinite
<1> QED
  BY <1>1, <1>4

\* The capacity is a number, and with the running jobs fills every slot.
LEMMA CapacityFills ==
  ASSUME NEW st
  PROVE  /\ Capacity(st) \in Nat
         /\ Cardinality(In(st, "running")) \in Nat
         /\ Cardinality(In(st, "running")) + Capacity(st) >= MaxConcurrent
<1>1. Cardinality(In(st, "running")) \in Nat
  BY IdsAreFinite DEF In
<1> QED
  BY <1>1, BoundsAssumption DEF Capacity

-----------------------------------------------------------------------------
(* What Pump leaves behind.                                                *)

\* The running jobs are those that were running and those that are started; the
\* queued ones those that were queued and are not.
LEMMA PumpMoves ==
  ASSUME NEW st \in [Id -> Status], NEW pending, NEW isPaused \in BOOLEAN,
         Pump(st, pending, isPaused)
  PROVE  /\ status' \in [Id -> Status]
         /\ inFlight' = pending \cup Started(st, isPaused)
         /\ In(status', "running") = In(st, "running") \cup Started(st, isPaused)
         /\ In(status', "queued") = In(st, "queued") \ Started(st, isPaused)
         /\ \A j \in Id : st[j] = "absent" => status'[j] = "absent"
BY StartedAreQueued DEF Pump, In, Status, Terminal, Verdict

\* Unless the queue is paused nothing stays queued while a slot is free.
LEMMA PumpFills ==
  ASSUME NEW st \in [Id -> Status], NEW pending, Pump(st, pending, FALSE)
  PROVE  \/ In(status', "queued") = {}
         \/ Cardinality(In(status', "running")) >= MaxConcurrent
<1> DEFINE Q == In(st, "queued")
           R == In(st, "running")
           S == Started(st, FALSE)
<1>1. S = SliceFromEnd(Q, Capacity(st)) /\ S \subseteq Q
  BY StartedAreQueued DEF Started
<1>2. In(status', "running") = R \cup S /\ In(status', "queued") = Q \ S
  BY PumpMoves
<1>3. Q \in SUBSET Id /\ R \in SUBSET Id /\ R \cap S = {}
  BY <1>1 DEF In
<1>4. Capacity(st) \in Nat /\ Cardinality(R) \in Nat /\ Cardinality(R) + Capacity(st) >= MaxConcurrent
  BY CapacityFills
<1>5. CASE S = Q
  BY <1>2, <1>5
<1>6. CASE Cardinality(S) >= Capacity(st)
  <2>1. IsFiniteSet(R) /\ IsFiniteSet(S) /\ Cardinality(S) \in Nat
    BY <1>1, <1>3, IdsAreFinite
  <2>2. Cardinality(R \cup S) = Cardinality(R) + Cardinality(S) - Cardinality({})
    BY <2>1, <1>3, FS_Union
  <2>3. Cardinality(R \cup S) >= MaxConcurrent
    <3> HIDE DEF Q, R, S
    <3> QED
      BY <1>4, <1>6, <2>1, <2>2, FS_EmptySet, BoundsAssumption
  <2> QED
    BY <1>2, <2>3
<1> QED
  BY <1>1, <1>3, <1>4, <1>5, <1>6, SliceTakesEnough

\* What is started is older than what stays queued.
LEMMA PumpInOrder ==
  ASSUME NEW st \in [Id -> Status], NEW pending, NEW isPaused \in BOOLEAN,
         Pump(st, pending, isPaused),
         NEW j \in Started(st, isPaused), NEW q \in In(status', "queued")
  PROVE  j < q
<1>1. q \in In(st, "queued") \ Started(st, isPaused)
  BY PumpMoves
<1>2. Started(st, isPaused) = SliceFromEnd(In(st, "queued"), Capacity(st))
  BY DEF Started
<1> QED
  BY <1>1, <1>2, CapacityFills, SliceTakesOldest DEF In

\* The parts of the invariant that Pump establishes.
LEMMA PumpInv ==
  ASSUME NEW st \in [Id -> Status], NEW pending, NEW isPaused \in BOOLEAN,
         Pump(st, pending, isPaused), pending = In(st, "running"), paused' = isPaused,
         \A j \in Id : j >= nextId' => st[j] = "absent"
  PROVE  /\ status' \in [Id -> Status]
         /\ inFlight' \in SUBSET Id
         /\ FreshIds'
         /\ AnswerFindsJobRunning'
         /\ NoIdleSlot'
<1>1. status' \in [Id -> Status] /\ inFlight' = In(status', "running")
  <2>1. /\ status' \in [Id -> Status] /\ inFlight' = pending \cup Started(st, isPaused)
        /\ In(status', "running") = In(st, "running") \cup Started(st, isPaused)
    BY PumpMoves
  <2> QED
    BY <2>1
<1>2. ~ isPaused => NoIdleSlot'
  BY PumpFills DEF NoIdleSlot
<1>3. FreshIds'
  BY PumpMoves DEF FreshIds
<1> QED
  BY <1>1, <1>2, <1>3 DEF AnswerFindsJobRunning, NoIdleSlot, In

-----------------------------------------------------------------------------
(* The invariant.                                                          *)

\* The queue is empty.
LEMMA InitInv == Init => IInv
<1> SUFFICES ASSUME Init PROVE IInv
  OBVIOUS
<1>1. In(status, "running") = {} /\ In(status, "queued") = {}
  BY DEF Init, In
<1>2. TypeOK
  <2>1. "absent" \in Status /\ 0 \in 0 .. NumPaths /\ 1 \in 1 .. MaxJobs + 1 /\ 0 \in 0 .. MaxRetries
    BY BoundsAssumption DEF Status
  <2> QED
    BY <2>1 DEF Init, TypeOK
<1>3. FreshIds /\ AnswerFindsJobRunning /\ NoIdleSlot
  BY <1>1 DEF Init, FreshIds, AnswerFindsJobRunning, NoIdleSlot
<1> QED
  BY <1>2, <1>3 DEF IInv

\* The fresh files get ids that were not given out.
LEMMA ImportPathsInv ==
  ASSUME IInv, NEW P \in SUBSET Path, ImportPaths(P)
  PROVE  IInv'
<1> USE DEF IInv, TypeOK
<1> DEFINE fresh == {p \in P : ~ Active(p)}
           Below(p) == {q \in fresh : q < p}
           idOf  == [p \in fresh |-> nextId + Cardinality(Below(p))]
           new   == {idOf[p] : p \in fresh}
           st    == [j \in Id |-> IF j \in new THEN "queued" ELSE status[j]]
<1>1. /\ nextId + Cardinality(fresh) <= MaxJobs + 1
      /\ nextId' = nextId + Cardinality(fresh)
      /\ path' = [j \in Id |-> IF j \in new THEN CHOOSE p \in fresh : idOf[p] = j ELSE path[j]]
      /\ Pump(st, inFlight, paused)
      /\ paused' = paused /\ retries' = retries
  BY DEF ImportPaths
<1>2. IsFiniteSet(fresh) /\ Cardinality(fresh) \in Nat
  <2>1. fresh \in SUBSET Path
    OBVIOUS
  <2> HIDE DEF fresh
  <2>2. IsFiniteSet(Path)
    BY BoundsAssumption, FS_Interval DEF Path
  <2> QED
    BY <2>1, <2>2, FS_Subset, FS_CardinalityType
<1>3. ASSUME NEW p \in fresh
      PROVE  idOf[p] \in nextId .. nextId' - 1
  <2>1. Below(p) \in SUBSET fresh /\ p \notin Below(p)
    BY DEF Path
  <2>2. Cardinality(Below(p)) \in Nat /\ Cardinality(Below(p)) <= Cardinality(fresh)
        /\ Cardinality(Below(p)) # Cardinality(fresh)
    BY <1>2, <2>1, FS_Subset, FS_CardinalityType
  <2> QED
    BY <1>1, <1>2, <2>2
<1>4. \A j \in new : j \in nextId .. nextId' - 1
  BY <1>3
<1>5. st \in [Id -> Status] /\ In(st, "running") = In(status, "running")
  <2>1. \A j \in Id : j \in new => status[j] = "absent"
    BY <1>4 DEF FreshIds, Id
  <2> QED
    BY <2>1 DEF In, Status
<1>6. ASSUME NEW j \in Id, j >= nextId' PROVE st[j] = "absent"
  <2>1. j >= nextId /\ j \notin new
    <3> HIDE DEF fresh, new, st
    <3> QED
      BY <1>1, <1>2, <1>4, <1>6 DEF Id
  <2> QED
    BY <2>1 DEF FreshIds
<1>7. status' \in [Id -> Status] /\ inFlight' \in SUBSET Id /\ FreshIds' /\ AnswerFindsJobRunning' /\ NoIdleSlot'
  <2> HIDE DEF st
  <2> QED
    BY <1>1, <1>5, <1>6, PumpInv DEF AnswerFindsJobRunning
<1>8. nextId' \in 1 .. MaxJobs + 1
  BY <1>1, <1>2, BoundsAssumption
<1>9. path' \in [Id -> 0 .. NumPaths]
  <2>1. ASSUME NEW j \in new PROVE (CHOOSE p \in fresh : idOf[p] = j) \in fresh
    OBVIOUS
  <2>2. ASSUME NEW p \in fresh PROVE p \in 0 .. NumPaths
    BY DEF Path
  <2> HIDE DEF fresh, new, idOf
  <2> QED
    BY <1>1, <2>1, <2>2
<1> QED
  BY <1>1, <1>7, <1>8, <1>9

\* The job that is answered was running, so its slot is freed and refilled.
LEMMA ScanAnswersInv ==
  ASSUME IInv, NEW j \in Id, ScanAnswers(j)
  PROVE  IInv'
<1> USE DEF IInv, TypeOK
<1>1. PICK s \in Verdict \cup {"error"} : Pump([status EXCEPT ![j] = s], inFlight \ {j}, paused)
  BY DEF ScanAnswers
<1> DEFINE st == [status EXCEPT ![j] = s]
<1>6. Pump(st, inFlight \ {j}, paused)
  BY <1>1
<1>2. st \in [Id -> Status] /\ In(st, "running") = inFlight \ {j}
  BY DEF Verdict, Status, Terminal, In, AnswerFindsJobRunning
<1>3. UNCHANGED <<path, nextId, paused, retries>> /\ status[j] = "running"
  BY DEF ScanAnswers, AnswerFindsJobRunning, In
<1>4. \A i \in Id : i >= nextId' => st[i] = "absent"
  BY <1>3 DEF FreshIds
<1>5. status' \in [Id -> Status] /\ inFlight' \in SUBSET Id /\ FreshIds' /\ AnswerFindsJobRunning' /\ NoIdleSlot'
  <2> HIDE DEF st
  <2> QED
    BY <1>2, <1>3, <1>4, <1>6, PumpInv
<1> QED
  BY <1>3, <1>5

\* A job that has ended is queued again.
LEMMA RetryJobInv ==
  ASSUME IInv, NEW j \in Id, RetryJob(j)
  PROVE  IInv'
<1> USE DEF IInv, TypeOK
<1> DEFINE st == [status EXCEPT ![j] = "queued"]
<1>1. /\ Pump(st, inFlight, paused) /\ UNCHANGED <<path, nextId, paused>>
      /\ status[j] \in Retryable /\ retries' \in 0 .. MaxRetries
  BY BoundsAssumption DEF RetryJob
<1>2. st \in [Id -> Status] /\ In(st, "running") = inFlight
  BY <1>1 DEF Retryable, Status, In, AnswerFindsJobRunning
<1>3. \A i \in Id : i >= nextId' => st[i] = "absent"
  BY <1>1 DEF FreshIds, Retryable
<1>4. status' \in [Id -> Status] /\ inFlight' \in SUBSET Id /\ FreshIds' /\ AnswerFindsJobRunning' /\ NoIdleSlot'
  <2> HIDE DEF st
  <2> QED
    BY <1>1, <1>2, <1>3, PumpInv
<1> QED
  BY <1>1, <1>4

\* A handler that starts, ends and queues nothing keeps the invariant.
LEMMA NoPumpInv ==
  ASSUME IInv, UNCHANGED <<nextId, inFlight, retries>>,
         status' \in [Id -> Status], path' \in [Id -> 0 .. NumPaths], paused' \in BOOLEAN,
         \A j \in Id : status[j] = "absent" => status'[j] = "absent",
         In(status', "running") = In(status, "running"),
         In(status', "queued") \subseteq In(status, "queued"),
         ~ paused' => ~ paused
  PROVE  IInv'
BY DEF IInv, TypeOK, FreshIds, AnswerFindsJobRunning, NoIdleSlot

\* Resume pumps the queue as it is.
LEMMA ResumeInv ==
  ASSUME IInv, Resume
  PROVE  IInv'
<1> USE DEF IInv, TypeOK
<1>1. Pump(status, inFlight, FALSE) /\ paused' = FALSE /\ UNCHANGED <<path, nextId, retries>>
  BY DEF Resume
<1>2. status' \in [Id -> Status] /\ inFlight' \in SUBSET Id /\ FreshIds' /\ AnswerFindsJobRunning' /\ NoIdleSlot'
  BY <1>1, PumpInv DEF AnswerFindsJobRunning, FreshIds
<1> QED
  BY <1>1, <1>2

\* Every step keeps the invariant.
LEMMA NextInv == IInv /\ [Next]_vars => IInv'
<1> SUFFICES ASSUME IInv, [Next]_vars PROVE IInv'
  OBVIOUS
<1> USE DEF In, Status, Terminal, Verdict
<1>1. ASSUME NEW P \in SUBSET Path, ImportPaths(P) PROVE IInv'
  BY <1>1, ImportPathsInv
<1>2. ASSUME NEW j \in Id, ScanAnswers(j) PROVE IInv'
  BY <1>2, ScanAnswersInv
<1>3. ASSUME NEW j \in Id, RetryJob(j) PROVE IInv'
  BY <1>3, RetryJobInv
<1>4. ASSUME NEW j \in Id, CancelJob(j) PROVE IInv'
  BY <1>4, NoPumpInv DEF CancelJob, IInv, TypeOK
<1>5. CASE CancelQueued
  BY <1>5, NoPumpInv DEF CancelQueued, IInv, TypeOK
<1>6. CASE ClearCompleted
  BY <1>6, NoPumpInv, BoundsAssumption DEF ClearCompleted, IInv, TypeOK
<1>7. CASE Pause
  BY <1>7, NoPumpInv DEF Pause, IInv, TypeOK
<1>8. CASE Resume
  BY <1>8, ResumeInv
<1>9. CASE UNCHANGED vars
  BY <1>9, NoPumpInv DEF vars, IInv, TypeOK
<1> QED
  BY <1>1, <1>2, <1>3, <1>4, <1>5, <1>6, <1>7, <1>8, <1>9 DEF Next

\* Every reachable state satisfies the invariant (the handlers of app.js, 111-200 and
\* 408-411).
THEOREM Invariance == Spec => []IInv
<1> QED
  BY InitInv, NextInv, PTL DEF Spec

\* The types of the queue are invariant.
THEOREM TypeCorrect == Spec => []TypeOK
<1>1. IInv => TypeOK
  BY DEF IInv
<1> QED
  BY <1>1, Invariance, PTL

\* runJob writes its answer to a job that is still running (app.js:153-174), for any
\* number of slots, jobs and files.
THEOREM AnswersLandRight == Spec => []AnswerFindsJobRunning
<1>1. IInv => AnswerFindsJobRunning
  BY DEF IInv
<1> QED
  BY <1>1, Invariance, PTL

\* No handler leaves a job waiting beside a free slot (app.js:176-182).
THEOREM NoWakeUpIsLost == Spec => []NoIdleSlot
<1>1. IInv => NoIdleSlot
  BY DEF IInv
<1> QED
  BY <1>1, Invariance, PTL

-----------------------------------------------------------------------------
(* What a step may not do.                                                 *)

\* Whatever starts a scan is a pump of the queue.
LEMMA OnlyPumpStarts ==
  ASSUME IInv, [Next]_vars
  PROVE  \/ inFlight' \subseteq inFlight
         \/ \E st \in [Id -> Status], pending \in SUBSET inFlight : Pump(st, pending, paused')
<1> USE DEF IInv, TypeOK
<1>1. ASSUME NEW P \in SUBSET Path, ImportPaths(P)
      PROVE  \E st \in [Id -> Status], pending \in SUBSET inFlight : Pump(st, pending, paused')
  <2> DEFINE S(new) == [j \in Id |-> IF j \in new THEN "queued" ELSE status[j]]
  <2>1. \A new : S(new) \in [Id -> Status]
    BY DEF Status
  <2>2. \E new : Pump(S(new), inFlight, paused') 
    BY <1>1 DEF ImportPaths
  <2> HIDE DEF S
  <2> QED
    BY <2>1, <2>2
<1>2. ASSUME NEW j \in Id, ScanAnswers(j)
      PROVE  \E st \in [Id -> Status], pending \in SUBSET inFlight : Pump(st, pending, paused')
  <2>1. PICK s \in Verdict \cup {"error"} : Pump([status EXCEPT ![j] = s], inFlight \ {j}, paused)
    BY <1>2 DEF ScanAnswers
  <2>2. [status EXCEPT ![j] = s] \in [Id -> Status] /\ inFlight \ {j} \in SUBSET inFlight
    BY DEF Status, Terminal, Verdict
  <2>3. paused' = paused
    BY <1>2 DEF ScanAnswers
  <2> QED
    BY <2>1, <2>2, <2>3
<1>3. ASSUME NEW j \in Id, RetryJob(j)
      PROVE  \E st \in [Id -> Status], pending \in SUBSET inFlight : Pump(st, pending, paused')
  <2>1. Pump([status EXCEPT ![j] = "queued"], inFlight, paused) /\ paused' = paused
    BY <1>3 DEF RetryJob
  <2>2. [status EXCEPT ![j] = "queued"] \in [Id -> Status]
    BY DEF Status
  <2> QED
    BY <2>1, <2>2
<1>4. ASSUME NEW j \in Id, CancelJob(j) PROVE inFlight' \subseteq inFlight
  BY <1>4 DEF CancelJob
<1>5. CASE CancelQueued \/ ClearCompleted \/ Pause \/ UNCHANGED vars
  BY <1>5 DEF CancelQueued, ClearCompleted, Pause, vars
<1>6. CASE Resume
  BY <1>6 DEF Resume
<1> QED
  BY <1>1, <1>2, <1>3, <1>4, <1>5, <1>6 DEF Next

\* While the queue is paused no handler starts a scan (the early return of pumpQueue,
\* app.js:177).
THEOREM PauseHolds == Spec => NoStartWhilePaused
<1>1. ASSUME IInv, IInv', [Next]_vars
      PROVE  [paused /\ paused' => inFlight' \subseteq inFlight]_vars
  <2>1. ASSUME NEW st \in [Id -> Status], NEW pending \in SUBSET inFlight, Pump(st, pending, paused'), paused'
        PROVE  inFlight' \subseteq inFlight
    <3>1. paused' = TRUE /\ Pump(st, pending, TRUE)
      BY <1>1, <2>1 DEF IInv, TypeOK
    <3> QED
      BY <3>1, StartedAreQueued DEF Pump
  <2> QED
    BY <1>1, <2>1, OnlyPumpStarts
<1> QED
  BY <1>1, Invariance, PTL DEF Spec, NoStartWhilePaused

\* No job starts past an older one that stays queued: the array is newest first and
\* pumpQueue takes its tail (app.js:180).
THEOREM OldestStartsFirst == Spec => OldestFirst
<1>1. ASSUME IInv, IInv', [Next]_vars
      PROVE  [\A j \in inFlight' \ inFlight : \A k \in In(status', "queued") : j < k]_vars
  <2>1. ASSUME NEW st \in [Id -> Status], NEW pending \in SUBSET inFlight, Pump(st, pending, paused'),
               NEW j \in inFlight' \ inFlight, NEW k \in In(status', "queued")
        PROVE  j < k
    <3>1. paused' \in BOOLEAN
      BY <1>1 DEF IInv, TypeOK
    <3>2. PICK isPaused \in BOOLEAN : isPaused = paused'
      BY <3>1
    <3>3. Pump(st, pending, isPaused)
      BY <2>1, <3>2
    <3>4. j \in Started(st, isPaused)
      BY <3>3, PumpMoves
    <3> QED
      BY <3>3, <3>4, PumpInOrder
  <2> QED
    BY <1>1, <2>1, OnlyPumpStarts
<1> QED
  BY <1>1, Invariance, PTL DEF Spec, OldestFirst
=============================================================================
