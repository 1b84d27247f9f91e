---------------------------- MODULE DesktopQueue ----------------------------
(***************************************************************************)
(* The job queue of the desktop program's page                             *)
(* (crates/tpt-app-media-qc-tauri/ui/app.js).  The page is single-threaded: *)
(* an action is one event handler run to its end, or the continuation of   *)
(* runJob when the awaited scan_asset call answers; scans run in parallel  *)
(* in the Rust process.                                                    *)
(*                                                                         *)
(* state.jobs is kept newest first: importPaths unshifts with increasing   *)
(* ids and nothing reorders it, so a job's place is its id and the tail of *)
(* the array is the smallest ids.                                          *)
(***************************************************************************)
EXTENDS Naturals, FiniteSets

CONSTANTS
  MaxConcurrent,   \* state.maxConcurrent (2 in the program)
  MaxJobs,         \* bound: jobs ever imported
  NumPaths,        \* bound: media files that can be imported
  MaxRetries       \* bound: presses of Retry

ASSUME BoundsAssumption ==
  /\ MaxConcurrent \in Nat \ {0}
  /\ MaxJobs \in Nat
  /\ NumPaths \in Nat
  /\ MaxRetries \in Nat

Id   == 1 .. MaxJobs
Path == 1 .. NumPaths      \* in the order expand_media_paths sorts them

VARIABLES
  status,      \* status of each job; "absent" before import and once cleared
  path,        \* the file of each job (0: none yet)
  nextId,      \* state.nextId
  paused,      \* state.paused
  inFlight,    \* the jobs with a scan_asset call not answered yet
  retries      \* presses of Retry so far

vars == <<status, path, nextId, paused, inFlight, retries>>

\* "fail" stands for warn, fail and inconclusive: the page treats them alike.
Verdict   == {"pass", "fail"}
Terminal  == Verdict \cup {"error", "cancelled"}
Retryable == {"fail", "error", "cancelled"}
Status    == {"absent", "queued", "running"} \cup Terminal

In(st, s)   == {j \in Id : st[j] = s}
Capacity(st) ==
  LET running == Cardinality(In(st, "running"))
  IN  IF running < MaxConcurrent THEN MaxConcurrent - running ELSE 0

TypeOK ==
  /\ status \in [Id -> Status]
  /\ path \in [Id -> 0 .. NumPaths]
  /\ nextId \in 1 .. MaxJobs + 1
  /\ paused \in BOOLEAN
  /\ inFlight \in SUBSET Id
  /\ retries \in 0 .. MaxRetries

Init ==
  /\ status = [j \in Id |-> "absent"]
  /\ path = [j \in Id |-> 0]
  /\ nextId = 1
  /\ paused = FALSE
  /\ inFlight = {}
  /\ retries = 0

-----------------------------------------------------------------------------
\* Variant: slice(0, k).
SliceFromFront(Q, k) == {q \in Q : Cardinality({r \in Q : r > q}) < k}

\* slice(-k) of the array of the jobs Q: the k oldest.  slice(-0) is slice(0),
\* the whole array.
SliceFromEnd(Q, k) ==
  IF k = 0 THEN Q ELSE {q \in Q : Cardinality({r \in Q : r < q}) < k}

\* Variant: the pause is not looked at.
StartedEvenPaused(st, isPaused) == SliceFromEnd(In(st, "queued"), Capacity(st))

\* The jobs pumpQueue starts when the jobs have statuses st.
Started(st, isPaused) ==
  IF isPaused THEN {} ELSE SliceFromEnd(In(st, "queued"), Capacity(st))

\* Variant: the handler forgets to pump the queue.
NoPump(st, pending, isPaused) == status' = st /\ inFlight' = pending

\* pumpQueue: each of them is set running, and its scan requested, before the
\* handler ends.  st and pending are the statuses and open calls it finds.
Pump(st, pending, isPaused) ==
  LET now == Started(st, isPaused)
  IN  /\ status' = [j \in Id |-> IF j \in now THEN "running" ELSE st[j]]
      /\ inFlight' = pending \cup now

-----------------------------------------------------------------------------
Active(p) == \E j \in Id : path[j] = p /\ status[j] \in {"queued", "running"}

\* importPaths once expand_media_paths has answered with the files P: a path that
\* a queued or running job has is skipped, the rest are queued in order.
ImportPaths(P) ==
  LET fresh == {p \in P : ~ Active(p)}
      idOf  == [p \in fresh |-> nextId + Cardinality({q \in fresh : q < p})]
      new   == {idOf[p] : p \in fresh}
  IN  /\ nextId + Cardinality(fresh) <= MaxJobs + 1
      /\ nextId' = nextId + Cardinality(fresh)
      /\ path' = [j \in Id |-> IF j \in new THEN CHOOSE p \in fresh : idOf[p] = j ELSE path[j]]
      /\ Pump([j \in Id |-> IF j \in new THEN "queued" ELSE status[j]], inFlight, paused)
      /\ UNCHANGED <<paused, retries>>

\* runJob after its await, with its finally block: the answer is written to the
\* job whatever its status is by then, and the queue is pumped.
ScanAnswers(j) ==
  /\ j \in inFlight
  /\ \E s \in Verdict \cup {"error"} :
       Pump([status EXCEPT ![j] = s], inFlight \ {j}, paused)
  /\ UNCHANGED <<path, nextId, paused, retries>>

\* retryJob: the button is shown on these statuses only.
RetryJob(j) ==
  /\ status[j] \in Retryable
  /\ retries < MaxRetries
  /\ retries' = retries + 1
  /\ Pump([status EXCEPT ![j] = "queued"], inFlight, paused)
  /\ UNCHANGED <<path, nextId, paused>>

\* Variant: a running job is cancelled as well.
CancelAnyJob(j) ==
  /\ status[j] \in {"queued", "running"}
  /\ status' = [status EXCEPT ![j] = "cancelled"]
  /\ UNCHANGED <<path, nextId, paused, inFlight, retries>>

\* cancelJob: a running job cannot be cancelled.
CancelJob(j) ==
  /\ status[j] = "queued"
  /\ status' = [status EXCEPT ![j] = "cancelled"]
  /\ UNCHANGED <<path, nextId, paused, inFlight, retries>>

CancelQueued ==
  /\ status' = [j \in Id |-> IF status[j] = "queued" THEN "cancelled" ELSE status[j]]
  /\ UNCHANGED <<path, nextId, paused, inFlight, retries>>

\* The finished jobs leave the list.
ClearCompleted ==
  /\ status' = [j \in Id |-> IF status[j] \in Terminal THEN "absent" ELSE status[j]]
  /\ path' = [j \in Id |-> IF status[j] \in Terminal THEN 0 ELSE path[j]]
  /\ UNCHANGED <<nextId, paused, inFlight, retries>>

Pause ==
  /\ paused' = TRUE
  /\ UNCHANGED <<status, path, nextId, inFlight, retries>>

\* Variant: the queue is not pumped.
ResumeOnly ==
  /\ paused' = FALSE
  /\ UNCHANGED <<status, path, nextId, inFlight, retries>>

Resume ==
  /\ paused' = FALSE
  /\ Pump(status, inFlight, FALSE)
  /\ UNCHANGED <<path, nextId, retries>>

-----------------------------------------------------------------------------
Next ==
  \/ \E P \in SUBSET Path : ImportPaths(P)
  \/ \E j \in Id : ScanAnswers(j) \/ RetryJob(j) \/ CancelJob(j)
  \/ CancelQueued \/ ClearCompleted \/ Pause \/ Resume

\* A scan runs on a thread of the Rust process and is assumed to end; what the
\* user does is not fair.
Fairness == \A j \in Id : WF_vars(ScanAnswers(j))

Spec == Init /\ [][Next]_vars /\ Fairness

-----------------------------------------------------------------------------
\* Properties.

\* An answer never lands on a job that was cancelled, cleared or requeued while
\* its scan ran: the running jobs are exactly those with an open call.
AnswerFindsJobRunning == inFlight = In(status, "running")

\* No lost wake-up: unless the queue is paused, no job waits while a slot is free,
\* whichever handler freed the slot or queued the job.
NoIdleSlot ==
  ~ paused => In(status, "queued") = {} \/ Cardinality(In(status, "running")) >= MaxConcurrent

\* While the queue is paused nothing starts ("Running scans continue").
NoStartWhilePaused ==
  [][paused /\ paused' => inFlight' \subseteq inFlight]_vars

\* Jobs start oldest first: none starts past an older job left in the queue.
OldestFirst ==
  [][\A j \in inFlight' \ inFlight : \A k \in In(status', "queued") : j < k]_vars

\* A queue that stays unpaused drains: every queued job starts or is cancelled.
QueueDrains == <>[](~ paused) => \A j \in Id : status[j] = "queued" ~> status[j] # "queued"

\* "bounded local queue" (README.md:50): at most maxConcurrent scans run.
RunningBound == Cardinality(In(status, "running")) <= MaxConcurrent
=============================================================================
