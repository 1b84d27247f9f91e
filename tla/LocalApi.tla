------------------------------ MODULE LocalApi ------------------------------
(***************************************************************************)
(* The optional localhost API of the desktop program                       *)
(* (crates/tpt-app-media-qc-tauri/src/local_api.rs): a listener thread, one *)
(* thread per connection, one thread per job, and three mutexes that no    *)
(* thread ever holds together.  A critical section is one step; between    *)
(* two of them any other thread may run.                                   *)
(***************************************************************************)
EXTENDS Naturals

CONSTANTS
  Conn,       \* connection threads that can be alive at once
  MaxJobs     \* bound: POST /jobs requests that get an id

ASSUME MaxJobsAssumption == MaxJobs \in Nat

Job == 1 .. MaxJobs

VARIABLES
  nextId,           \* NEXT_JOB_ID
  status,           \* ApiState.jobs: the status of each job, "absent" if not in the map
  cancelRequested,  \* the jobs whose cancel_requested flag is set
  results,          \* keys of ApiState.results
  cancelled,        \* ApiState.cancelled
  worker,           \* where each job's thread is
  outcome,          \* what run_qc returned to it
  at,               \* where each connection thread is
  about,            \* the job its request is about (0: none yet)
  listener,         \* where the accept loop is
  stop              \* the stop flag, set when ApiServer is dropped

apiState == <<status, cancelRequested, results, cancelled>>
jobVars  == <<worker, outcome>>
connVars == <<at, about>>
loopVars == <<listener, stop>>
vars == <<nextId, status, cancelRequested, results, cancelled, worker, outcome,
          at, about, listener, stop>>

Terminal == {"succeeded", "failed", "cancelled"}
Status   == {"absent", "queued", "running"} \cup Terminal
Outcome  == {"none", "ok", "error", "panic"}

\* "lost": the thread could not be spawned, or died outside catch_unwind.
WorkerStage == {"none", "spawned", "running", "analysed", "notInSet", "stopping",
                "reporting", "saved", "done", "lost"}

\* "closed": no thread.  "open": the request is being read.  "fault": a 500 is
\* being written.  The rest name the point a handler has reached between two
\* critical sections.  Other replies only tell the client what the handler saw:
\* the last critical section, the reply and the end of the thread are one step.
ConnStage == {"closed", "open", "allocated", "inserted", "unlocked", "finished", "fault"}

TypeOK ==
  /\ nextId \in 1 .. MaxJobs + 1
  /\ status \in [Job -> Status]
  /\ cancelRequested \in SUBSET Job
  /\ results \in SUBSET Job
  /\ cancelled \in SUBSET Job
  /\ worker \in [Job -> WorkerStage]
  /\ outcome \in [Job -> Outcome]
  /\ at \in [Conn -> ConnStage]
  /\ about \in [Conn -> 0 .. MaxJobs]
  /\ listener \in {"checking", "accepting", "exited"}
  /\ stop \in BOOLEAN

Init ==
  /\ nextId = 1
  /\ status = [j \in Job |-> "absent"]
  /\ cancelRequested = {}
  /\ results = {}
  /\ cancelled = {}
  /\ worker = [j \in Job |-> "none"]
  /\ outcome = [j \in Job |-> "none"]
  /\ at = [c \in Conn |-> "closed"]
  /\ about = [c \in Conn |-> 0]
  /\ listener = "checking"
  /\ stop = FALSE

-----------------------------------------------------------------------------
\* The listener thread: serve_listener.

\* Variant: the test of the flag is negated.
CheckStopBackwards ==
  /\ listener = "checking"
  /\ listener' = IF stop THEN "accepting" ELSE "exited"
  /\ UNCHANGED <<nextId, apiState, jobVars, connVars, stop>>

\* The flag is read at the head of the loop, before the accept it allows.
CheckStop ==
  /\ listener = "checking"
  /\ listener' = IF stop THEN "exited" ELSE "accepting"
  /\ UNCHANGED <<nextId, apiState, jobVars, connVars, stop>>

\* A connection is accepted and its thread started.
Accept(c) ==
  /\ listener = "accepting"
  /\ listener' = "checking"
  /\ at[c] = "closed"
  /\ at' = [at EXCEPT ![c] = "open"]
  /\ UNCHANGED <<nextId, apiState, jobVars, about, stop>>

\* Nobody connects (WouldBlock, 10 ms of sleep), or the accepted socket cannot be
\* made blocking, or its thread cannot be started: the loop goes round.
AcceptNothing ==
  /\ listener = "accepting"
  /\ listener' = "checking"
  /\ UNCHANGED <<nextId, apiState, jobVars, connVars, stop>>

\* Any other accept error ends the loop, and nothing restarts it.
AcceptError ==
  /\ listener = "accepting"
  /\ listener' = "exited"
  /\ UNCHANGED <<nextId, apiState, jobVars, connVars, stop>>

\* Dropping ApiServer raises the flag and joins the listener; connection and
\* job threads are not waited for.
DropServer ==
  /\ ~ stop
  /\ stop' = TRUE
  /\ UNCHANGED <<nextId, apiState, jobVars, connVars, listener>>

-----------------------------------------------------------------------------
\* Connection threads: read_request, route_request and the handlers.

Goto(c, stage) == at' = [at EXCEPT ![c] = stage] /\ UNCHANGED about

GotoAbout(c, stage, j) ==
  /\ at' = [at EXCEPT ![c] = stage]
  /\ about' = [about EXCEPT ![c] = j]

Reply(c) == GotoAbout(c, "closed", 0)

\* A request that changes nothing: unreadable, too large, unroutable, with a body
\* create_job refuses or a profile it cannot resolve, naming no known job;
\* /health, /profiles and GET /jobs/<id>, which copies one record.  Or the 500 that
\* job_results has decided on.
ReplyOnly(c) ==
  /\ at[c] \in {"open", "fault"}
  /\ Reply(c)
  /\ UNCHANGED <<nextId, apiState, jobVars, loopVars>>

\* Variant: the id is read after the increment.
AllocateIdAfter(c) ==
  /\ at[c] = "open"
  /\ nextId <= MaxJobs
  /\ nextId' = nextId + 1
  /\ GotoAbout(c, "allocated", nextId')
  /\ UNCHANGED <<apiState, jobVars, loopVars>>

\* create_job: fetch_add on NEXT_JOB_ID.
AllocateId(c) ==
  /\ at[c] = "open"
  /\ nextId <= MaxJobs
  /\ nextId' = nextId + 1
  /\ GotoAbout(c, "allocated", nextId)
  /\ UNCHANGED <<apiState, jobVars, loopVars>>

\* create_job: the record enters the map, under the jobs lock.
InsertJob(c) ==
  /\ at[c] = "allocated"
  /\ status' = [status EXCEPT ![about[c]] = "queued"]
  /\ Goto(c, "inserted")
  /\ UNCHANGED <<nextId, cancelRequested, results, cancelled, jobVars, loopVars>>

\* create_job: spawn_job, outside the lock, and the reply.  The result of the
\* spawn is ignored, and the reply is the copy made before the insert.
SpawnJob(c) ==
  /\ at[c] = "inserted"
  /\ \E w \in {"spawned", "lost"} : worker' = [worker EXCEPT ![about[c]] = w]
  /\ Reply(c)
  /\ UNCHANGED <<nextId, apiState, outcome, loopVars>>

\* Variant: the results are looked up for any job that has started.
LookUpResultsEarly(c) ==
  /\ at[c] = "open"
  /\ \E j \in Job :
       /\ status[j] \notin {"absent", "queued"}
       /\ GotoAbout(c, "finished", j)
  /\ UNCHANGED <<nextId, apiState, jobVars, loopVars>>

\* job_results, first critical section: the status is copied out of the map, and
\* a job that has not succeeded is answered at once (ReplyOnly).
LookUpResults(c) ==
  /\ at[c] = "open"
  /\ \E j \in Job :
       /\ status[j] = "succeeded"
       /\ GotoAbout(c, "finished", j)
  /\ UNCHANGED <<nextId, apiState, jobVars, loopVars>>

\* job_results, second critical section, decided on that copy.
ReadResults(c) ==
  /\ at[c] = "finished"
  /\ IF about[c] \in results THEN Reply(c) ELSE Goto(c, "fault")
  /\ UNCHANGED <<nextId, apiState, jobVars, loopVars>>

\* cancel_job, under the jobs lock.
CancelQueued(c, j) ==
  /\ status[j] = "queued"
  /\ status' = [status EXCEPT ![j] = "cancelled"]
  /\ GotoAbout(c, "unlocked", j)
  /\ UNCHANGED cancelRequested

\* Variant: a running job is cancelled on the spot.
CancelRunningAtOnce(c, j) ==
  /\ status[j] = "running"
  /\ status' = [status EXCEPT ![j] = "cancelled"]
  /\ GotoAbout(c, "unlocked", j)
  /\ UNCHANGED cancelRequested

\* A running job is only asked to stop.
CancelRunning(c, j) ==
  /\ status[j] = "running"
  /\ cancelRequested' = cancelRequested \cup {j}
  /\ Reply(c)
  /\ UNCHANGED status

\* A terminal job is refused (409) and an unknown one not found: ReplyOnly.
CancelJob(c) ==
  /\ at[c] = "open"
  /\ \E j \in Job : CancelQueued(c, j) \/ CancelRunning(c, j)
  /\ UNCHANGED <<nextId, results, cancelled, jobVars, loopVars>>

\* cancel_job, after drop(jobs): only a withdrawn job enters the set.
RecordCancelled(c) ==
  /\ at[c] = "unlocked"
  /\ cancelled' = cancelled \cup {about[c]}
  /\ Reply(c)
  /\ UNCHANGED <<nextId, status, cancelRequested, results, jobVars, loopVars>>

-----------------------------------------------------------------------------
\* Job threads: the closure of spawn_job.

Step(j, from, to) ==
  /\ worker[j] = from
  /\ worker' = [worker EXCEPT ![j] = to]

\* Variant: the job is started without looking at its status.
MarkRunningAlways(j) ==
  /\ status' = [status EXCEPT ![j] = "running"]
  /\ Step(j, "spawned", "running")
  /\ UNCHANGED <<nextId, cancelRequested, results, cancelled, outcome, connVars, loopVars>>

\* mark_running: only a job still queued is started.
MarkRunning(j) ==
  /\ \/ /\ status[j] = "queued"
        /\ status' = [status EXCEPT ![j] = "running"]
        /\ Step(j, "spawned", "running")
     \/ /\ status[j] # "queued"
        /\ UNCHANGED status
        /\ Step(j, "spawned", "done")
  /\ UNCHANGED <<nextId, cancelRequested, results, cancelled, outcome, connVars, loopVars>>

\* run_qc under catch_unwind.
RunQc(j) ==
  /\ Step(j, "running", "analysed")
  /\ \E o \in Outcome \ {"none"} : outcome' = [outcome EXCEPT ![j] = o]
  /\ UNCHANGED <<nextId, apiState, connVars, loopVars>>

\* is_cancelled, first operand: the set, under its own lock.
CheckCancelledSet(j) ==
  /\ Step(j, "analysed", IF j \in cancelled THEN "stopping" ELSE "notInSet")
  /\ UNCHANGED <<nextId, apiState, outcome, connVars, loopVars>>

\* Variant: the request flag is not looked at.
CheckCancelledStatusOnly(j) ==
  /\ Step(j, "notInSet", IF status[j] = "cancelled" THEN "stopping" ELSE "reporting")
  /\ UNCHANGED <<nextId, apiState, outcome, connVars, loopVars>>

\* is_cancelled, second operand: the record, under the jobs lock.
CheckCancelledFlag(j) ==
  /\ Step(j, "notInSet", IF status[j] = "cancelled" \/ j \in cancelRequested
                         THEN "stopping" ELSE "reporting")
  /\ UNCHANGED <<nextId, apiState, outcome, connVars, loopVars>>

\* Variant: any status is overwritten, and the flag is left set.
FinishJobKeepingFlag(j, s) ==
  /\ status' = [status EXCEPT ![j] = s]
  /\ UNCHANGED cancelRequested

\* finish_job: a cancelled record is only overwritten by Cancelled, and the
\* flag is reset with the status.
FinishJob(j, s) ==
  IF status[j] = "cancelled" /\ s # "cancelled"
  THEN UNCHANGED <<status, cancelRequested>>
  ELSE /\ status' = [status EXCEPT ![j] = s]
       /\ cancelRequested' = cancelRequested \ {j}

FinishCancelled(j) ==
  /\ Step(j, "stopping", "done")
  /\ FinishJob(j, "cancelled")
  /\ UNCHANGED <<nextId, results, cancelled, outcome, connVars, loopVars>>

\* Variant: a panic of run_qc is not turned into a failure.
FinishFailedOnError(j) ==
  /\ outcome[j] = "error"
  /\ Step(j, "reporting", "done")
  /\ FinishJob(j, "failed")
  /\ UNCHANGED <<nextId, results, cancelled, outcome, connVars, loopVars>>

FinishFailed(j) ==
  /\ outcome[j] \in {"error", "panic"}
  /\ Step(j, "reporting", "done")
  /\ FinishJob(j, "failed")
  /\ UNCHANGED <<nextId, results, cancelled, outcome, connVars, loopVars>>

\* desktop_run builds the report outside catch_unwind: a panic there ends the
\* thread.  Otherwise the result is stored before the status changes.
SaveResult(j) ==
  /\ outcome[j] = "ok"
  /\ \/ /\ Step(j, "reporting", "saved")
        /\ results' = results \cup {j}
     \/ /\ Step(j, "reporting", "lost")
        /\ UNCHANGED results
  /\ UNCHANGED <<nextId, status, cancelRequested, cancelled, outcome, connVars, loopVars>>

FinishSucceeded(j) ==
  /\ Step(j, "saved", "done")
  /\ FinishJob(j, "succeeded")
  /\ UNCHANGED <<nextId, results, cancelled, outcome, connVars, loopVars>>

-----------------------------------------------------------------------------
Handler(c) ==
  \/ ReplyOnly(c) \/ AllocateId(c) \/ InsertJob(c) \/ SpawnJob(c)
  \/ LookUpResults(c) \/ ReadResults(c)
  \/ CancelJob(c) \/ RecordCancelled(c)

Worker(j) ==
  \/ MarkRunning(j) \/ RunQc(j) \/ CheckCancelledSet(j) \/ CheckCancelledFlag(j)
  \/ FinishCancelled(j) \/ FinishFailed(j) \/ SaveResult(j) \/ FinishSucceeded(j)

ListenerLoop == CheckStop \/ AcceptNothing \/ AcceptError \/ \E c \in Conn : Accept(c)

Next ==
  \/ ListenerLoop
  \/ DropServer
  \/ \E c \in Conn : Handler(c)
  \/ \E j \in Job : Worker(j)

\* Every thread that can run is eventually scheduled: sockets have 3 s read and
\* write timeouts, the accept loop polls every 10 ms, and run_qc is assumed to
\* return.  Nobody is obliged to connect or to drop the server.
Fairness ==
  /\ \A c \in Conn : WF_vars(Handler(c))
  /\ \A j \in Job : WF_vars(Worker(j))
  /\ WF_vars(ListenerLoop)

Spec == Init /\ [][Next]_vars /\ Fairness

-----------------------------------------------------------------------------
\* Properties.

\* No client is ever answered 500 "completed job has no result" (line 488):
\* job_results decides on a status it copied before it released the jobs lock,
\* and finds the result when it takes the results lock.
NeverMissingResult == \A c \in Conn : at[c] # "fault"

\* A job withdrawn while it was queued is never analysed, from the moment
\* cancel_job releases the jobs lock and wherever its thread is by then.
WithdrawnNeverRuns ==
  \A j \in cancelled \cup {about[c] : c \in {d \in Conn : at[d] = "unlocked"}} :
    status[j] = "cancelled" /\ outcome[j] = "none"

\* The results map holds nothing a client cannot come to read: an entry belongs
\* to a succeeded job, or to one whose thread is about to mark it succeeded.
NoOrphanResult ==
  \A j \in results : status[j] = "succeeded" \/ (status[j] = "running" /\ worker[j] = "saved")

\* What a client sees of its jobs is the lifecycle of JobLifecycle, the result
\* appearing in the very step in which the status becomes succeeded.
Lifecycle == INSTANCE JobLifecycle
  WITH readable <- {j \in results : status[j] = "succeeded"}

ImplementsLifecycle == Lifecycle!Spec

\* A cancel accepted while the job runs, before its thread looks at the flag,
\* ends the job cancelled whatever run_qc returned.
TimelyCancelHonoured ==
  \A j \in Job :
    j \in cancelRequested /\ worker[j] \in {"running", "analysed", "notInSet"}
      ~> status[j] = "cancelled"

\* A job whose thread started reaches a terminal status, a panic of the engine
\* included; only a thread that dies building the report leaves its job running.
StartedJobSettles ==
  \A j \in Job : worker[j] = "spawned" ~> status[j] \in Terminal \/ worker[j] = "lost"

\* Dropping the server returns: the accept loop ends once the flag is up.
DropReturns == stop ~> listener = "exited"
=============================================================================
