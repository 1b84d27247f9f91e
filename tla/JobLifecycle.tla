---------------------------- MODULE JobLifecycle ----------------------------
(***************************************************************************)
(* What the local API promises a client about a job, with no threads, no   *)
(* locks and no bookkeeping sets: the five published statuses, the cancel  *)
(* flag shown with the job, and the set of jobs whose result can be read.  *)
(* LocalApi implements it (LocalApi!ImplementsLifecycle).                  *)
(***************************************************************************)
CONSTANT Job          \* every id the API will ever hand out

VARIABLES
  status,             \* [Job -> Status], what GET /jobs/<id> shows
  cancelRequested,    \* the jobs shown with cancel_requested = true
  readable            \* the jobs whose GET /jobs/<id>/results answers 200

vars == <<status, cancelRequested, readable>>

Terminal == {"succeeded", "failed", "cancelled"}
Status   == {"absent", "queued", "running"} \cup Terminal

TypeOK ==
  /\ status \in [Job -> Status]
  /\ cancelRequested \in SUBSET Job
  /\ readable \in SUBSET Job

Init ==
  /\ status = [j \in Job |-> "absent"]
  /\ cancelRequested = {}
  /\ readable = {}

Move(j, from, to) ==
  /\ status[j] = from
  /\ status' = [status EXCEPT ![j] = to]

Submit(j) == Move(j, "absent", "queued") /\ UNCHANGED <<cancelRequested, readable>>

Start(j) == Move(j, "queued", "running") /\ UNCHANGED <<cancelRequested, readable>>

\* A queued job is withdrawn at once; a running one is only flagged.
Withdraw(j) == Move(j, "queued", "cancelled") /\ UNCHANGED <<cancelRequested, readable>>

Flag(j) ==
  /\ status[j] = "running"
  /\ cancelRequested' = cancelRequested \cup {j}
  /\ UNCHANGED <<status, readable>>

\* The status and the result become visible together, and the flag is reset.
Succeed(j) ==
  /\ Move(j, "running", "succeeded")
  /\ cancelRequested' = cancelRequested \ {j}
  /\ readable' = readable \cup {j}

Fail(j) ==
  /\ Move(j, "running", "failed")
  /\ cancelRequested' = cancelRequested \ {j}
  /\ UNCHANGED readable

\* A job that has started ends cancelled only if somebody asked for it.
Stop(j) ==
  /\ j \in cancelRequested
  /\ Move(j, "running", "cancelled")
  /\ cancelRequested' = cancelRequested \ {j}
  /\ UNCHANGED readable

Next ==
  \E j \in Job :
    \/ Submit(j) \/ Start(j) \/ Withdraw(j) \/ Flag(j)
    \/ Succeed(j) \/ Fail(j) \/ Stop(j)

Spec == Init /\ [][Next]_vars
=============================================================================
