--------------------------- MODULE SchedulerProofs --------------------------
(***************************************************************************)
(* Theorems about Scheduler, for any number of jobs and any limit.  The    *)
(* inductive invariant says which jobs the counter has given out           *)
(* (Claimed), what a worker holds of the ones it owns (Held) and what the  *)
(* calling thread has already collected (Collected).                       *)
(***************************************************************************)
EXTENDS Scheduler, TLAPS

\* The jobs below the counter are owned, the others untouched.
Claimed ==
  /\ \A j \in Job : owner[j] # 0 <=> j < next
  /\ \A j \in Job : answer[j] # "none" => owner[j] # 0
  /\ \A w \in Worker : pc[w] = "finished" => next > NumJobs

\* A worker that has not panicked holds every job it owns, answered but for the
\* one it is checking.
Held ==
  /\ \A w \in Worker : pc[w] = "checking" =>
       claim[w] \in Job /\ owner[claim[w]] = w /\ answer[claim[w]] = "none"
  /\ \A w \in Worker : \A j \in local[w] : owner[j] = w /\ answer[j] # "none"
  /\ \A w \in Worker : pc[w] = "panicked" => local[w] = {}
  /\ \A j \in Job : \A w \in Worker : owner[j] = w =>
       \/ j \in local[w]
       \/ pc[w] = "checking" /\ claim[w] = j
       \/ pc[w] = "panicked"

\* The workers joined so far have ended, and what they held is in the results.
Collected ==
  /\ \A w \in Worker : w <= joined => pc[w] \in {"finished", "panicked"}
  /\ \A w \in Worker : w <= joined => \A j \in local[w] : results[j] = answer[j]
  /\ \A j \in Job : results[j] # "unreported" =>
       owner[j] \in 1 .. joined /\ j \in local[owner[j]]

IInv == TypeOK /\ Claimed /\ Held /\ Collected

\* There is a worker, and no more than the jobs.
LEMMA WorkerCountRange == WorkerCount \in Nat \ {0} /\ WorkerCount <= NumJobs
BY NumJobsAssumption, LimitAssumption DEF WorkerCount


USE NumJobsAssumption, WorkerCountRange
    DEF Job, Worker, Answer, IInv

\* Nothing is claimed yet.
LEMMA InitInv == Init => IInv
<1> SUFFICES ASSUME Init PROVE IInv
  OBVIOUS
<1> USE DEF Init
<1>1. TypeOK
  BY DEF TypeOK
<1>2. Claimed
  BY DEF Claimed
<1>3. Held
  BY DEF Held
<1>4. Collected
  BY DEF Collected
<1> QED
  BY <1>1, <1>2, <1>3, <1>4


\* The claimed job had no owner, so no other worker can be holding it.
LEMMA ClaimInv ==
  ASSUME IInv, NEW w \in Worker, Claim(w)
  PROVE  IInv'
<1> USE DEF Claim
<1>1. TypeOK'
  BY DEF TypeOK
<1>2. Claimed'
  BY DEF TypeOK, Claimed
<1>3. Held'
  BY DEF TypeOK, Claimed, Held
<1>4. Collected'
  BY DEF TypeOK, Claimed, Held, Collected
<1> QED
  BY <1>1, <1>2, <1>3, <1>4


\* The checked job moves from the worker's hand to its vector.
LEMMA CheckInv ==
  ASSUME IInv, NEW w \in Worker, Check(w)
  PROVE  IInv'
<1> USE DEF Check
<1>1. TypeOK'
  BY DEF TypeOK, Held
<1>2. Claimed'
  BY DEF TypeOK, Claimed, Held
<1>3. Held'
  BY DEF TypeOK, Claimed, Held
<1>4. Collected'
  BY DEF TypeOK, Claimed, Held, Collected
<1> QED
  BY <1>1, <1>2, <1>3, <1>4


\* A panicking worker is not joined yet: it takes nothing back from the results.
LEMMA PanicInv ==
  ASSUME IInv, NEW w \in Worker, Panic(w)
  PROVE  IInv'
<1> USE DEF Panic
<1>1. TypeOK'
  BY DEF TypeOK
<1>2. Claimed'
  BY DEF TypeOK, Claimed
<1>3. Held'
  BY DEF TypeOK, Claimed, Held
<1>4. Collected'
  <2>1. ~ w <= joined
    BY DEF Collected
  <2>2. \A v \in Worker : v <= joined => pc'[v] = pc[v] /\ local'[v] = local[v]
    BY <2>1 DEF TypeOK
  <2>3. ASSUME NEW j \in Job, results[j] # "unreported"
        PROVE  owner[j] \in 1 .. joined /\ j \in local'[owner[j]]
    <3>1. owner[j] \in 1 .. joined /\ j \in local[owner[j]]
      BY <2>3 DEF Collected
    <3> QED
      BY <2>2, <3>1 DEF TypeOK
  <2> QED
    BY <2>2, <2>3 DEF Collected
<1> QED
  BY <1>1, <1>2, <1>3, <1>4


\* The calling thread copies what the worker owns and nothing else.
LEMMA JoinInv ==
  ASSUME IInv, Join
  PROVE  IInv'
<1> DEFINE w == joined + 1
<1> USE DEF Join, Merge
<1>1. w \in Worker /\ pc[w] \in {"finished", "panicked"} /\ joined' = w
  OBVIOUS
<1>2. \A j \in local[w] : owner[j] = w /\ answer[j] \in Answer
  BY <1>1 DEF TypeOK, Held
<1>3. TypeOK'
  BY <1>1, <1>2 DEF TypeOK
<1>4. Claimed'
  BY DEF Claimed
<1>5. Held'
  BY DEF Held
<1>6. Collected'
  BY <1>1, <1>2 DEF TypeOK, Held, Collected
<1> QED
  BY <1>3, <1>4, <1>5, <1>6


\* Every step keeps the invariant.
LEMMA NextInv == IInv /\ [Next]_vars => IInv'
<1> SUFFICES ASSUME IInv, [Next]_vars PROVE IInv'
  OBVIOUS
<1>1. ASSUME NEW w \in Worker, Claim(w) PROVE IInv'
  BY <1>1, ClaimInv
<1>2. ASSUME NEW w \in Worker, Check(w) PROVE IInv'
  BY <1>2, CheckInv
<1>3. ASSUME NEW w \in Worker, Panic(w) PROVE IInv'
  BY <1>3, PanicInv
<1>4. CASE Join
  BY <1>4, JoinInv
<1>5. CASE UNCHANGED vars
  BY <1>5 DEF vars, TypeOK, Claimed, Held, Collected
<1> QED
  BY <1>1, <1>2, <1>3, <1>4, <1>5 DEF Next, Done


\* Every reachable state satisfies the invariant, for any number of jobs and any
\* limit (run_jobs, scheduler.rs:23-68).
THEOREM Invariance == Spec => []IInv
<1>1. Init => IInv
  BY InitInv
<1>2. IInv /\ [Next]_vars => IInv'
  BY NextInv
<1> QED
  BY <1>1, <1>2, PTL DEF Spec


\* The types of the counter, the workers and the results (run_jobs).
THEOREM TypeCorrect == Spec => []TypeOK
<1>1. IInv => TypeOK
  OBVIOUS
<1> QED
  BY <1>1, Invariance, PTL


\* The shared counter hands each job to one worker only, and what a worker keeps
\* is its own (the fetch_add of run_jobs).
THEOREM JobsAreNeverShared == Spec => []OneWorkerPerJob
<1>1. IInv => OneWorkerPerJob
  BY DEF OneWorkerPerJob, Held
<1> QED
  BY <1>1, Invariance, PTL


\* "a panicked worker does not lose the others' results": whatever the other
\* workers did, the answers of one that finished are in the returned vector.
THEOREM OthersAreKept == Spec => []OthersKeepTheirResults
<1>1. IInv => OthersKeepTheirResults
  BY DEF OthersKeepTheirResults, Returned, TypeOK, Held, Collected
<1> QED
  BY <1>1, Invariance, PTL


\* When a worker survives, a job is unreported only if the worker that claimed it
\* panicked (the loop of the worker and the merge of run_jobs).
THEOREM NothingIsSkipped == Spec => []NoJobSkipped
<1>1. ASSUME IInv, Returned, NEW v \in Worker, pc[v] = "finished", NEW j \in Job
      PROVE  owner[j] # 0 /\ (results[j] = "unreported" => pc[owner[j]] = "panicked")
  <2>1. next > NumJobs /\ owner[j] # 0
    BY <1>1 DEF TypeOK, Claimed
  <2>2. owner[j] \in Worker /\ owner[j] <= joined
    BY <1>1, <2>1 DEF TypeOK, Returned
  <2>3. pc[owner[j]] \in {"finished", "panicked"}
    BY <1>1, <2>2 DEF Collected
  <2>4. j \in local[owner[j]] => results[j] \in Answer
    BY <1>1, <2>2 DEF TypeOK, Held, Collected
  <2> QED
    BY <1>1, <2>1, <2>2, <2>3, <2>4 DEF Held
<1>2. IInv => NoJobSkipped
  BY <1>1 DEF NoJobSkipped
<1> QED
  BY <1>2, Invariance, PTL
=============================================================================
