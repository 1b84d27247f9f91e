----------------------------- MODULE Scheduler ------------------------------
(***************************************************************************)
(* run_jobs of the pipeline crate                                          *)
(* (crates/tpt-app-media-qc-pipeline/src/scheduler.rs): scoped worker      *)
(* threads claim jobs from a shared atomic counter, keep the results to    *)
(* themselves, and hand them over when the calling thread joins them, in   *)
(* order.  A panic in a check unwinds its worker, with all it kept.        *)
(***************************************************************************)
EXTENDS Integers

CONSTANTS
  NumJobs,     \* jobs.len()
  Limit        \* limits.concurrency_for(the dominant cost class of the rules)

ASSUME NumJobsAssumption == NumJobs \in Nat \ {0}   \* an empty batch returns at once
ASSUME LimitAssumption   == Limit \in Nat

Job == 0 .. NumJobs - 1

\* clamp(1, jobs.len())
WorkerCount ==
  CASE Limit < 1       -> 1
    [] Limit > NumJobs -> NumJobs
    [] OTHER           -> Limit

Worker == 1 .. WorkerCount

\* What engine.check returns: a run, or an error of the inspector.
Answer == {"run", "error"}

VARIABLES
  next,       \* the shared counter
  pc,         \* where each worker is
  claim,      \* the job it is checking
  local,      \* the jobs in its local vector
  answer,     \* what the check of each job returned ("none": not returned)
  results,    \* the vector being filled by the calling thread
  joined,     \* how many workers the calling thread has joined
  owner       \* history: the worker that claimed each job last (0: nobody)

vars == <<next, pc, claim, local, answer, results, joined, owner>>

TypeOK ==
  /\ next \in Nat
  /\ pc \in [Worker -> {"claiming", "checking", "finished", "panicked"}]
  /\ claim \in [Worker -> Nat]
  /\ local \in [Worker -> SUBSET Job]
  /\ answer \in [Job -> Answer \cup {"none"}]
  /\ results \in [Job -> Answer \cup {"unreported"}]
  /\ joined \in 0 .. WorkerCount
  /\ owner \in [Job -> 0 .. WorkerCount]

Init ==
  /\ next = 0
  /\ pc = [w \in Worker |-> "claiming"]
  /\ claim = [w \in Worker |-> 0]
  /\ local = [w \in Worker |-> {}]
  /\ answer = [j \in Job |-> "none"]
  /\ results = [j \in Job |-> "unreported"]
  /\ joined = 0
  /\ owner = [j \in Job |-> 0]

\* Variant: a load and a store in place of fetch_add lose a concurrent claim.
ClaimByLoad(w) ==
  /\ pc[w] = "claiming"
  /\ claim' = [claim EXCEPT ![w] = next]
  /\ pc' = [pc EXCEPT ![w] = IF next < NumJobs THEN "checking" ELSE "finished"]
  /\ owner' = [j \in Job |-> IF j = next THEN w ELSE owner[j]]
  /\ next' \in {next, next + 1}
  /\ UNCHANGED <<local, answer, results, joined>>

\* fetch_add(1), and the exit of the loop when the jobs are used up.
Claim(w) ==
  /\ pc[w] = "claiming"
  /\ claim' = [claim EXCEPT ![w] = next]
  /\ pc' = [pc EXCEPT ![w] = IF next < NumJobs THEN "checking" ELSE "finished"]
  /\ owner' = [j \in Job |-> IF j = next THEN w ELSE owner[j]]
  /\ next' = next + 1
  /\ UNCHANGED <<local, answer, results, joined>>

\* Variant: the worker gives up at its first error.
CheckUntilError(w) ==
  /\ pc[w] = "checking"
  /\ \E a \in Answer :
       /\ answer' = [answer EXCEPT ![claim[w]] = a]
       /\ pc' = [pc EXCEPT ![w] = IF a = "error" THEN "finished" ELSE "claiming"]
  /\ local' = [local EXCEPT ![w] = @ \cup {claim[w]}]
  /\ UNCHANGED <<next, claim, results, joined, owner>>

\* engine.check returns and its result is pushed.
Check(w) ==
  /\ pc[w] = "checking"
  /\ \E a \in Answer : answer' = [answer EXCEPT ![claim[w]] = a]
  /\ local' = [local EXCEPT ![w] = @ \cup {claim[w]}]
  /\ pc' = [pc EXCEPT ![w] = "claiming"]
  /\ UNCHANGED <<next, claim, results, joined, owner>>

\* engine.check panics (the rules are under catch_unwind, the inspector is not).
Panic(w) ==
  /\ pc[w] = "checking"
  /\ pc' = [pc EXCEPT ![w] = "panicked"]
  /\ local' = [local EXCEPT ![w] = {}]
  /\ UNCHANGED <<next, claim, answer, results, joined, owner>>

\* What the calling thread does with the worker it has joined.
Merge(w) ==
  /\ results' = [j \in Job |-> IF j \in local[w] THEN answer[j] ELSE results[j]]
  /\ UNCHANGED <<next, pc, claim, local, answer, owner>>

\* Variants of Join: stop at the first panic; wait for a normal end.
JoinUntilPanic ==
  LET w == joined + 1
  IN  /\ w \in Worker
      /\ pc[w] \in {"finished", "panicked"}
      /\ joined' = IF pc[w] = "panicked" THEN WorkerCount ELSE joined + 1
      /\ Merge(w)

JoinFinished ==
  LET w == joined + 1
  IN  /\ w \in Worker
      /\ pc[w] = "finished"
      /\ joined' = joined + 1
      /\ Merge(w)

\* handle.join() on the workers in the order they were spawned; a panicked one
\* contributes nothing and the loop goes on.
Join ==
  LET w == joined + 1
  IN  /\ w \in Worker
      /\ pc[w] \in {"finished", "panicked"}
      /\ joined' = joined + 1
      /\ Merge(w)

Returned == joined = WorkerCount

Done == Returned /\ UNCHANGED vars

Next == (\E w \in Worker : Claim(w) \/ Check(w) \/ Panic(w)) \/ Join \/ Done

\* Threads are scheduled and a check returns or panics.
Fairness ==
  /\ \A w \in Worker : WF_vars(Claim(w) \/ Check(w) \/ Panic(w))
  /\ WF_vars(Join)

Spec == Init /\ [][Next]_vars /\ Fairness

-----------------------------------------------------------------------------
\* Properties.

\* No job is checked twice or by two workers: what a worker is checking or has
\* kept is its own, and was not answered before.
OneWorkerPerJob ==
  \A w \in Worker :
    /\ pc[w] = "checking" => owner[claim[w]] = w /\ answer[claim[w]] = "none"
    /\ \A j \in local[w] : owner[j] = w

\* "a panicked worker does not lose the others' results" (docs/architecture.md:141):
\* when run_jobs returns, each job of a worker that finished has the answer its
\* own check gave, at its own index.
OthersKeepTheirResults ==
  Returned => \A w \in Worker : pc[w] = "finished" =>
                \A j \in local[w] : answer[j] # "none" /\ results[j] = answer[j]

\* One worker that survives is enough for every job to be claimed; a job that is
\* then unreported was claimed by a worker that panicked.
NoJobSkipped ==
  Returned /\ (\E w \in Worker : pc[w] = "finished") =>
    \A j \in Job :
      /\ owner[j] # 0
      /\ results[j] = "unreported" => pc[owner[j]] = "panicked"

\* run_jobs returns.
Returns == <> Returned
=============================================================================
