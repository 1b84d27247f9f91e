--------------------------- MODULE LocalApiProofs ---------------------------
(***************************************************************************)
(* Theorems about LocalApi, for any number of connections and jobs.  The   *)
(* inductive invariant says where a job's thread can be for each status of *)
(* its record (ThreadAndRecord), who may still be holding its id           *)
(* (HandlersHold) and what the three maps say together (MapsAgree).        *)
(***************************************************************************)
EXTENDS LocalApi, TLAPS

Busy == {"running", "analysed", "notInSet", "stopping", "reporting", "saved"}

\* A record is running exactly while its thread is between mark_running and
\* finish_job, or died there.
ThreadAndRecord ==
  \A j \in Job :
    /\ worker[j] = "none"    => status[j] \in {"absent", "queued", "cancelled"}
    /\ worker[j] = "spawned" => status[j] \in {"queued", "cancelled"}
    /\ worker[j] \in Busy    => status[j] = "running"
    /\ worker[j] = "done"    => status[j] \in Terminal
    /\ worker[j] = "lost"    => status[j] \in {"queued", "cancelled", "running"}
    /\ status[j] = "absent"  => worker[j] = "none"
    /\ status[j] = "running" => worker[j] \in Busy \cup {"lost"}
    /\ worker[j] \in {"none", "spawned", "running"} => outcome[j] = "none"
    /\ status[j] = "queued"  => outcome[j] = "none"
    /\ worker[j] = "stopping" => j \in cancelRequested

\* What the three maps say of one job.
MapsAgree ==
  \A j \in Job :
    /\ j \in cancelRequested => status[j] = "running"
    /\ j \in cancelled => status[j] = "cancelled" /\ outcome[j] = "none"
    /\ j \in results => worker[j] = "saved" \/ status[j] = "succeeded"
    /\ worker[j] = "saved" => j \in results
    /\ status[j] = "succeeded" => j \in results

\* What a handler may rely on about the id it carries between two locks.
HandlersHold ==
  /\ \A j \in Job : j >= nextId => status[j] = "absent"
  /\ \A c \in Conn :
       /\ at[c] \in {"allocated", "inserted", "unlocked", "finished"} =>
            about[c] \in Job
       /\ at[c] \in {"allocated", "inserted"} =>
            about[c] < nextId /\ worker[about[c]] = "none"
       /\ at[c] = "allocated" => status[about[c]] = "absent"
       /\ at[c] = "inserted" => status[about[c]] # "absent"
       /\ at[c] = "unlocked" => status[about[c]] = "cancelled" /\ outcome[about[c]] = "none"
       /\ at[c] = "finished" => status[about[c]] = "succeeded"
       /\ at[c] # "fault"
  /\ \A c, d \in Conn :
       at[c] \in {"allocated", "inserted"} /\ at[d] \in {"allocated", "inserted"}
         /\ about[c] = about[d] => c = d

IInv == TypeOK /\ ThreadAndRecord /\ MapsAgree /\ HandlersHold


USE MaxJobsAssumption
    DEF Job, Status, Terminal, Outcome, WorkerStage, ConnStage, Busy, IInv,
        apiState, jobVars, connVars, loopVars

\* Nothing has happened yet.
LEMMA InitInv == Init => IInv
<1> SUFFICES ASSUME Init PROVE IInv
  OBVIOUS
<1> USE DEF Init
<1>1. TypeOK
  <2>1. nextId \in 1 .. MaxJobs + 1
    OBVIOUS
  <2>2. status \in [Job -> Status] /\ worker \in [Job -> WorkerStage]
        /\ outcome \in [Job -> Outcome]
    OBVIOUS
  <2>3. at \in [Conn -> ConnStage] /\ about \in [Conn -> 0 .. MaxJobs]
    OBVIOUS
  <2> QED
    BY <2>1, <2>2, <2>3 DEF TypeOK
<1>2. ThreadAndRecord
  BY DEF ThreadAndRecord
<1>3. MapsAgree
  BY DEF MapsAgree
<1>4. HandlersHold
  BY DEF HandlersHold
<1> QED
  BY <1>1, <1>2, <1>3, <1>4


\* CheckStop keeps the invariant.
LEMMA CheckStopInv ==
  ASSUME IInv, CheckStop
  PROVE  IInv'
<1> USE DEF CheckStop
<1>1. TypeOK'
  BY DEF TypeOK
<1>2. ThreadAndRecord'
  BY DEF TypeOK, ThreadAndRecord, MapsAgree, HandlersHold
<1>3. MapsAgree'
  BY DEF TypeOK, ThreadAndRecord, MapsAgree, HandlersHold
<1>4. HandlersHold'
  BY DEF TypeOK, ThreadAndRecord, MapsAgree, HandlersHold
<1> QED
  BY <1>1, <1>2, <1>3, <1>4


\* AcceptNothing keeps the invariant.
LEMMA AcceptNothingInv ==
  ASSUME IInv, AcceptNothing
  PROVE  IInv'
<1> USE DEF AcceptNothing
<1>1. TypeOK'
  BY DEF TypeOK
<1>2. ThreadAndRecord'
  BY DEF TypeOK, ThreadAndRecord, MapsAgree, HandlersHold
<1>3. MapsAgree'
  BY DEF TypeOK, ThreadAndRecord, MapsAgree, HandlersHold
<1>4. HandlersHold'
  BY DEF TypeOK, ThreadAndRecord, MapsAgree, HandlersHold
<1> QED
  BY <1>1, <1>2, <1>3, <1>4


\* AcceptError keeps the invariant.
LEMMA AcceptErrorInv ==
  ASSUME IInv, AcceptError
  PROVE  IInv'
<1> USE DEF AcceptError
<1>1. TypeOK'
  BY DEF TypeOK
<1>2. ThreadAndRecord'
  BY DEF TypeOK, ThreadAndRecord, MapsAgree, HandlersHold
<1>3. MapsAgree'
  BY DEF TypeOK, ThreadAndRecord, MapsAgree, HandlersHold
<1>4. HandlersHold'
  BY DEF TypeOK, ThreadAndRecord, MapsAgree, HandlersHold
<1> QED
  BY <1>1, <1>2, <1>3, <1>4


\* DropServer keeps the invariant.
LEMMA DropServerInv ==
  ASSUME IInv, DropServer
  PROVE  IInv'
<1> USE DEF DropServer
<1>1. TypeOK'
  BY DEF TypeOK
<1>2. ThreadAndRecord'
  BY DEF TypeOK, ThreadAndRecord, MapsAgree, HandlersHold
<1>3. MapsAgree'
  BY DEF TypeOK, ThreadAndRecord, MapsAgree, HandlersHold
<1>4. HandlersHold'
  BY DEF TypeOK, ThreadAndRecord, MapsAgree, HandlersHold
<1> QED
  BY <1>1, <1>2, <1>3, <1>4


\* Accept keeps the invariant.
LEMMA AcceptInv ==
  ASSUME NEW c \in Conn, IInv, Accept(c)
  PROVE  IInv'
<1> USE DEF Accept
<1>1. TypeOK'
  BY DEF TypeOK
<1>2. ThreadAndRecord'
  BY DEF TypeOK, ThreadAndRecord, MapsAgree, HandlersHold
<1>3. MapsAgree'
  BY DEF TypeOK, ThreadAndRecord, MapsAgree, HandlersHold
<1>4. HandlersHold'
  BY DEF TypeOK, ThreadAndRecord, MapsAgree, HandlersHold
<1> QED
  BY <1>1, <1>2, <1>3, <1>4


\* ReplyOnly keeps the invariant.
LEMMA ReplyOnlyInv ==
  ASSUME NEW c \in Conn, IInv, ReplyOnly(c)
  PROVE  IInv'
<1> USE DEF ReplyOnly, Reply, GotoAbout
<1>1. TypeOK'
  BY DEF TypeOK
<1>2. ThreadAndRecord'
  BY DEF TypeOK, ThreadAndRecord, MapsAgree, HandlersHold
<1>3. MapsAgree'
  BY DEF TypeOK, ThreadAndRecord, MapsAgree, HandlersHold
<1>4. HandlersHold'
  BY DEF TypeOK, ThreadAndRecord, MapsAgree, HandlersHold
<1> QED
  BY <1>1, <1>2, <1>3, <1>4


\* AllocateId keeps the invariant.
LEMMA AllocateIdInv ==
  ASSUME NEW c \in Conn, IInv, AllocateId(c)
  PROVE  IInv'
<1> USE DEF AllocateId, GotoAbout
<1>1. TypeOK'
  BY DEF TypeOK
<1>2. ThreadAndRecord'
  BY DEF TypeOK, ThreadAndRecord, MapsAgree, HandlersHold
<1>3. MapsAgree'
  BY DEF TypeOK, ThreadAndRecord, MapsAgree, HandlersHold
<1>4. HandlersHold'
  BY DEF TypeOK, ThreadAndRecord, MapsAgree, HandlersHold
<1> QED
  BY <1>1, <1>2, <1>3, <1>4


\* InsertJob keeps the invariant.
LEMMA InsertJobInv ==
  ASSUME NEW c \in Conn, IInv, InsertJob(c)
  PROVE  IInv'
<1> USE DEF InsertJob, Goto
<1>1. TypeOK'
  BY DEF TypeOK
<1>2. ThreadAndRecord'
  BY DEF TypeOK, ThreadAndRecord, MapsAgree, HandlersHold
<1>3. MapsAgree'
  BY DEF TypeOK, ThreadAndRecord, MapsAgree, HandlersHold
<1>4. HandlersHold'
  BY DEF TypeOK, ThreadAndRecord, MapsAgree, HandlersHold
<1> QED
  BY <1>1, <1>2, <1>3, <1>4


\* SpawnJob keeps the invariant.
LEMMA SpawnJobInv ==
  ASSUME NEW c \in Conn, IInv, SpawnJob(c)
  PROVE  IInv'
<1> USE DEF SpawnJob, Reply, GotoAbout
<1>1. TypeOK'
  BY DEF TypeOK, HandlersHold
<1>2. ThreadAndRecord'
  BY DEF TypeOK, ThreadAndRecord, MapsAgree, HandlersHold
<1>3. MapsAgree'
  BY DEF TypeOK, ThreadAndRecord, MapsAgree, HandlersHold
<1>4. HandlersHold'
  BY DEF TypeOK, ThreadAndRecord, MapsAgree, HandlersHold
<1> QED
  BY <1>1, <1>2, <1>3, <1>4


\* LookUpResults keeps the invariant.
LEMMA LookUpResultsInv ==
  ASSUME NEW c \in Conn, IInv, LookUpResults(c)
  PROVE  IInv'
<1> USE DEF LookUpResults, GotoAbout
<1>1. TypeOK'
  BY DEF TypeOK
<1>2. ThreadAndRecord'
  BY DEF TypeOK, ThreadAndRecord, MapsAgree, HandlersHold
<1>3. MapsAgree'
  BY DEF TypeOK, ThreadAndRecord, MapsAgree, HandlersHold
<1>4. HandlersHold'
  BY DEF TypeOK, ThreadAndRecord, MapsAgree, HandlersHold
<1> QED
  BY <1>1, <1>2, <1>3, <1>4


\* ReadResults keeps the invariant.
LEMMA ReadResultsInv ==
  ASSUME NEW c \in Conn, IInv, ReadResults(c)
  PROVE  IInv'
<1> USE DEF ReadResults, Reply, Goto, GotoAbout
<1>1. TypeOK'
  <2>1. CASE about[c] \in results
    <3>1. at' \in [Conn -> ConnStage] /\ about' \in [Conn -> 0 .. MaxJobs]
      BY <2>1 DEF TypeOK
    <3> QED
      BY <3>1 DEF TypeOK
  <2>2. CASE about[c] \notin results
    BY <2>2 DEF TypeOK
  <2> QED
    BY <2>1, <2>2
<1>2. ThreadAndRecord'
  BY DEF TypeOK, ThreadAndRecord, MapsAgree, HandlersHold
<1>3. MapsAgree'
  BY DEF TypeOK, ThreadAndRecord, MapsAgree, HandlersHold
<1>4. HandlersHold'
  BY DEF TypeOK, ThreadAndRecord, MapsAgree, HandlersHold
<1> QED
  BY <1>1, <1>2, <1>3, <1>4


\* CancelJob keeps the invariant.
LEMMA CancelJobInv ==
  ASSUME NEW c \in Conn, IInv, CancelJob(c)
  PROVE  IInv'
<1> USE DEF CancelJob, Reply, GotoAbout
<1>1. PICK j \in Job : CancelQueued(c, j) \/ CancelRunning(c, j)
  OBVIOUS
<1>2. CASE CancelQueued(c, j)
  <2> USE DEF CancelQueued
  <2>1. TypeOK'
    BY <1>2 DEF TypeOK
  <2>2. ThreadAndRecord'
    BY <1>2 DEF TypeOK, ThreadAndRecord
  <2>3. MapsAgree'
    BY <1>2 DEF TypeOK, ThreadAndRecord, MapsAgree
  <2>4. HandlersHold'
    BY <1>2 DEF TypeOK, ThreadAndRecord, HandlersHold
  <2> QED
    BY <2>1, <2>2, <2>3, <2>4
<1>3. CASE CancelRunning(c, j)
  <2> USE DEF CancelRunning
  <2>1. TypeOK'
    BY <1>3 DEF TypeOK
  <2>2. ThreadAndRecord'
    BY <1>3 DEF TypeOK, ThreadAndRecord
  <2>3. MapsAgree'
    BY <1>3 DEF TypeOK, ThreadAndRecord, MapsAgree
  <2>4. HandlersHold'
    BY <1>3 DEF TypeOK, ThreadAndRecord, HandlersHold
  <2> QED
    BY <2>1, <2>2, <2>3, <2>4
<1> QED
  BY <1>1, <1>2, <1>3


\* RecordCancelled keeps the invariant.
LEMMA RecordCancelledInv ==
  ASSUME NEW c \in Conn, IInv, RecordCancelled(c)
  PROVE  IInv'
<1> USE DEF RecordCancelled, Reply, GotoAbout
<1>1. TypeOK'
  <2>1. about[c] \in Job
    BY DEF HandlersHold
  <2>2. cancelled' \in SUBSET Job
    BY <2>1 DEF TypeOK
  <2> QED
    BY <2>2 DEF TypeOK
<1>2. ThreadAndRecord'
  BY DEF TypeOK, ThreadAndRecord, MapsAgree, HandlersHold
<1>3. MapsAgree'
  BY DEF TypeOK, ThreadAndRecord, MapsAgree, HandlersHold
<1>4. HandlersHold'
  BY DEF TypeOK, ThreadAndRecord, MapsAgree, HandlersHold
<1> QED
  BY <1>1, <1>2, <1>3, <1>4


\* MarkRunning keeps the invariant.
LEMMA MarkRunningInv ==
  ASSUME NEW j \in Job, IInv, MarkRunning(j)
  PROVE  IInv'
<1> USE DEF MarkRunning, Step
<1>1. TypeOK'
  BY DEF TypeOK
<1>2. ThreadAndRecord'
  BY DEF TypeOK, ThreadAndRecord, MapsAgree, HandlersHold
<1>3. MapsAgree'
  BY DEF TypeOK, ThreadAndRecord, MapsAgree, HandlersHold
<1>4. HandlersHold'
  BY DEF TypeOK, ThreadAndRecord, MapsAgree, HandlersHold
<1> QED
  BY <1>1, <1>2, <1>3, <1>4


\* RunQc keeps the invariant.
LEMMA RunQcInv ==
  ASSUME NEW j \in Job, IInv, RunQc(j)
  PROVE  IInv'
<1> USE DEF RunQc, Step
<1>1. TypeOK'
  BY DEF TypeOK
<1>2. ThreadAndRecord'
  BY DEF TypeOK, ThreadAndRecord, MapsAgree, HandlersHold
<1>3. MapsAgree'
  BY DEF TypeOK, ThreadAndRecord, MapsAgree, HandlersHold
<1>4. HandlersHold'
  BY DEF TypeOK, ThreadAndRecord, MapsAgree, HandlersHold
<1> QED
  BY <1>1, <1>2, <1>3, <1>4


\* CheckCancelledSet keeps the invariant.
LEMMA CheckCancelledSetInv ==
  ASSUME NEW j \in Job, IInv, CheckCancelledSet(j)
  PROVE  IInv'
<1> USE DEF CheckCancelledSet, Step
<1>1. TypeOK'
  BY DEF TypeOK
<1>2. ThreadAndRecord'
  BY DEF TypeOK, ThreadAndRecord, MapsAgree, HandlersHold
<1>3. MapsAgree'
  BY DEF TypeOK, ThreadAndRecord, MapsAgree, HandlersHold
<1>4. HandlersHold'
  BY DEF TypeOK, ThreadAndRecord, MapsAgree, HandlersHold
<1> QED
  BY <1>1, <1>2, <1>3, <1>4


\* CheckCancelledFlag keeps the invariant.
LEMMA CheckCancelledFlagInv ==
  ASSUME NEW j \in Job, IInv, CheckCancelledFlag(j)
  PROVE  IInv'
<1> USE DEF CheckCancelledFlag, Step
<1>1. TypeOK'
  BY DEF TypeOK
<1>2. ThreadAndRecord'
  BY DEF TypeOK, ThreadAndRecord, MapsAgree, HandlersHold
<1>3. MapsAgree'
  BY DEF TypeOK, ThreadAndRecord, MapsAgree, HandlersHold
<1>4. HandlersHold'
  BY DEF TypeOK, ThreadAndRecord, MapsAgree, HandlersHold
<1> QED
  BY <1>1, <1>2, <1>3, <1>4


\* FinishCancelled keeps the invariant.
LEMMA FinishCancelledInv ==
  ASSUME NEW j \in Job, IInv, FinishCancelled(j)
  PROVE  IInv'
<1> USE DEF FinishCancelled, FinishJob, Step
<1>1. TypeOK'
  BY DEF TypeOK
<1>2. ThreadAndRecord'
  BY DEF TypeOK, ThreadAndRecord, MapsAgree, HandlersHold
<1>3. MapsAgree'
  BY DEF TypeOK, ThreadAndRecord, MapsAgree, HandlersHold
<1>4. HandlersHold'
  BY DEF TypeOK, ThreadAndRecord, MapsAgree, HandlersHold
<1> QED
  BY <1>1, <1>2, <1>3, <1>4


\* FinishFailed keeps the invariant.
LEMMA FinishFailedInv ==
  ASSUME NEW j \in Job, IInv, FinishFailed(j)
  PROVE  IInv'
<1> USE DEF FinishFailed, FinishJob, Step
<1>1. TypeOK'
  BY DEF TypeOK
<1>2. ThreadAndRecord'
  BY DEF TypeOK, ThreadAndRecord, MapsAgree, HandlersHold
<1>3. MapsAgree'
  BY DEF TypeOK, ThreadAndRecord, MapsAgree, HandlersHold
<1>4. HandlersHold'
  BY DEF TypeOK, ThreadAndRecord, MapsAgree, HandlersHold
<1> QED
  BY <1>1, <1>2, <1>3, <1>4


\* SaveResult keeps the invariant.
LEMMA SaveResultInv ==
  ASSUME NEW j \in Job, IInv, SaveResult(j)
  PROVE  IInv'
<1> USE DEF SaveResult, Step
<1>1. TypeOK'
  BY DEF TypeOK
<1>2. ThreadAndRecord'
  BY DEF TypeOK, ThreadAndRecord, MapsAgree, HandlersHold
<1>3. MapsAgree'
  BY DEF TypeOK, ThreadAndRecord, MapsAgree, HandlersHold
<1>4. HandlersHold'
  BY DEF TypeOK, ThreadAndRecord, MapsAgree, HandlersHold
<1> QED
  BY <1>1, <1>2, <1>3, <1>4


\* FinishSucceeded keeps the invariant.
LEMMA FinishSucceededInv ==
  ASSUME NEW j \in Job, IInv, FinishSucceeded(j)
  PROVE  IInv'
<1> USE DEF FinishSucceeded, FinishJob, Step
<1>1. TypeOK'
  BY DEF TypeOK
<1>2. ThreadAndRecord'
  BY DEF TypeOK, ThreadAndRecord, MapsAgree, HandlersHold
<1>3. MapsAgree'
  BY DEF TypeOK, ThreadAndRecord, MapsAgree, HandlersHold
<1>4. HandlersHold'
  BY DEF TypeOK, ThreadAndRecord, MapsAgree, HandlersHold
<1> QED
  BY <1>1, <1>2, <1>3, <1>4


\* Every step keeps the invariant.
LEMMA NextInv == IInv /\ [Next]_vars => IInv'
<1> SUFFICES ASSUME IInv, [Next]_vars PROVE IInv'
  OBVIOUS
<1>1. CASE ListenerLoop
  BY <1>1, CheckStopInv, AcceptNothingInv, AcceptErrorInv, AcceptInv DEF ListenerLoop
<1>2. CASE DropServer
  BY <1>2, DropServerInv
<1>3. ASSUME NEW c \in Conn, Handler(c) PROVE IInv'
  BY <1>3, ReplyOnlyInv, AllocateIdInv, InsertJobInv, SpawnJobInv, LookUpResultsInv,
     ReadResultsInv, CancelJobInv, RecordCancelledInv DEF Handler
<1>4. ASSUME NEW j \in Job, Worker(j) PROVE IInv'
  BY <1>4, MarkRunningInv, RunQcInv, CheckCancelledSetInv, CheckCancelledFlagInv,
     FinishCancelledInv, FinishFailedInv, SaveResultInv, FinishSucceededInv DEF Worker
<1>5. CASE UNCHANGED vars
  <2> USE <1>5 DEF vars
  <2>1. TypeOK'
    BY DEF TypeOK
  <2>2. ThreadAndRecord'
    BY DEF ThreadAndRecord
  <2>3. MapsAgree'
    BY DEF MapsAgree
  <2>4. HandlersHold'
    BY DEF HandlersHold
  <2> QED
    BY <2>1, <2>2, <2>3, <2>4
<1> QED
  BY <1>1, <1>2, <1>3, <1>4, <1>5 DEF Next

\* The inductive invariant holds of every reachable state.
THEOREM Invariance == Spec => []IInv
BY InitInv, NextInv, PTL DEF Spec

\* Every variable of the API keeps its type.
THEOREM TypeCorrect == Spec => []TypeOK
BY Invariance, PTL DEF IInv

\* job_results never answers 500: a status seen succeeded has its result stored.
THEOREM ResultIsNeverMissing == Spec => []NeverMissingResult
<1>1. IInv => NeverMissingResult
  BY DEF HandlersHold, NeverMissingResult
<1> QED
  BY <1>1, Invariance, PTL

\* A job cancelled while queued is never analysed.
THEOREM WithdrawnJobNeverRuns == Spec => []WithdrawnNeverRuns
<1>1. IInv => WithdrawnNeverRuns
  BY DEF MapsAgree, HandlersHold, WithdrawnNeverRuns, TypeOK
<1> QED
  BY <1>1, Invariance, PTL

\* Nothing stays in the results map that no client can read.
THEOREM NoResultIsOrphaned == Spec => []NoOrphanResult
<1>1. IInv => NoOrphanResult
  BY DEF ThreadAndRecord, MapsAgree, NoOrphanResult, TypeOK
<1> QED
  BY <1>1, Invariance, PTL

-----------------------------------------------------------------------------
\* Refinement of JobLifecycle.

\* No job is known to a client at the start.
LEMMA LifecycleInit == Init => Lifecycle!Init
BY DEF Init, Lifecycle!Init

\* Steps that no client can see.
LEMMA HiddenStep ==
  ASSUME UNCHANGED <<status, cancelRequested>>,
         {j \in results' : status'[j] = "succeeded"} = {j \in results : status[j] = "succeeded"}
  PROVE  UNCHANGED Lifecycle!vars
BY DEF Lifecycle!vars

\* Every step is one of the lifecycle, or changes nothing a client sees.
LEMMA LifecycleNext == IInv /\ IInv' /\ [Next]_vars => [Lifecycle!Next]_Lifecycle!vars
<1> SUFFICES ASSUME IInv, IInv', [Next]_vars
             PROVE  [Lifecycle!Next]_Lifecycle!vars
  OBVIOUS
<1> USE DEF Lifecycle!Next, Lifecycle!Move
<1> DEFINE readable == {j \in results : status[j] = "succeeded"}
<1>1. CASE ListenerLoop \/ DropServer \/ UNCHANGED vars
  BY <1>1, HiddenStep
     DEF ListenerLoop, CheckStop, Accept, AcceptNothing, AcceptError, DropServer, vars
<1>2. ASSUME NEW c \in Conn,
             \/ ReplyOnly(c) \/ AllocateId(c) \/ SpawnJob(c) \/ LookUpResults(c)
             \/ ReadResults(c) \/ RecordCancelled(c)
      PROVE  UNCHANGED Lifecycle!vars
  BY <1>2, HiddenStep
     DEF ReplyOnly, AllocateId, SpawnJob, LookUpResults, ReadResults, RecordCancelled
<1>3. ASSUME NEW c \in Conn, InsertJob(c)
      PROVE  Lifecycle!Submit(about[c])
  BY <1>3 DEF InsertJob, Lifecycle!Submit, HandlersHold, TypeOK, MapsAgree, ThreadAndRecord
<1>4. ASSUME NEW c \in Conn, NEW j \in Job, CancelJob(c), CancelQueued(c, j)
      PROVE  Lifecycle!Withdraw(j)
  BY <1>4 DEF CancelJob, CancelQueued, Lifecycle!Withdraw, TypeOK
<1>5. ASSUME NEW c \in Conn, NEW j \in Job, CancelJob(c), CancelRunning(c, j)
      PROVE  Lifecycle!Flag(j)
  BY <1>5 DEF CancelJob, CancelRunning, Lifecycle!Flag
<1>6. ASSUME NEW j \in Job, RunQc(j) \/ CheckCancelledSet(j) \/ CheckCancelledFlag(j)
      PROVE  UNCHANGED Lifecycle!vars
  BY <1>6, HiddenStep DEF RunQc, CheckCancelledSet, CheckCancelledFlag
<1>7. ASSUME NEW j \in Job, MarkRunning(j)
      PROVE  Lifecycle!Start(j) \/ UNCHANGED Lifecycle!vars
  <2>1. CASE status[j] = "queued"
    <3>1. status' = [status EXCEPT ![j] = "running"] /\ results' = results
      BY <1>7, <2>1 DEF MarkRunning
    <3>2. readable' = readable
      BY <2>1, <3>1 DEF TypeOK
    <3> QED
      BY <1>7, <2>1, <3>1, <3>2 DEF MarkRunning, Lifecycle!Start
  <2>2. CASE status[j] # "queued"
    BY <1>7, <2>2, HiddenStep DEF MarkRunning
  <2> QED
    BY <2>1, <2>2
<1>8. ASSUME NEW j \in Job, FinishCancelled(j)
      PROVE  Lifecycle!Stop(j)
  <2>1. status[j] = "running" /\ results' = results
    BY <1>8 DEF FinishCancelled, Step, ThreadAndRecord
  <2>2. status' = [status EXCEPT ![j] = "cancelled"] /\ cancelRequested' = cancelRequested \ {j}
    BY <1>8, <2>1 DEF FinishCancelled, FinishJob
  <2>3. readable' = readable
    BY <2>1, <2>2 DEF TypeOK
  <2> QED
    BY <1>8, <2>1, <2>2, <2>3 DEF FinishCancelled, Step, ThreadAndRecord, Lifecycle!Stop
<1>9. ASSUME NEW j \in Job, FinishFailed(j)
      PROVE  Lifecycle!Fail(j)
  <2>1. status[j] = "running" /\ results' = results
    BY <1>9 DEF FinishFailed, Step, ThreadAndRecord
  <2>2. status' = [status EXCEPT ![j] = "failed"] /\ cancelRequested' = cancelRequested \ {j}
    BY <1>9, <2>1 DEF FinishFailed, FinishJob
  <2>3. readable' = readable
    BY <2>1, <2>2 DEF TypeOK
  <2> QED
    BY <2>1, <2>2, <2>3 DEF Lifecycle!Fail
<1>10. ASSUME NEW j \in Job, SaveResult(j)
       PROVE  UNCHANGED Lifecycle!vars
  BY <1>10, HiddenStep DEF SaveResult, Step, TypeOK, ThreadAndRecord
<1>11. ASSUME NEW j \in Job, FinishSucceeded(j)
       PROVE  Lifecycle!Succeed(j)
  <2>1. status[j] = "running" /\ results' = results
    BY <1>11 DEF FinishSucceeded, Step, ThreadAndRecord
  <2>2. status' = [status EXCEPT ![j] = "succeeded"] /\ cancelRequested' = cancelRequested \ {j}
    BY <1>11, <2>1 DEF FinishSucceeded, FinishJob
  <2>3. readable' = readable \cup {j}
    BY <1>11, <2>1, <2>2 DEF TypeOK, FinishSucceeded, Step, MapsAgree
  <2> QED
    BY <2>1, <2>2, <2>3 DEF Lifecycle!Succeed
<1>12. ASSUME NEW c \in Conn, InsertJob(c) PROVE about[c] \in Job
  BY <1>12 DEF InsertJob, HandlersHold
<1>13. ASSUME NEW c \in Conn, CancelJob(c)
       PROVE  \E j \in Job : Lifecycle!Withdraw(j) \/ Lifecycle!Flag(j)
  BY <1>13, <1>4, <1>5 DEF CancelJob
<1>14. ASSUME NEW c \in Conn, Handler(c)
       PROVE  [Lifecycle!Next]_Lifecycle!vars
  BY <1>14, <1>2, <1>3, <1>12, <1>13 DEF Handler
<1>15. ASSUME NEW j \in Job, Worker(j)
       PROVE  [Lifecycle!Next]_Lifecycle!vars
  BY <1>15, <1>6, <1>7, <1>8, <1>9, <1>10, <1>11 DEF Worker
<1> QED
  BY <1>1, <1>14, <1>15, HiddenStep DEF Next

\* The API, with its threads, locks and three maps, implements the lifecycle a
\* client is promised: a terminal status is final, a result appears with
\* "succeeded", a started job is stopped only on request.
THEOREM ApiImplementsLifecycle == Spec => ImplementsLifecycle
BY LifecycleInit, LifecycleNext, Invariance, PTL
   DEF Spec, ImplementsLifecycle, Lifecycle!Spec
=============================================================================
