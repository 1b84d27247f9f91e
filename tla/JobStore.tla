------------------------------ MODULE JobStore ------------------------------
(***************************************************************************)
(* The job tables of the SQLite store                                      *)
(* (crates/tpt-app-media-qc-store/src/jobs.rs) under several connections   *)
(* to one database.  There are no transactions: every statement commits by *)
(* itself, other connections see what it left, and a statement that fails  *)
(* or a process that dies leaves what came before it.                      *)
(***************************************************************************)
EXTENDS Naturals, Sequences

CONSTANTS
  Store,         \* open connections
  Job,           \* job ids
  MaxFindings,   \* bound: findings of a run
  MaxRuns        \* bound: calls of complete_job

ASSUME BoundsAssumption == MaxFindings \in Nat /\ MaxRuns \in Nat

Run    == 1 .. MaxRuns
Status == {"absent", "queued", "running", "succeeded", "failed", "cancelled"}

\* A row of findings: the k-th finding of the run some complete_job call brought.
FindingRow == [job : Job, run : Run, k : 1 .. MaxFindings]

VARIABLES
  status,      \* jobs.status; "absent": no row (the error message is left out)
  report,      \* the run whose verdict and report_json the row holds (0: none)
  findings,    \* the findings table, by id
  metadata,    \* the run in the job's report_metadata row (0: none)
  call,        \* the complete_job call each connection is in
  size,        \* the number of findings of each run begun
  runOf,       \* history: the job of each run begun (<<>>: nobody)
  updated,     \* history: the runs whose complete_job found the row of their job
  returned     \* history: the runs whose complete_job returned Ok

rowVars == <<status, report>>
vars == <<rowVars, findings, metadata, call, size, runOf, updated, returned>>

\* at: the finding to insert next; size + 1 the metadata.
Idle == [run |-> 0, at |-> 0]

TypeOK ==
  /\ status \in [Job -> Status]
  /\ report \in [Job -> 0 .. MaxRuns]
  /\ findings \in Seq(FindingRow)
  /\ metadata \in [Job -> 0 .. MaxRuns]
  /\ call \in [Store -> [run : 0 .. MaxRuns, at : 0 .. MaxFindings + 1]]
  /\ size \in Seq(0 .. MaxFindings)
  /\ runOf \in Seq(Job)
  /\ Len(size) = Len(runOf) /\ Len(size) <= MaxRuns
  /\ updated \in SUBSET Run
  /\ returned \in SUBSET Run

Init ==
  /\ status = [j \in Job |-> "absent"]
  /\ report = [j \in Job |-> 0]
  /\ findings = <<>>
  /\ metadata = [j \in Job |-> 0]
  /\ call = [s \in Store |-> Idle]
  /\ size = <<>> /\ runOf = <<>>
  /\ updated = {}
  /\ returned = {}

Free == \E s \in Store : call[s] = Idle

UntouchedByRow == UNCHANGED <<findings, metadata, call, size, runOf, updated, returned>>

-----------------------------------------------------------------------------
(* Calls of one statement; a connection in complete_job makes none.  A     *)
(* call about an id nobody created changes nothing.                        *)

SetStatus(j, s) == status' = [status EXCEPT ![j] = s]

\* INSERT: a second job of that id is an error of the primary key.
CreateJob(j) ==
  /\ Free /\ status[j] = "absent"
  /\ SetStatus(j, "queued")
  /\ UNCHANGED report
  /\ UntouchedByRow

\* Whatever the status was.
StartJob(j) ==
  /\ Free /\ status[j] # "absent"
  /\ SetStatus(j, "running")
  /\ UNCHANGED report
  /\ UntouchedByRow

\* Whatever the status was; verdict and report of the row stay.
FailJob(j) ==
  /\ Free /\ status[j] # "absent"
  /\ SetStatus(j, "failed")
  /\ UNCHANGED report
  /\ UntouchedByRow

\* WHERE status IN ('queued', 'running'), in the statement that updates.
CancelJob(j) ==
  /\ Free /\ status[j] \in {"queued", "running"}
  /\ SetStatus(j, "cancelled")
  /\ UNCHANGED report
  /\ UntouchedByRow

-----------------------------------------------------------------------------
(* complete_job: the row, each finding, the metadata.                      *)

Brought(s) == call[s].run

\* Connection s begins the call that brings a run of n findings for job j.
Begin(s, j, n) ==
  /\ call[s] = Idle /\ Len(runOf) < MaxRuns
  /\ runOf' = Append(runOf, j) /\ size' = Append(size, n)
  /\ call' = [call EXCEPT ![s] = [run |-> Len(runOf) + 1, at |-> 1]]
  /\ updated' = IF status[j] = "absent" THEN updated ELSE updated \cup {Len(runOf) + 1}
  /\ UNCHANGED <<findings, metadata, returned>>

\* Variant of Complete: the verdict is kept if the row has one, or failed.
CompleteIfOpen(s, j, n) ==
  /\ Begin(s, j, n)
  /\ IF status[j] \notin {"queued", "running"} THEN UNCHANGED rowVars
     ELSE /\ SetStatus(j, "succeeded")
          /\ report' = [report EXCEPT ![j] = Len(runOf) + 1]

\* The row gets status, verdict and report in one statement, whatever the status
\* was.  If there is no row the statement updates none, and the call goes on.
Complete(s, j, n) ==
  /\ Begin(s, j, n)
  /\ IF status[j] = "absent" THEN UNCHANGED rowVars
     ELSE /\ SetStatus(j, "succeeded")
          /\ report' = [report EXCEPT ![j] = Len(runOf) + 1]

\* Variant of InsertFinding: the first one is counted as inserted.
InsertFindingFromSecond(s) ==
  /\ call[s] # Idle /\ call[s].at <= size[Brought(s)]
  /\ findings' = IF call[s].at = 1 THEN findings
                 ELSE Append(findings, [job |-> runOf[Brought(s)], run |-> Brought(s), k |-> call[s].at])
  /\ call' = [call EXCEPT ![s].at = @ + 1]
  /\ UNCHANGED <<rowVars, metadata, size, runOf, updated, returned>>

\* Variant of InsertFinding: one too many.
InsertFindingPastEnd(s) ==
  /\ call[s] # Idle /\ call[s].at <= size[Brought(s)] + 1
  /\ findings' = Append(findings, [job |-> runOf[Brought(s)], run |-> Brought(s), k |-> call[s].at])
  /\ call' = [call EXCEPT ![s].at = @ + 1]
  /\ UNCHANGED <<rowVars, metadata, size, runOf, updated, returned>>

InsertFinding(s) ==
  /\ call[s] # Idle /\ call[s].at <= size[Brought(s)]
  /\ findings' = Append(findings, [job |-> runOf[Brought(s)], run |-> Brought(s), k |-> call[s].at])
  /\ call' = [call EXCEPT ![s].at = @ + 1]
  /\ UNCHANGED <<rowVars, metadata, size, runOf, updated, returned>>

\* Variant of InsertMetadata: it does not wait for the findings.
InsertMetadataAnyTime(s) ==
  /\ call[s] # Idle
  /\ metadata' = [metadata EXCEPT ![runOf[Brought(s)]] = Brought(s)]
  /\ returned' = returned \cup {Brought(s)}
  /\ call' = [call EXCEPT ![s] = Idle]
  /\ UNCHANGED <<rowVars, findings, size, runOf, updated>>

\* INSERT ... ON CONFLICT DO UPDATE, and the return.
InsertMetadata(s) ==
  /\ call[s] # Idle /\ call[s].at = size[Brought(s)] + 1
  /\ metadata' = [metadata EXCEPT ![runOf[Brought(s)]] = Brought(s)]
  /\ returned' = returned \cup {Brought(s)}
  /\ call' = [call EXCEPT ![s] = Idle]
  /\ UNCHANGED <<rowVars, findings, size, runOf, updated>>

\* The next statement fails (busy, disk full), or the process dies.
Abandon(s) ==
  /\ call[s] # Idle
  /\ call' = [call EXCEPT ![s] = Idle]
  /\ UNCHANGED <<rowVars, findings, metadata, size, runOf, updated, returned>>

-----------------------------------------------------------------------------
\* The rows of a table that are about job j, in the order of their ids.
RowsAbout(table, j) ==
  LET upTo[n \in 0 .. Len(table)] ==
        IF n = 0 THEN <<>>
        ELSE IF table[n].job = j THEN Append(upTo[n - 1], table[n])
        ELSE upTo[n - 1]
  IN  upTo[Len(table)]

\* SELECT ... FROM findings WHERE job_id = ?1 ORDER BY id
FindingsForJob(j) == RowsAbout(findings, j)

CompleteJob(s) ==
  \/ \E j \in Job, n \in 0 .. MaxFindings : Complete(s, j, n)
  \/ InsertFinding(s) \/ InsertMetadata(s) \/ Abandon(s)

Next ==
  \/ \E j \in Job : CreateJob(j) \/ StartJob(j) \/ FailJob(j) \/ CancelJob(j)
  \/ \E s \in Store : CompleteJob(s)

Spec == Init /\ [][Next]_vars

-----------------------------------------------------------------------------
(* Properties.                                                             *)

\* Findings whose complete_job met the row of their job never stand in the table
\* without a verdict and a report in that row, whatever was interrupted, failed,
\* cancelled or called out of order since: the row is written first and nothing takes
\* a report back.
FindingsHaveVerdict ==
  \A i \in DOMAIN findings :
    findings[i].run \in updated => report[findings[i].job] # 0

\* The metadata row is the mark of a completed report: if it names a run, every
\* finding of that run is in the table.
MetadataMeansComplete ==
  \A j \in Job : metadata[j] # 0 =>
    \A k \in 1 .. size[metadata[j]] :
      \E i \in DOMAIN findings : findings[i] = [job |-> j, run |-> metadata[j], k |-> k]

\* If complete_job was called once for a job and returned Ok, findings_for_job gives
\* exactly the findings of that run, in order, the metadata names it, and so does the
\* row, had it been created: whatever other connections did to other jobs or to the
\* status of this one.
OneCompletionIsExact ==
  \A r \in returned :
    LET j == runOf[r] IN
    (\A q \in DOMAIN runOf : runOf[q] = j => q = r) =>
      /\ FindingsForJob(j) = [k \in 1 .. size[r] |-> [job |-> j, run |-> r, k |-> k]]
      /\ metadata[j] = r
      /\ r \in updated => report[j] = r
=============================================================================
