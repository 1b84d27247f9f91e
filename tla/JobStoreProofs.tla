-------------------------- MODULE JobStoreProofs ----------------------------
(***************************************************************************)
(* Theorems about JobStore, for any number of connections, jobs, findings  *)
(* and calls.  The inductive invariant says what a connection in           *)
(* complete_job may rely on while others write (CallsHold), what became of *)
(* the rows it wrote (UpdatedHolds, FindingsOwned), and what the metadata  *)
(* row vouches for (MetadataHolds).                                        *)
(***************************************************************************)
EXTENDS JobStore, WellFoundedInduction, TLAPS

\* Finding k of run r is in the table f, for job j.
Stored(f, j, r, k) == \E i \in DOMAIN f : f[i] = [job |-> j, run |-> r, k |-> k]

\* The row of a run that met it has held a report ever since.
UpdatedHolds ==
  \A r \in updated : r \in 1 .. Len(runOf) /\ report[runOf[r]] # 0

\* A finding belongs to the job of its run.
FindingsOwned ==
  \A i \in DOMAIN findings :
    findings[i].run \in 1 .. Len(runOf) /\ findings[i].job = runOf[findings[i].run]

\* A call in progress has stored the findings before at.
CallsHold ==
  \A s \in Store : call[s] # Idle =>
    /\ call[s].run \in 1 .. Len(runOf)
    /\ call[s].at \in 1 .. size[call[s].run] + 1
    /\ \A k \in 1 .. call[s].at - 1 : Stored(findings, runOf[call[s].run], call[s].run, k)

\* A metadata row names a run of its own job, all of it stored.
MetadataHolds ==
  \A j \in Job : metadata[j] # 0 =>
    /\ metadata[j] \in 1 .. Len(runOf)
    /\ runOf[metadata[j]] = j
    /\ \A k \in 1 .. size[metadata[j]] : Stored(findings, j, metadata[j], k)

IInv == TypeOK /\ UpdatedHolds /\ FindingsOwned /\ CallsHold /\ MetadataHolds

\* A row is found at every id of the table, and an appended one at the next.
LEMMA RowsOfTable ==
  ASSUME findings \in Seq(FindingRow)
  PROVE  /\ DOMAIN findings = 1 .. Len(findings) /\ Len(findings) \in Nat
         /\ \A i \in DOMAIN findings : findings[i] \in FindingRow
         /\ \A row \in FindingRow : Append(findings, row) \in Seq(FindingRow)
         /\ \A row \in FindingRow : \A i \in DOMAIN Append(findings, row) :
              \/ i \in DOMAIN findings /\ Append(findings, row)[i] = findings[i]
              \/ Append(findings, row)[i] = row
OBVIOUS

-----------------------------------------------------------------------------
(* findings_for_job reads the rows in the order of their ids.  What the    *)
(* recursive function computes follows from the smallest number for which  *)
(* it could fail.                                                          *)

\* A set of numbers that is not empty has a least one.
LEMMA LeastNumber ==
  ASSUME NEW S \in SUBSET Nat, S # {}
  PROVE  \E n \in S : \A m \in S : n <= m
<1> DEFINE Less == {x \in Nat \X Nat : x[1] < x[2]}
<1>1. IsWellFoundedOn(Less, Nat)
  BY NatLessThanWellFounded DEF OpToRel
<1>2. PICK n \in S : \A m \in S : ~ (<<m, n>> \in Less)
  <2> HIDE DEF Less
  <2> QED
    BY <1>1, WFMin
<1>3. ASSUME NEW m \in S PROVE n <= m
  <2>1. m < n => <<m, n>> \in Less
    OBVIOUS
  <2> QED
    BY <1>2, <2>1
<1> QED
  BY <1>3

\* One row is read; g is what was read up to each row of the first n.
ReadRow(g, q, j, i) ==
  IF i = 0 THEN <<>> ELSE IF q[i].job = j THEN Append(g[i - 1], q[i]) ELSE g[i - 1]

Reads(g, q, j, n) == g = [i \in 0 .. n |-> ReadRow(g, q, j, i)]

\* There is such a g.
LEMMA SomethingReads ==
  ASSUME NEW q, NEW j, NEW n \in Nat
  PROVE  \E g : Reads(g, q, j, n)
<1> DEFINE bad == {m \in Nat : ~ \E g : Reads(g, q, j, m)}
<1> SUFFICES ASSUME bad # {} PROVE FALSE
  OBVIOUS
<1>1. PICK m \in bad : \A k \in bad : m <= k
  BY LeastNumber
<1>2. CASE m = 0
  <2> DEFINE g == [i \in 0 .. 0 |-> <<>>]
  <2>1. Reads(g, q, j, 0)
    BY DEF Reads, ReadRow
  <2> QED
    BY <1>2, <2>1
<1>3. CASE m # 0
  <2>1. m \in Nat /\ m - 1 \in Nat /\ m - 1 \notin bad
    BY <1>1, <1>3
  <2>2. PICK h : Reads(h, q, j, m - 1)
    BY <2>1
  <2> DEFINE g == [i \in 0 .. m |-> IF i = m THEN ReadRow(h, q, j, m) ELSE h[i]]
  <2>3. \A i \in 0 .. m - 1 : h[i] = ReadRow(h, q, j, i)
    BY <2>2 DEF Reads
  <2>4. \A i \in 0 .. m - 1 : g[i] = h[i]
    BY <2>1
  <2>5. ASSUME NEW i \in 0 .. m PROVE g[i] = ReadRow(g, q, j, i)
    <3>1. ReadRow(g, q, j, i) = ReadRow(h, q, j, i)
      <4>1. CASE i = 0
        BY <4>1 DEF ReadRow
      <4>2. CASE i # 0
        <5>1. g[i - 1] = h[i - 1]
          BY <2>1, <2>4, <4>2
        <5> HIDE DEF g
        <5> QED
          BY <4>2, <5>1 DEF ReadRow
      <4> QED
        BY <4>1, <4>2
    <3>2. CASE i = m
      BY <2>1, <3>1, <3>2
    <3>3. CASE i # m
      <4>1. i \in 0 .. m - 1
        BY <2>1, <3>3
      <4> QED
        BY <2>3, <2>4, <3>1, <4>1
    <3> QED
      BY <3>2, <3>3
  <2>6. Reads(g, q, j, m)
    <3>1. g = [i \in 0 .. m |-> g[i]]
      OBVIOUS
    <3> HIDE DEF g
    <3> QED
      BY <2>5, <3>1 DEF Reads
  <2> QED
    BY <1>1, <2>6
<1> QED
  BY <1>2, <1>3

\* It is determined by the rows.
LEMMA ReadsAlike ==
  ASSUME NEW q, NEW p, NEW j, NEW n \in Nat, NEW m \in Nat, n <= m,
         \A i \in 1 .. n : q[i] = p[i],
         NEW g, Reads(g, q, j, n), NEW h, Reads(h, p, j, m)
  PROVE  \A i \in 0 .. n : g[i] = h[i]
<1> DEFINE bad == {i \in 0 .. n : g[i] # h[i]}
<1> SUFFICES ASSUME bad # {} PROVE FALSE
  OBVIOUS
<1>1. bad \in SUBSET Nat
  OBVIOUS
<1>2. PICK i \in bad : \A k \in bad : i <= k
  <2> HIDE DEF bad
  <2> QED
    BY <1>1, LeastNumber
<1>3. i \in 0 .. n /\ i \in 0 .. m /\ g[i] # h[i]
  BY <1>2
<1>4. g[i] = ReadRow(g, q, j, i) /\ h[i] = ReadRow(h, p, j, i)
  BY <1>3 DEF Reads
<1>5. CASE i = 0
  BY <1>3, <1>4, <1>5 DEF ReadRow
<1>6. CASE i # 0
  <2>1. i - 1 \in 0 .. n /\ i - 1 \notin bad /\ i \in 1 .. n
    BY <1>2, <1>3, <1>6
  <2>2. g[i - 1] = h[i - 1] /\ q[i] = p[i]
    BY <2>1
  <2> QED
    BY <1>3, <1>4, <1>6, <2>2 DEF ReadRow
<1> QED
  BY <1>5, <1>6

\* What the query returns.
LEMMA RowsAboutReads ==
  ASSUME NEW q \in Seq(FindingRow), NEW j, NEW g, Reads(g, q, j, Len(q))
  PROVE  RowsAbout(q, j) = g[Len(q)]
<1> DEFINE h == CHOOSE f : Reads(f, q, j, Len(q))
<1>1. Len(q) \in Nat
  OBVIOUS
<1>2. RowsAbout(q, j) = h[Len(q)]
  BY DEF RowsAbout, Reads, ReadRow
<1>3. Reads(h, q, j, Len(q))
  OBVIOUS
<1> HIDE DEF h
<1>4. \A i \in 0 .. Len(q) : g[i] = h[i]
  BY <1>1, <1>3, ReadsAlike
<1> QED
  BY <1>1, <1>2, <1>4

\* A row that is appended is returned last, if it is about the job.
LEMMA RowsAboutAppend ==
  ASSUME NEW q \in Seq(FindingRow), NEW row \in FindingRow, NEW j
  PROVE  RowsAbout(Append(q, row), j) =
           IF row.job = j THEN Append(RowsAbout(q, j), row) ELSE RowsAbout(q, j)
<1> DEFINE p == Append(q, row)
           n == Len(q)
           m == Len(q) + 1
<1>1. /\ n \in Nat /\ m \in Nat /\ n <= m /\ m # 0 /\ m - 1 = n /\ m \in 0 .. m
      /\ p \in Seq(FindingRow) /\ Len(p) = m
      /\ p[m] = row /\ \A i \in 1 .. n : q[i] = p[i]
  OBVIOUS
<1> HIDE DEF p, n, m
<1>2. PICK g : Reads(g, q, j, n)
  BY <1>1, SomethingReads
<1>3. PICK h : Reads(h, p, j, m)
  BY <1>1, SomethingReads
<1>4. RowsAbout(q, j) = g[n]
  BY <1>2, RowsAboutReads DEF n
<1>5. RowsAbout(p, j) = h[m]
  BY <1>1, <1>3, RowsAboutReads
<1>6. \A i \in 0 .. n : g[i] = h[i]
  BY <1>1, <1>2, <1>3, ReadsAlike
<1>7. h[m] = ReadRow(h, p, j, m)
  BY <1>1, <1>3 DEF Reads
<1>8. ReadRow(h, p, j, m) = IF row.job = j THEN Append(h[n], row) ELSE h[n]
  BY <1>1 DEF ReadRow
<1> QED
  BY <1>1, <1>4, <1>5, <1>6, <1>7, <1>8 DEF p

\* Nothing is read from an empty table.
LEMMA RowsAboutNothing ==
  ASSUME NEW j
  PROVE  RowsAbout(<<>>, j) = <<>>
<1>1. PICK g : Reads(g, <<>>, j, 0)
  BY SomethingReads
<1>2. <<>> \in Seq(FindingRow) /\ Len(<<>>) = 0
  OBVIOUS
<1>3. RowsAbout(<<>>, j) = g[0]
  BY <1>1, <1>2, RowsAboutReads
<1>4. g[0] = <<>>
  BY <1>1 DEF Reads, ReadRow
<1> QED
  BY <1>3, <1>4

-----------------------------------------------------------------------------
(* The steps.                                                              *)

USE BoundsAssumption DEF Run, Status, FindingRow, Idle, IInv, rowVars, Brought, SetStatus

\* The tables are empty.
LEMMA InitInv == Init => IInv
BY DEF Init, TypeOK, UpdatedHolds, FindingsOwned, CallsHold, MetadataHolds

\* What is stored stays stored when a row is appended, and the row is stored.
LEMMA AppendStores ==
  ASSUME NEW row, findings \in Seq(FindingRow), row \in FindingRow,
         findings' = Append(findings, row)
  PROVE  /\ \A j, r, k : Stored(findings, j, r, k) => Stored(findings', j, r, k)
         /\ \A j, r, k : row = [job |-> j, run |-> r, k |-> k] => Stored(findings', j, r, k)
<1>1. DOMAIN findings' = 1 .. Len(findings) + 1 /\ DOMAIN findings = 1 .. Len(findings)
  OBVIOUS
<1>2. \A i \in DOMAIN findings : findings'[i] = findings[i]
  OBVIOUS
<1>3. findings'[Len(findings) + 1] = row /\ Len(findings) \in Nat
  OBVIOUS
<1>4. DOMAIN findings \subseteq DOMAIN findings' /\ Len(findings) + 1 \in DOMAIN findings'
  BY <1>1, <1>3
<1> QED
  BY <1>2, <1>3, <1>4, Zenon DEF Stored

\* A call of one statement on a row that exists, or the first one of a job, keeps
\* the invariant: none takes a report back.
LEMMA RowInv ==
  ASSUME IInv, NEW j \in Job, CreateJob(j) \/ StartJob(j) \/ FailJob(j) \/ CancelJob(j)
  PROVE  IInv'
<1>1. UNCHANGED <<report, findings, metadata, call, size, runOf, updated, returned>>
  BY DEF CreateJob, StartJob, FailJob, CancelJob, UntouchedByRow
<1>2. status' \in [Job -> Status]
  BY DEF CreateJob, StartJob, FailJob, CancelJob, TypeOK
<1>3. TypeOK'
  BY <1>1, <1>2 DEF TypeOK
<1>4. UpdatedHolds' /\ FindingsOwned' /\ CallsHold' /\ MetadataHolds'
  BY <1>1 DEF UpdatedHolds, FindingsOwned, CallsHold, MetadataHolds, Stored
<1> QED
  BY <1>3, <1>4

\* The first statement of complete_job: a fresh run, nothing stored yet.
LEMMA CompleteInv ==
  ASSUME IInv, NEW s \in Store, NEW j \in Job, NEW n \in 0 .. MaxFindings, Complete(s, j, n)
  PROVE  IInv'
<1> USE DEF Complete, Begin
<1> DEFINE r == Len(runOf) + 1
<1>1. /\ Len(runOf) \in Nat /\ r \in 1 .. MaxRuns /\ Len(size) = Len(runOf)
      /\ Len(runOf') = r /\ Len(size') = r
      /\ runOf' \in Seq(Job) /\ size' \in Seq(0 .. MaxFindings)
  BY DEF TypeOK
<1>2. \A q \in 1 .. Len(runOf) : runOf'[q] = runOf[q] /\ size'[q] = size[q]
  BY DEF TypeOK
<1>3. runOf'[r] = j /\ size'[r] = n
  BY <1>1 DEF TypeOK
<1>4. \A i \in Job : report[i] # 0 => report'[i] # 0
  BY <1>1 DEF TypeOK
<1>5. status[j] # "absent" => report'[j] # 0
  BY <1>1 DEF TypeOK
<1>6. TypeOK'
  <2>1. status' \in [Job -> Status] /\ report' \in [Job -> 0 .. MaxRuns]
    <3>1. status \in [Job -> Status] /\ report \in [Job -> 0 .. MaxRuns] /\ r \in 0 .. MaxRuns
      BY <1>1 DEF TypeOK
    <3>2. CASE status[j] = "absent"
      BY <3>1, <3>2
    <3>3. CASE status[j] # "absent"
      BY <3>1, <3>3
    <3> QED
      BY <3>2, <3>3
  <2>2. updated' \in SUBSET Run /\ returned' \in SUBSET Run
    BY <1>1 DEF TypeOK
  <2>3. call' \in [Store -> [run : 0 .. MaxRuns, at : 0 .. MaxFindings + 1]]
    BY <1>1 DEF TypeOK
  <2> QED
    BY <1>1, <2>1, <2>2, <2>3 DEF TypeOK
<1>7. UpdatedHolds' /\ FindingsOwned'
  <2>1. ASSUME NEW q \in updated' PROVE q \in 1 .. Len(runOf') /\ report'[runOf'[q]] # 0
    <3>1. CASE q \in updated
      <4>1. q \in 1 .. Len(runOf) /\ report[runOf[q]] # 0
        BY <3>1 DEF UpdatedHolds
      <4>2. runOf[q] \in Job
        BY <4>1 DEF TypeOK
      <4> QED
        BY <4>1, <4>2, <1>1, <1>2, <1>4
    <3>2. CASE q = r /\ status[j] # "absent"
      BY <3>2, <1>1, <1>3, <1>5
    <3> QED
      BY <3>1, <3>2
  <2>2. FindingsOwned'
    BY <1>1, <1>2 DEF FindingsOwned
  <2> QED
    BY <2>1, <2>2 DEF UpdatedHolds
<1>8. CallsHold'
  <2> SUFFICES ASSUME NEW t \in Store, call'[t] # Idle
               PROVE  /\ call'[t].run \in 1 .. Len(runOf')
                      /\ call'[t].at \in 1 .. size'[call'[t].run] + 1
                      /\ \A k \in 1 .. call'[t].at - 1 : Stored(findings', runOf'[call'[t].run], call'[t].run, k)
    BY DEF CallsHold
  <2>1. CASE t = s
    <3>1. call'[t] = [run |-> r, at |-> 1]
      BY <2>1 DEF TypeOK
    <3>2. 1 .. call'[t].at - 1 = {} /\ n \in Nat
      BY <3>1
    <3> QED
      BY <3>1, <3>2, <1>1, <1>3
  <2>2. CASE t # s
    <3>1. call'[t] = call[t] /\ findings' = findings
      BY <2>2 DEF TypeOK
    <3>2. call[t].run \in 1 .. Len(runOf) /\ runOf[call[t].run] \in Job
      BY <3>1 DEF CallsHold, TypeOK
    <3>3. runOf'[call[t].run] = runOf[call[t].run] /\ size'[call[t].run] = size[call[t].run]
      BY <3>2, <1>2
    <3> QED
      BY <3>1, <3>2, <3>3, <1>1 DEF CallsHold, Stored
  <2> QED
    BY <2>1, <2>2
<1>9. MetadataHolds'
  <2> SUFFICES ASSUME NEW i \in Job, metadata[i] # 0
               PROVE  /\ metadata[i] \in 1 .. Len(runOf')
                      /\ runOf'[metadata[i]] = i
                      /\ \A k \in 1 .. size'[metadata[i]] : Stored(findings, i, metadata[i], k)
    BY DEF MetadataHolds
  <2>1. metadata[i] \in 1 .. Len(runOf)
    BY DEF MetadataHolds
  <2> QED
    BY <2>1, <1>1, <1>2 DEF MetadataHolds
<1> QED
  BY <1>6, <1>7, <1>8, <1>9

\* The next finding is stored, for the job of the run.
LEMMA InsertFindingInv ==
  ASSUME IInv, NEW s \in Store, InsertFinding(s)
  PROVE  IInv'
<1> USE DEF InsertFinding
<1> DEFINE r == call[s].run
           j == runOf[r]
           row == [job |-> j, run |-> r, k |-> call[s].at]
<1>1. /\ r \in 1 .. Len(runOf) /\ j \in Job /\ size[r] \in 0 .. MaxFindings
      /\ call[s].at \in 1 .. size[r] /\ Len(runOf) <= MaxRuns
      /\ Len(runOf) \in Nat
  <2>1. r \in 1 .. Len(runOf) /\ call[s].at \in 1 .. size[r] + 1 /\ call[s].at <= size[r]
    BY DEF CallsHold
  <2>2. Len(runOf) <= MaxRuns /\ Len(runOf) \in Nat /\ size[r] \in 0 .. MaxFindings /\ j \in Job
    <3>1. /\ runOf \in Seq(Job) /\ size \in Seq(0 .. MaxFindings)
          /\ Len(size) = Len(runOf) /\ Len(size) <= MaxRuns
      BY DEF TypeOK
    <3> HIDE DEF r
    <3> QED
      BY <2>1, <3>1
  <2> QED
    BY <2>1, <2>2
<1>2. row \in FindingRow /\ findings' = Append(findings, row)
  BY <1>1
<1>3. TypeOK'
  <2>1. findings' \in Seq(FindingRow)
    BY <1>2, RowsOfTable DEF TypeOK
  <2>2. call[s].at + 1 \in 0 .. MaxFindings + 1
    BY <1>1
  <2>3. call[s] \in [run : 0 .. MaxRuns, at : 0 .. MaxFindings + 1]
    BY DEF TypeOK
  <2>4. [call[s] EXCEPT !.at = @ + 1] \in [run : 0 .. MaxRuns, at : 0 .. MaxFindings + 1]
    BY <2>2, <2>3
  <2>5. call' \in [Store -> [run : 0 .. MaxRuns, at : 0 .. MaxFindings + 1]]
    BY <2>4 DEF TypeOK
  <2> QED
    BY <2>1, <2>5 DEF TypeOK
<1>4. /\ \A i, q, k : Stored(findings, i, q, k) => Stored(findings', i, q, k)
      /\ Stored(findings', j, r, call[s].at)
  <2> HIDE DEF InsertFinding
  <2>1. findings \in Seq(FindingRow)
    BY DEF TypeOK
  <2> QED
    BY <1>2, <2>1, AppendStores
<1>5. UpdatedHolds' /\ FindingsOwned'
  <2> SUFFICES ASSUME NEW i \in DOMAIN findings'
               PROVE  /\ findings'[i].run \in 1 .. Len(runOf)
                      /\ findings'[i].job = runOf[findings'[i].run]
    BY DEF UpdatedHolds, FindingsOwned
  <2>1. findings \in Seq(FindingRow)
    BY DEF TypeOK
  <2>2. CASE i \in DOMAIN findings /\ findings'[i] = findings[i]
    BY <2>2 DEF FindingsOwned
  <2>3. CASE findings'[i] = row
    BY <2>3, <1>1
  <2> QED
    BY <2>1, <2>2, <2>3, <1>2, RowsOfTable
<1>6. CallsHold'
  <2> SUFFICES ASSUME NEW t \in Store, call'[t] # Idle
               PROVE  /\ call'[t].run \in 1 .. Len(runOf)
                      /\ call'[t].at \in 1 .. size[call'[t].run] + 1
                      /\ \A k \in 1 .. call'[t].at - 1 : Stored(findings', runOf[call'[t].run], call'[t].run, k)
    BY DEF CallsHold
  <2>1. CASE t = s
    <3>1. call'[t].run = r /\ call'[t].at = call[s].at + 1
      BY <2>1 DEF TypeOK
    <3>2. \A k \in 1 .. call[s].at - 1 : Stored(findings, j, r, k)
      BY DEF CallsHold
    <3>3. \A k \in 1 .. call'[t].at - 1 : k = call[s].at \/ k \in 1 .. call[s].at - 1
      BY <3>1, <1>1
    <3>4. \A k \in 1 .. call'[t].at - 1 : Stored(findings', j, r, k)
      BY <3>2, <3>3, <1>4
    <3>5. call'[t].at \in 1 .. size[r] + 1
      BY <3>1, <1>1
    <3> QED
      BY <3>1, <3>4, <3>5, <1>1
  <2>2. CASE t # s
    <3>1. call'[t] = call[t]
      BY <2>2 DEF TypeOK
    <3> QED
      BY <3>1, <1>4 DEF CallsHold
  <2> QED
    BY <2>1, <2>2
<1>7. MetadataHolds'
  BY <1>4 DEF MetadataHolds
<1> QED
  BY <1>3, <1>5, <1>6, <1>7

\* The metadata is written by a call that has stored everything.
LEMMA InsertMetadataInv ==
  ASSUME IInv, NEW s \in Store, InsertMetadata(s)
  PROVE  IInv'
<1> USE DEF InsertMetadata
<1> DEFINE r == call[s].run
           j == runOf[r]
<1>1. /\ r \in 1 .. Len(runOf) /\ j \in Job /\ Len(runOf) <= MaxRuns /\ Len(runOf) \in Nat
      /\ \A k \in 1 .. size[r] : Stored(findings, j, r, k)
  <2>1. /\ r \in 1 .. Len(runOf)
        /\ \A k \in 1 .. call[s].at - 1 : Stored(findings, j, r, k)
    BY DEF CallsHold
  <2>2. /\ size[r] \in 0 .. MaxFindings /\ j \in Job
        /\ Len(runOf) <= MaxRuns /\ Len(runOf) \in Nat
    BY <2>1 DEF TypeOK
  <2>3. call[s].at - 1 = size[r]
    BY <2>2
  <2> QED
    BY <2>1, <2>2, <2>3
<1>2. TypeOK'
  <2>1. r \in 1 .. MaxRuns
    BY <1>1
  <2>2. metadata' \in [Job -> 0 .. MaxRuns] /\ returned' \in SUBSET Run
    BY <1>1, <2>1 DEF TypeOK
  <2>3. call' \in [Store -> [run : 0 .. MaxRuns, at : 0 .. MaxFindings + 1]]
    BY DEF TypeOK
  <2> QED
    BY <2>2, <2>3 DEF TypeOK
<1>3. UpdatedHolds' /\ FindingsOwned'
  BY DEF UpdatedHolds, FindingsOwned
<1>4. CallsHold'
  <2>1. \A t \in Store : call'[t] # Idle => call'[t] = call[t]
    BY DEF TypeOK
  <2> QED
    BY <2>1 DEF CallsHold, Stored
<1>5. MetadataHolds'
  <2> SUFFICES ASSUME NEW i \in Job, metadata'[i] # 0
               PROVE  /\ metadata'[i] \in 1 .. Len(runOf)
                      /\ runOf[metadata'[i]] = i
                      /\ \A k \in 1 .. size[metadata'[i]] : Stored(findings, i, metadata'[i], k)
    BY DEF MetadataHolds
  <2>1. CASE i = j
    BY <2>1, <1>1 DEF TypeOK
  <2>2. CASE i # j
    BY <2>2, <1>1 DEF TypeOK, MetadataHolds
  <2> QED
    BY <2>1, <2>2
<1> QED
  BY <1>2, <1>3, <1>4, <1>5

\* A call that is given up leaves the tables as they are.
LEMMA AbandonInv ==
  ASSUME IInv, NEW s \in Store, Abandon(s)
  PROVE  IInv'
<1> USE DEF Abandon
<1>1. TypeOK'
  BY DEF TypeOK
<1>2. UpdatedHolds' /\ FindingsOwned' /\ MetadataHolds'
  BY DEF UpdatedHolds, FindingsOwned, MetadataHolds, Stored
<1>3. CallsHold'
  <2>1. \A t \in Store : call'[t] # Idle => call'[t] = call[t]
    BY DEF TypeOK
  <2> QED
    BY <2>1 DEF CallsHold, Stored
<1> QED
  BY <1>1, <1>2, <1>3

\* Every step keeps the invariant.
LEMMA NextInv == IInv /\ [Next]_vars => IInv'
<1> SUFFICES ASSUME IInv, [Next]_vars PROVE IInv'
  OBVIOUS
<1>1. ASSUME NEW j \in Job, CreateJob(j) \/ StartJob(j) \/ FailJob(j) \/ CancelJob(j)
      PROVE  IInv'
  BY <1>1, RowInv
<1>2. ASSUME NEW s \in Store, CompleteJob(s) PROVE IInv'
  BY <1>2, CompleteInv, InsertFindingInv, InsertMetadataInv, AbandonInv DEF CompleteJob
<1>3. CASE UNCHANGED vars
  BY <1>3 DEF vars, TypeOK, UpdatedHolds, FindingsOwned, CallsHold, MetadataHolds, Stored
<1> QED
  BY <1>1, <1>2, <1>3 DEF Next

\* The inductive invariant holds of every reachable state.
THEOREM Invariance == Spec => []IInv
BY InitInv, NextInv, PTL DEF Spec

\* The tables have their types, for any number of connections, jobs and runs.
THEOREM TypeCorrect == Spec => []TypeOK
BY Invariance, PTL

\* complete_job writes the row first: findings never stand without a verdict, if
\* the job had been created.
THEOREM VerdictComesFirst == Spec => []FindingsHaveVerdict
<1>1. IInv => FindingsHaveVerdict
  BY DEF UpdatedHolds, FindingsOwned, FindingsHaveVerdict
<1> QED
  BY <1>1, Invariance, PTL

\* complete_job writes the metadata last: a metadata row vouches for all findings.
THEOREM MetadataComesLast == Spec => []MetadataMeansComplete
<1>1. IInv => MetadataMeansComplete
  BY DEF MetadataHolds, MetadataMeansComplete, Stored
<1> QED
  BY <1>1, Invariance, PTL

-----------------------------------------------------------------------------
(* One completion.                                                         *)

\* No other run was begun for the job of r; owner is the job of each run.
Sole(owner, r) == \A q \in DOMAIN owner : owner[q] = owner[r] => q = r

\* The first n findings of run r, as rows about job j.
RowsOf(j, r, n) == [k \in 1 .. n |-> [job |-> j, run |-> r, k |-> k]]

\* A run is in the hands of one connection, which has not returned.
OneCaller ==
  /\ \A s, t \in Store : call[s] # Idle /\ call[t] # Idle /\ call[s].run = call[t].run => s = t
  /\ \A s \in Store : call[s] # Idle => call[s].run \notin returned
  /\ \A r \in returned : r \in DOMAIN runOf

\* A job nobody has completed has no findings.
NoneYet == \A j \in Job : (\A q \in DOMAIN runOf : runOf[q] # j) => RowsAbout(findings, j) = <<>>

\* What findings_for_job gives for a job whose only run is in progress, and what
\* the row says.
InProgress ==
  \A s \in Store : call[s] # Idle /\ Sole(runOf, call[s].run) =>
    /\ RowsAbout(findings, runOf[call[s].run]) =
         RowsOf(runOf[call[s].run], call[s].run, call[s].at - 1)
    /\ call[s].run \in updated => report[runOf[call[s].run]] = call[s].run

\* And for one whose only run has returned.
Done ==
  \A r \in returned : Sole(runOf, r) =>
    /\ RowsAbout(findings, runOf[r]) = RowsOf(runOf[r], r, size[r])
    /\ metadata[runOf[r]] = r
    /\ r \in updated => report[runOf[r]] = r

Exact == OneCaller /\ NoneYet /\ InProgress /\ Done

\* The tables are empty.
LEMMA InitExact == Init => Exact
<1> SUFFICES ASSUME Init PROVE Exact
  OBVIOUS
<1>1. OneCaller /\ InProgress /\ Done
  BY DEF Init, OneCaller, InProgress, Done
<1>2. NoneYet
  BY RowsAboutNothing DEF Init, NoneYet
<1> QED
  BY <1>1, <1>2 DEF Exact

\* A step about the row of a job leaves verdict, report and findings.
LEMMA RowExact ==
  ASSUME Exact, UNCHANGED <<report, findings, metadata, call, size, runOf, updated, returned>>
  PROVE  Exact'
BY DEF Exact, OneCaller, NoneYet, InProgress, Done, Sole

\* A fresh run: that of a job with others is not the only one, that of a job without
\* finds no findings.
LEMMA CompleteExact ==
  ASSUME TypeOK, CallsHold, UpdatedHolds, Exact,
         NEW s \in Store, NEW j \in Job, NEW n \in 0 .. MaxFindings, Complete(s, j, n)
  PROVE  Exact'
<1> DEFINE r == Len(runOf) + 1
<1>1. /\ Len(runOf) \in Nat /\ DOMAIN runOf = 1 .. Len(runOf)
      /\ DOMAIN size = 1 .. Len(runOf) /\ DOMAIN runOf' = 1 .. r
      /\ runOf'[r] = j /\ \A q \in DOMAIN runOf : runOf'[q] = runOf[q] /\ size'[q] = size[q]
  BY DEF TypeOK, Complete, Begin
<1>2. \A q \in DOMAIN runOf : q \in DOMAIN runOf' /\ q # r /\ runOf[q] \in Job
  BY <1>1 DEF TypeOK
<1>3. /\ call[s] = Idle /\ UNCHANGED <<findings, metadata, returned>>
      /\ call' = [call EXCEPT ![s] = [run |-> r, at |-> 1]]
      /\ updated' = IF status[j] = "absent" THEN updated ELSE updated \cup {r}
      /\ IF status[j] = "absent" THEN report' = report ELSE report' = [report EXCEPT ![j] = r]
  BY DEF Complete, Begin
<1>4. /\ call'[s] = [run |-> r, at |-> 1]
      /\ \A t \in Store : t # s => call'[t] = call[t]
  BY <1>3 DEF TypeOK
<1>5. \A t \in Store : call[t] # Idle => call[t].run \in DOMAIN runOf
  BY <1>1 DEF CallsHold
<1>6. \A q \in updated : q \in DOMAIN runOf
  BY <1>1 DEF UpdatedHolds
<1> HIDE DEF r
<1>7. OneCaller'
  <2>1. r \notin DOMAIN runOf /\ call'[s].run = r
    BY <1>2, <1>4
  <2>2. \A q \in returned : q \in DOMAIN runOf
    BY DEF Exact, OneCaller
  <2>3. ASSUME NEW t \in Store, NEW u \in Store, call'[t] # Idle, call'[u] # Idle,
               call'[t].run = call'[u].run
        PROVE  t = u
    BY <1>4, <1>5, <2>1, <2>3 DEF Exact, OneCaller
  <2>4. ASSUME NEW t \in Store, call'[t] # Idle PROVE call'[t].run \notin returned
    BY <1>4, <2>1, <2>2, <2>4 DEF Exact, OneCaller
  <2> QED
    BY <1>2, <1>3, <2>2, <2>3, <2>4 DEF OneCaller
<1>8. NoneYet'
  BY <1>1, <1>2, <1>3 DEF Exact, NoneYet
\* An earlier run that is still the only one of its job was it before.
<1>9. ASSUME NEW q \in DOMAIN runOf, Sole(runOf', q)
      PROVE  /\ Sole(runOf, q) /\ runOf[q] # j /\ runOf'[q] = runOf[q] /\ size'[q] = size[q]
             /\ report'[runOf[q]] = report[runOf[q]] /\ (q \in updated' => q \in updated)
  <2>1. runOf'[q] = runOf[q] /\ size'[q] = size[q]
    BY <1>1
  <2>2. Sole(runOf, q)
    BY <1>1, <1>2, <1>9, <2>1 DEF Sole
  <2>3. runOf[q] # j
    <3>1. r \in DOMAIN runOf'
      BY <1>1 DEF r
    <3> QED
      BY <1>1, <1>2, <1>9, <2>1, <3>1 DEF Sole
  <2>4. report'[runOf[q]] = report[runOf[q]]
    <3>1. runOf[q] \in Job /\ report \in [Job -> 0 .. MaxRuns]
      BY <1>2 DEF TypeOK
    <3> QED
      BY <1>3, <2>3, <3>1
  <2>5. q \in updated' => q \in updated
    BY <1>2, <1>3
  <2> QED
    BY <2>1, <2>2, <2>3, <2>4, <2>5
<1>10. InProgress'
  <2> SUFFICES ASSUME NEW t \in Store, call'[t] # Idle, Sole(runOf', call'[t].run)
               PROVE  /\ RowsAbout(findings, runOf'[call'[t].run]) =
                           RowsOf(runOf'[call'[t].run], call'[t].run, call'[t].at - 1)
                      /\ call'[t].run \in updated' => report'[runOf'[call'[t].run]] = call'[t].run
    BY <1>3 DEF InProgress
  <2>1. CASE t = s
    <3>1. call'[t].run = r /\ call'[t].at = 1 /\ runOf'[r] = j
      BY <1>1, <1>4, <2>1
    <3>2. \A q \in DOMAIN runOf : runOf[q] # j
      <4>1. Sole(runOf', r)
        BY <3>1
      <4>2. \A q \in DOMAIN runOf' : runOf'[q] = j => q = r
        BY <3>1, <4>1 DEF Sole
      <4> QED
        BY <1>1, <1>2, <4>2
    <3>3. RowsAbout(findings, j) = <<>>
      BY <3>2 DEF Exact, NoneYet
    <3>4. RowsOf(j, r, 0) = <<>>
      BY DEF RowsOf
    <3>5. r \in updated' => report'[j] = r
      BY <1>2, <1>3, <1>6 DEF TypeOK
    <3> QED
      BY <3>1, <3>3, <3>4, <3>5
  <2>2. CASE t # s
    <3>1. call'[t] = call[t] /\ call[t].run \in DOMAIN runOf
      BY <1>4, <1>5, <2>2
    <3>2. Sole(runOf', call[t].run)
      BY <3>1
    <3> QED
      BY <1>9, <3>1, <3>2 DEF Exact, InProgress
  <2> QED
    BY <2>1, <2>2
<1>11. Done'
  <2> SUFFICES ASSUME NEW q \in returned, Sole(runOf', q)
               PROVE  /\ RowsAbout(findings, runOf'[q]) = RowsOf(runOf'[q], q, size'[q])
                      /\ metadata'[runOf'[q]] = q
                      /\ q \in updated' => report'[runOf'[q]] = q
    BY <1>3 DEF Done
  <2>1. q \in DOMAIN runOf
    BY DEF Exact, OneCaller
  <2> QED
    BY <1>3, <1>9, <2>1 DEF Exact, Done
<1> QED
  BY <1>7, <1>8, <1>10, <1>11 DEF Exact

\* The rows of a run, and one more.
LEMMA AppendRow ==
  ASSUME NEW j, NEW r, NEW n \in Nat
  PROVE  Append(RowsOf(j, r, n), [job |-> j, run |-> r, k |-> n + 1]) = RowsOf(j, r, n + 1)
<1> DEFINE T == {[job |-> j, run |-> r, k |-> i] : i \in 1 .. n + 1}
           R == RowsOf(j, r, n)
           row == [job |-> j, run |-> r, k |-> n + 1]
<1>1. \A i \in 1 .. n + 1 : [job |-> j, run |-> r, k |-> i] \in T
  OBVIOUS
<1>2. row \in T
  OBVIOUS
<1>3. R \in Seq(T)
  BY <1>1 DEF RowsOf
<1>4. Len(R) = n /\ \A i \in 1 .. n : R[i] = [job |-> j, run |-> r, k |-> i]
  BY DEF RowsOf
<1> HIDE DEF T, R
<1>5. /\ Append(R, row) \in Seq(T) /\ Len(Append(R, row)) = n + 1
      /\ \A i \in 1 .. n : Append(R, row)[i] = R[i]
      /\ Append(R, row)[n + 1] = row
  BY <1>2, <1>3, <1>4
<1> DEFINE A == Append(R, row)
<1>6. \A i \in 1 .. n + 1 : A[i] = [job |-> j, run |-> r, k |-> i]
  BY <1>4, <1>5
<1> HIDE DEF A
<1>7. A = [i \in 1 .. n + 1 |-> A[i]]
  <2>1. A \in Seq(T) /\ Len(A) = n + 1
    BY <1>5 DEF A
  <2> QED
    BY <2>1
<1> QED
  BY <1>6, <1>7 DEF A, R, RowsOf

\* The next finding is the next row of the run; another run that is the only one of
\* its job is of another job.
LEMMA InsertFindingExact ==
  ASSUME TypeOK, CallsHold, Exact, NEW s \in Store, InsertFinding(s)
  PROVE  Exact'
<1> DEFINE r == call[s].run
           j == runOf[r]
           k == call[s].at
           row == [job |-> j, run |-> r, k |-> k]
<1>1. /\ r \in DOMAIN runOf /\ j \in Job /\ r \in Run /\ k \in 1 .. MaxFindings
  <2>1. r \in 1 .. Len(runOf) /\ k \in 1 .. size[r] + 1 /\ k <= size[r]
    BY DEF CallsHold, InsertFinding
  <2>2. Len(runOf) <= MaxRuns /\ Len(runOf) \in Nat /\ DOMAIN runOf = 1 .. Len(runOf)
        /\ size[r] \in 0 .. MaxFindings /\ j \in Job
    <3>1. /\ runOf \in Seq(Job) /\ size \in Seq(0 .. MaxFindings)
          /\ Len(size) = Len(runOf) /\ Len(size) <= MaxRuns
      BY DEF TypeOK
    <3> HIDE DEF r
    <3> QED
      BY <2>1, <3>1
  <2> QED
    BY <2>1, <2>2
<1>2. /\ call[s] # Idle /\ findings' = Append(findings, row)
      /\ call' = [call EXCEPT ![s].at = @ + 1]
      /\ UNCHANGED <<rowVars, metadata, size, runOf, updated, returned>>
  BY DEF InsertFinding
<1>3. /\ call'[s].run = r /\ call'[s].at = k + 1
      /\ \A t \in Store : t # s => call'[t] = call[t]
  BY <1>2 DEF TypeOK
<1>4. row \in FindingRow /\ row.job = j
  BY <1>1
<1> HIDE DEF row
<1>5. \A i : RowsAbout(findings', i) =
        IF i = j THEN Append(RowsAbout(findings, i), row) ELSE RowsAbout(findings, i)
  <2>1. findings \in Seq(FindingRow)
    BY DEF TypeOK
  <2> QED
    BY <1>2, <1>4, <2>1, RowsAboutAppend
<1> HIDE DEF r, j, k
<1>6. OneCaller'
  <2>1. \A t \in Store : call'[t] # Idle => call[t] # Idle /\ call'[t].run = call[t].run
    BY <1>2, <1>3 DEF r
  <2> QED
    BY <1>2, <2>1 DEF Exact, OneCaller
<1>7. NoneYet'
  <2>1. ASSUME NEW i \in Job, \A q \in DOMAIN runOf : runOf[q] # i
        PROVE  RowsAbout(findings', i) = <<>>
    <3>1. i # j
      BY <1>1, <2>1 DEF j
    <3> QED
      BY <1>5, <2>1, <3>1 DEF Exact, NoneYet
  <2> QED
    BY <1>2, <2>1 DEF NoneYet
\* The other runs that are alone are of other jobs.
<1>8. ASSUME NEW q \in DOMAIN runOf, q # r, Sole(runOf, q)
      PROVE  RowsAbout(findings', runOf[q]) = RowsAbout(findings, runOf[q])
  <2>1. runOf[q] # j
    BY <1>1, <1>8 DEF Sole, j
  <2> QED
    BY <1>5, <2>1
<1>9. InProgress'
  <2> SUFFICES ASSUME NEW t \in Store, call'[t] # Idle, Sole(runOf, call'[t].run)
               PROVE  /\ RowsAbout(findings', runOf[call'[t].run]) =
                           RowsOf(runOf[call'[t].run], call'[t].run, call'[t].at - 1)
                      /\ call'[t].run \in updated => report[runOf[call'[t].run]] = call'[t].run
    BY <1>2 DEF InProgress
  <2>1. CASE t = s
    <3>1. /\ RowsAbout(findings, j) = RowsOf(j, r, k - 1)
          /\ r \in updated => report[j] = r
      BY <1>2, <1>3, <2>1 DEF Exact, InProgress, r, j, k
    <3>2. Append(RowsOf(j, r, k - 1), row) = RowsOf(j, r, k)
      <4>1. k - 1 \in Nat /\ (k - 1) + 1 = k
        BY <1>1
      <4> QED
        BY <1>4, <4>1, AppendRow DEF row
    <3>3. call'[t].run = r /\ call'[t].at - 1 = k /\ runOf[r] = j
      BY <1>1, <1>3, <2>1 DEF j
    <3> QED
      BY <1>5, <3>1, <3>2, <3>3
  <2>2. CASE t # s
    <3>1. call'[t] = call[t]
      BY <1>3, <2>2
    <3>2. call[t].run \in DOMAIN runOf
      BY <3>1 DEF CallsHold, TypeOK
    <3>3. call[t].run # r
      BY <1>2, <2>2, <3>1 DEF Exact, OneCaller, r
    <3> QED
      BY <1>8, <3>1, <3>2, <3>3 DEF Exact, InProgress
  <2> QED
    BY <2>1, <2>2
<1>10. Done'
  <2> SUFFICES ASSUME NEW q \in returned, Sole(runOf, q)
               PROVE  /\ RowsAbout(findings', runOf[q]) = RowsOf(runOf[q], q, size[q])
                      /\ metadata[runOf[q]] = q
                      /\ q \in updated => report[runOf[q]] = q
    BY <1>2 DEF Done
  <2>1. q \in DOMAIN runOf /\ q # r
    BY <1>2 DEF Exact, OneCaller, r
  <2> QED
    BY <1>8, <2>1 DEF Exact, Done
<1> QED
  BY <1>6, <1>7, <1>9, <1>10 DEF Exact

\* The call returns when every finding is there.
LEMMA InsertMetadataExact ==
  ASSUME TypeOK, CallsHold, Exact, NEW s \in Store, InsertMetadata(s)
  PROVE  Exact'
<1> DEFINE r == call[s].run
<1>1. /\ call[s] # Idle /\ call[s].at = size[r] + 1
      /\ metadata' = [metadata EXCEPT ![runOf[r]] = r]
      /\ returned' = returned \cup {r}
      /\ call' = [call EXCEPT ![s] = Idle]
      /\ UNCHANGED <<rowVars, findings, size, runOf, updated>>
  BY DEF InsertMetadata
<1>2. r \in DOMAIN runOf /\ runOf[r] \in Job /\ size[r] \in Nat
  BY <1>1 DEF CallsHold, TypeOK
<1>3. \A t \in Store : call'[t] # Idle => t # s /\ call'[t] = call[t]
  BY <1>1 DEF TypeOK
<1>4. OneCaller'
  <2>1. \A t \in Store : call'[t] # Idle => call'[t].run # r
    BY <1>1, <1>3 DEF Exact, OneCaller
  <2> HIDE DEF r
  <2> QED
    BY <1>1, <1>2, <1>3, <2>1 DEF Exact, OneCaller
<1>5. NoneYet' /\ InProgress'
  BY <1>1, <1>3 DEF Exact, NoneYet, InProgress
<1>6. ASSUME NEW q \in returned', Sole(runOf, q)
      PROVE  /\ RowsAbout(findings, runOf[q]) = RowsOf(runOf[q], q, size[q])
             /\ metadata'[runOf[q]] = q
             /\ q \in updated => report[runOf[q]] = q
  <2>1. CASE q = r
    <3>1. /\ RowsAbout(findings, runOf[r]) = RowsOf(runOf[r], r, call[s].at - 1)
          /\ r \in updated => report[runOf[r]] = r
      BY <1>1, <1>6, <2>1 DEF Exact, InProgress
    <3>2. call[s].at - 1 = size[r]
      BY <1>1, <1>2
    <3>3. metadata'[runOf[r]] = r
      BY <1>1, <1>2 DEF TypeOK
    <3> QED
      BY <2>1, <3>1, <3>2, <3>3
  <2>2. CASE q # r
    <3>1. q \in returned /\ q \in DOMAIN runOf
      BY <1>1, <2>2 DEF Exact, OneCaller
    <3>2. runOf[q] # runOf[r] /\ runOf[q] \in Job
      BY <1>2, <1>6, <2>2, <3>1 DEF Sole, TypeOK
    <3>3. metadata'[runOf[q]] = metadata[runOf[q]]
      BY <1>1, <3>2 DEF TypeOK
    <3> QED
      BY <1>6, <3>1, <3>3 DEF Exact, Done
  <2> QED
    BY <2>1, <2>2
<1>7. Done'
  BY <1>1, <1>6 DEF Done
<1> QED
  BY <1>4, <1>5, <1>7 DEF Exact

\* A run that is given up never returns.
LEMMA AbandonExact ==
  ASSUME TypeOK, Exact, NEW s \in Store, Abandon(s)
  PROVE  Exact'
<1>1. /\ call' = [call EXCEPT ![s] = Idle]
      /\ UNCHANGED <<rowVars, findings, metadata, size, runOf, updated, returned>>
  BY DEF Abandon
<1>2. \A t \in Store : call'[t] # Idle => call'[t] = call[t]
  BY <1>1 DEF TypeOK
<1> QED
  BY <1>1, <1>2 DEF Exact, OneCaller, NoneYet, InProgress, Done

\* Every step keeps it.
LEMMA NextExact == IInv /\ Exact /\ [Next]_vars => Exact'
<1> SUFFICES ASSUME IInv, Exact, [Next]_vars PROVE Exact'
  OBVIOUS
<1>1. TypeOK /\ CallsHold /\ UpdatedHolds
  OBVIOUS
<1> HIDE DEF IInv
<1>2. ASSUME NEW j \in Job, CreateJob(j) \/ StartJob(j) \/ FailJob(j) \/ CancelJob(j)
      PROVE  Exact'
  BY <1>2, RowExact DEF CreateJob, StartJob, FailJob, CancelJob, UntouchedByRow
<1>3. ASSUME NEW s \in Store, CompleteJob(s) PROVE Exact'
  BY <1>1, <1>3, CompleteExact, InsertFindingExact, InsertMetadataExact, AbandonExact
     DEF CompleteJob
<1>4. CASE UNCHANGED vars
  BY <1>4, RowExact DEF vars
<1> QED
  BY <1>2, <1>3, <1>4 DEF Next

\* If complete_job was called once for a job and returned, findings_for_job gives
\* exactly the findings of that run in their order, and the row and the metadata name
\* it, whatever other connections did meanwhile.
THEOREM OneCompletionHolds == Spec => []OneCompletionIsExact
<1>1. Spec => []Exact
  BY InitExact, NextExact, Invariance, PTL DEF Spec
<1>2. IInv /\ Exact => OneCompletionIsExact
  <2> SUFFICES ASSUME IInv, Exact, NEW r \in returned, Sole(runOf, r)
               PROVE  /\ FindingsForJob(runOf[r]) =
                           [k \in 1 .. size[r] |-> [job |-> runOf[r], run |-> r, k |-> k]]
                      /\ metadata[runOf[r]] = r
                      /\ r \in updated => report[runOf[r]] = r
    BY DEF OneCompletionIsExact, Sole
  <2> QED
    BY DEF Exact, Done, FindingsForJob, RowsOf
<1> QED
  BY <1>1, <1>2, Invariance, PTL
=============================================================================
