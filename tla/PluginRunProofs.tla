--------------------------- MODULE PluginRunProofs --------------------------
(***************************************************************************)
(* Theorems about PluginRun, for pipes, requests and limits of any size.   *)
(* The inductive invariant counts the blocks of each stream (Accounted)    *)
(* and says what each step of the host thread may take for granted when it *)
(* is reached (Polled, Joined, Judged).                                    *)
(***************************************************************************)
EXTENDS PluginRun, TLAPS

\* Before the plugin is started nothing is read.
NotStarted ==
  /\ host = "deciding" => plugin = "none"
  /\ plugin = "none" => \A s \in Stream : reader[s] = "reading"

\* While a reader runs, what was written is read or in the pipe; a reader that ended
\* below its limit has read everything, and nobody is left to write more.
Accounted ==
  \A s \in Stream :
    /\ reader[s] = "reading" => written[s] = got[s] + pipe[s]
    /\ reader[s] = "done" /\ got[s] <= Limit(s) => written[s] = got[s] /\ ~ Open

\* The poll loop ends well only with a plugin that did.
Polled == status = "success" => plugin = "success"

\* The host judges after the joins.
Joined == host = "judging" => \A s \in Stream : reader[s] = "done"

\* A response that is reported passed the checks.
Judged ==
  /\ finding # "none" => host = "returned"
  /\ finding = "reported" => status = "success" /\ reader["out"] = "done" /\ got["out"] <= OutLimit

IInv == TypeOK /\ NotStarted /\ Accounted /\ Polled /\ Joined /\ Judged

\* The sizes are numbers.
LEMMA SizesAreNat ==
  /\ Capacity \in Nat /\ RequestSize \in Nat /\ MaxWritten \in Nat
  /\ OutLimit \in Nat /\ ErrLimit \in Nat
BY SizesAssumption

USE SizesAreNat DEF Stream, Limit, IInv, hostVars, threadVars, pipeVars

\* Nothing has been read or written.
LEMMA InitInv == Init => IInv
<1> SUFFICES ASSUME Init PROVE IInv
  OBVIOUS
<1> USE DEF Init
<1>1. TypeOK
  <2>1. 0 \in 0 .. Capacity /\ 0 \in 0 .. MaxWritten /\ RequestSize \in 0 .. RequestSize
    OBVIOUS
  <2>2. \A s \in Stream : 0 <= Limit(s) + 1
    OBVIOUS
  <2> QED
    BY <2>1, <2>2 DEF TypeOK
<1>2. NotStarted /\ Accounted /\ Polled /\ Joined /\ Judged
  BY DEF NotStarted, Accounted, Polled, Joined, Judged
<1> QED
  BY <1>1, <1>2

\* The host thread and the clock touch no pipe.
LEMMA HostInv ==
  ASSUME IInv, HostThread \/ DeadlinePasses
  PROVE  IInv'
<1>1. UNCHANGED <<threadVars, pipeVars, helper>>
  BY DEF HostThread, DoNotStart, Spawn, SeeExit, GiveUp, Kill, JoinThreads, Judge, DeadlinePasses
<1>2. TypeOK'
  BY <1>1 DEF TypeOK, HostThread, DoNotStart, Spawn, SeeExit, GiveUp, Kill, JoinThreads, Judge,
              DeadlinePasses, Return
<1>3. NotStarted'
  BY <1>1 DEF TypeOK, NotStarted, HostThread, DoNotStart, Spawn, SeeExit, GiveUp, Kill,
              JoinThreads, Judge, DeadlinePasses, Return
<1>4. Open' => Open \/ \A s \in Stream : reader[s] = "reading"
  BY <1>1 DEF TypeOK, NotStarted, Open, HostThread, DoNotStart, Spawn, SeeExit, GiveUp, Kill,
              JoinThreads, Judge, DeadlinePasses
<1>5. Accounted'
  BY <1>1, <1>4 DEF Accounted
<1>6. Polled'
  BY DEF TypeOK, Polled, HostThread, DoNotStart, Spawn, SeeExit, GiveUp, Kill,
         JoinThreads, Judge, DeadlinePasses, Judged, NotStarted
<1>7. Joined'
  BY <1>1 DEF Joined, HostThread, DoNotStart, Spawn, SeeExit, GiveUp, Kill,
              JoinThreads, Judge, DeadlinePasses, Return
<1>8. Judged'
  BY <1>1 DEF TypeOK, Judged, Joined, HostThread, DoNotStart, Spawn, SeeExit, GiveUp, Kill,
              JoinThreads, Judge, DeadlinePasses, Return
<1> QED
  BY <1>2, <1>3, <1>5, <1>6, <1>7, <1>8

\* The writer touches the standard input only.
LEMMA FeedInv ==
  ASSUME IInv, Feed
  PROVE  IInv'
<1>1. TypeOK'
  BY DEF TypeOK, Feed
<1>2. UNCHANGED <<hostVars, reader, got, pipe, written, plugin, helper>>
  BY DEF Feed
<1> QED
  BY <1>1, <1>2 DEF NotStarted, Accounted, Polled, Joined, Judged, Open

\* A reader moves a block, or ends: past its limit, or with an empty pipe that
\* nobody holds open.
LEMMA DrainInv ==
  ASSUME IInv, NEW s \in Stream, Drain(s)
  PROVE  IInv'
<1>1. UNCHANGED <<hostVars, expired, toWrite, writer, stdin, written, plugin, helper>>
      /\ plugin # "none" /\ host # "deciding" /\ reader[s] = "reading"
  BY DEF Drain, Started
<1>2. CASE /\ pipe[s] > 0 /\ got[s] <= Limit(s)
           /\ pipe' = [pipe EXCEPT ![s] = @ - 1]
           /\ got' = [got EXCEPT ![s] = @ + 1]
           /\ UNCHANGED reader
  <2>1. TypeOK'
    BY <1>1, <1>2 DEF TypeOK
  <2>2. Accounted'
    BY <1>1, <1>2 DEF TypeOK, Accounted, Open
  <2>3. NotStarted' /\ Polled' /\ Joined' /\ Judged'
    BY <1>1, <1>2 DEF TypeOK, NotStarted, Polled, Joined, Judged
  <2> QED
    BY <2>1, <2>2, <2>3
<1>3. CASE /\ got[s] > Limit(s) \/ (pipe[s] = 0 /\ ~ Open)
           /\ reader' = [reader EXCEPT ![s] = "done"]
           /\ UNCHANGED <<pipe, got>>
  <2>1. TypeOK'
    BY <1>1, <1>3 DEF TypeOK
  <2>2. Accounted'
    BY <1>1, <1>3 DEF TypeOK, Accounted, Open
  <2>3. NotStarted' /\ Polled' /\ Joined' /\ Judged'
    BY <1>1, <1>3 DEF TypeOK, NotStarted, Polled, Joined, Judged
  <2> QED
    BY <2>1, <2>2, <2>3
<1> QED
  BY <1>2, <1>3 DEF Drain

\* A block is written into a pipe that is being read.
LEMMA WriteInv ==
  ASSUME IInv, NEW s \in Stream, Write(s)
  PROVE  IInv'
<1>1. TypeOK'
  BY DEF TypeOK, Write
<1>2. Accounted'
  BY DEF TypeOK, Accounted, Write, Open
<1>3. NotStarted' /\ Polled' /\ Joined' /\ Judged'
  BY DEF NotStarted, Polled, Joined, Judged, Write
<1> QED
  BY <1>1, <1>2, <1>3

\* A plugin that is running has every reader still reading, or past its limit.
LEMMA WriteBrokenInv ==
  ASSUME IInv, NEW s \in Stream, WriteBroken(s)
  PROVE  IInv'
<1>1. TypeOK'
  BY DEF TypeOK, WriteBroken
<1>2. Accounted'
  BY DEF TypeOK, Accounted, WriteBroken, Open
<1>3. NotStarted' /\ Polled' /\ Joined' /\ Judged'
  BY DEF NotStarted, Polled, Joined, Judged, WriteBroken
<1> QED
  BY <1>1, <1>2, <1>3

\* The other steps of the processes write nothing.
LEMMA OtherProcessInv ==
  ASSUME IInv, ReadRequest \/ Exit \/ StartHelper \/ HelperEnds
  PROVE  IInv'
<1> USE DEF ReadRequest, Exit, StartHelper, HelperEnds
<1>1. TypeOK'
  BY DEF TypeOK
<1>2. Accounted'
  BY DEF Accounted, Open
<1>3. NotStarted' /\ Polled' /\ Joined' /\ Judged'
  BY DEF NotStarted, Polled, Joined, Judged
<1> QED
  BY <1>1, <1>2, <1>3

\* Every step keeps the invariant.
LEMMA NextInv == IInv /\ [Next]_vars => IInv'
<1> SUFFICES ASSUME IInv, [Next]_vars PROVE IInv'
  OBVIOUS
<1>1. CASE HostThread \/ DeadlinePasses
  BY <1>1, HostInv
<1>2. CASE Feed
  BY <1>2, FeedInv
<1>3. ASSUME NEW s \in Stream, Drain(s) PROVE IInv'
  BY <1>3, DrainInv
<1>4. ASSUME NEW s \in Stream, Write(s) PROVE IInv'
  BY <1>4, WriteInv
<1>5. ASSUME NEW s \in Stream, WriteBroken(s) PROVE IInv'
  BY <1>5, WriteBrokenInv
<1>6. CASE ReadRequest \/ Exit \/ StartHelper \/ HelperEnds
  BY <1>6, OtherProcessInv
<1>7. CASE UNCHANGED vars
  BY <1>7 DEF vars, TypeOK, NotStarted, Accounted, Open, Polled, Joined, Judged
<1> QED
  BY <1>1, <1>2, <1>3, <1>4, <1>5, <1>6, <1>7 DEF Next, Processes, Finished

\* Every reachable state satisfies the invariant (run_plugin, run.rs).
THEOREM Invariance == Spec => []IInv
<1> QED
  BY InitInv, NextInv, PTL DEF Spec

\* A response is believed only if every block of it was read and the plugin ended well
\* (the checks of run_plugin after the joins), whatever the sizes of pipes and limits
\* and whatever a helper process keeps open.
THEOREM ResponsesAreWhole == Spec => []NoTruncatedResponse
<1>1. IInv => NoTruncatedResponse
  BY DEF TypeOK, NoTruncatedResponse, Judged, Polled, Accounted
<1> QED
  BY <1>1, Invariance, PTL
=============================================================================
